------------------------------ MODULE Stunnel ------------------------------
(***************************************************************************)
(* The stunnel process beside the web honeypot: StunnelManager, the end of *)
(* the start-up that creates it and the signal handler that shuts it down  *)
(* (srv/web/isc_agent/stunnel_manager.py and __main__.py).                 *)
(*                                                                         *)
(* Three threads share self.process and self.pid without a lock: the one   *)
(* that starts stunnel, the watchdog that restarts it, and the main thread *)
(* with its signal handlers.  A thread that evaluates self.process after   *)
(* another has set it to None raises AttributeError.                       *)
(***************************************************************************)
EXTENDS Naturals

CONSTANTS
    Procs,          \* bound: stunnel processes at a time
    MaxSignals,     \* bound: SIGTERM and SIGINT the process receives
    Starter,        \* the thread that runs _start_stunnel
    Watchdog,       \* the thread that runs _watchdog, a daemon
    NoProc          \* None

\* The main thread runs a shutdown_handler per signal, a later one on top of
\* the earlier ones.
Frames == 1..MaxSignals

Threads == Frames \cup {Starter, Watchdog}

ASSUME StunnelAssumption ==
    /\ MaxSignals \in Nat
    /\ Starter # Watchdog
    /\ {Starter, Watchdog} \cap Frames = {}
    /\ NoProc \notin Procs

VARIABLES
    main,               \* where the main thread is, below the signal handlers
    stun_mgr,           \* the global of that name
    signals,            \* signals received
    pc,                 \* where each thread and each signal handler is
    process,            \* self.process
    pid,                \* self.pid, as the process that has it
    watchdog_running,   \* self._watchdog_running
    conf_file,          \* stunnel.conf exists
    stunnel,            \* the processes
    handle,             \* the process a thread has started or waits for
    owned,              \* the process the manager had when the first signal came
    exited              \* the honeypot's process has ended

vars == <<main, stun_mgr, signals, pc, process, pid, watchdog_running,
          conf_file, stunnel, handle, owned, exited>>

manager == <<process, pid, watchdog_running, conf_file, stunnel>>
startup == <<main, stun_mgr>>
life    == <<signals, owned, exited>>

Stages == {"installed", "constructing", "generating", "spawned", "joining",
           "serving", "ended"}

\* The stages inside the try statement, which catches Exception.
TryStages == {"constructing", "generating", "spawned", "joining"}

PCs == {"idle", "agent", "blocked", "manager", "flag", "test", "exit",
        "terminate", "wait", "waiting", "kill", "clear",
        "loop", "sleep", "check", "launch", "track", "pid", "done"}

\* The steps inside the try statement of shutdown.
TrySteps == {"terminate", "wait", "waiting", "kill"}

States == {"unused", "running", "terminated", "dead"}

\* The test "self.process and self.pid".
Tracked == process # NoProc /\ pid # NoProc

\* The innermost signal handler runs, and the main thread only without one.
Active(x) == x \in Frames => \A f \in Frames : pc[f] # "idle" => f <= x

MainRuns == ~exited /\ \A f \in Frames : pc[f] = "idle"

At(x, label) == ~exited /\ Active(x) /\ pc[x] = label

Goto(x, label) == pc' = [pc EXCEPT ![x] = label]

Init ==
    /\ main = "installed"
    /\ stun_mgr = "unset"
    /\ signals = 0
    /\ pc = [x \in Threads |-> "idle"]
    /\ process = NoProc
    /\ pid = NoProc
    /\ watchdog_running = FALSE
    /\ conf_file \in BOOLEAN
    /\ stunnel = [p \in Procs |-> "unused"]
    /\ handle = [x \in Threads |-> NoProc]
    /\ owned = {}
    /\ exited = FALSE

-----------------------------------------------------------------------------
(* Start-up, after the signal handlers have been installed.                *)

\* httpd = CustomServer(...), and the try statement is entered.
CreateServer ==
    /\ MainRuns /\ main = "installed"
    /\ main' = "constructing"
    /\ UNCHANGED <<stun_mgr, pc, handle, manager, life>>

\* stun_mgr = StunnelManager(config)
Construct ==
    /\ MainRuns /\ main = "constructing"
    /\ main' = "generating"
    /\ stun_mgr' = "manager"
    /\ UNCHANGED <<pc, handle, manager, life>>

\* There is no stunnel binary: start returns None, and nothing is joined.
NoBinary ==
    /\ MainRuns /\ main = "generating"
    /\ main' = "serving"
    /\ UNCHANGED <<stun_mgr, pc, handle, manager, life>>

\* The configuration cannot be written: the honeypot serves without stunnel.
GenerateFails ==
    /\ MainRuns /\ main = "generating"
    /\ main' = "serving"
    /\ stun_mgr' = "None"
    /\ UNCHANGED <<pc, handle, manager, life>>

\* _generate_config, and the thread that starts stunnel.
Generate ==
    /\ MainRuns /\ main = "generating"
    /\ main' = "spawned"
    /\ conf_file' = TRUE
    /\ Goto(Starter, "launch")
    /\ UNCHANGED <<stun_mgr, process, pid, watchdog_running, stunnel, handle, life>>

StartWatchdog ==
    /\ MainRuns /\ main = "spawned"
    /\ main' = "joining"
    /\ watchdog_running' = TRUE
    /\ Goto(Watchdog, "loop")
    /\ UNCHANGED <<stun_mgr, process, pid, conf_file, stunnel, handle, life>>

\* stun_mgr_start_thread.join() returns, and serve_forever is called.
Join ==
    /\ MainRuns /\ main = "joining"
    /\ pc[Starter] = "done"
    /\ main' = "serving"
    /\ UNCHANGED <<stun_mgr, pc, handle, manager, life>>

StartupStep ==
    \/ CreateServer \/ Construct \/ NoBinary \/ GenerateFails \/ Generate
    \/ StartWatchdog \/ Join

-----------------------------------------------------------------------------
(* _start_stunnel, in the starter and in the watchdog.                     *)

After(x) == IF x = Starter THEN "done" ELSE "loop"

\* A process of which nobody has kept a reference.
Unused(p) ==
    /\ stunnel[p] \in {"unused", "dead"}
    /\ p \notin {process, pid} \cup {handle[x] : x \in Threads} \cup owned

\* Popen.  Without its configuration stunnel ends at once.
LaunchSucceeds(x) ==
    /\ At(x, "launch")
    /\ \E p \in Procs :
          /\ Unused(p)
          /\ stunnel' = [stunnel EXCEPT ![p] = IF conf_file THEN "running" ELSE "dead"]
          /\ handle' = [handle EXCEPT ![x] = p]
    /\ Goto(x, "track")
    /\ UNCHANGED <<startup, process, pid, watchdog_running, conf_file, life>>

\* Popen raises; the exception is logged.
LaunchFails(x) ==
    /\ At(x, "launch")
    /\ Goto(x, After(x))
    /\ UNCHANGED <<startup, manager, handle, life>>

\* self.process = the Popen object
SetProcess(x) ==
    /\ At(x, "track")
    /\ process' = handle[x]
    /\ handle' = [handle EXCEPT ![x] = NoProc]
    /\ Goto(x, "pid")
    /\ UNCHANGED <<startup, pid, watchdog_running, conf_file, stunnel, life>>

\* Mutant: what the process does instead of its number.
SetPid_State(x) ==
    /\ At(x, "pid")
    /\ pid' = IF process = NoProc THEN pid ELSE stunnel[process]
    /\ Goto(x, After(x))
    /\ UNCHANGED <<startup, process, watchdog_running, conf_file, stunnel, handle,
                   life>>

\* self.pid = self.process.pid; if self.process is None again, the exception is
\* logged.
SetPid(x) ==
    /\ At(x, "pid")
    /\ pid' = IF process = NoProc THEN pid ELSE process
    /\ Goto(x, After(x))
    /\ UNCHANGED <<startup, process, watchdog_running, conf_file, stunnel, handle,
                   life>>

-----------------------------------------------------------------------------
(* _watchdog.                                                              *)

WatchdogLoop ==
    /\ At(Watchdog, "loop")
    /\ Goto(Watchdog, IF watchdog_running THEN "sleep" ELSE "done")
    /\ UNCHANGED <<startup, manager, handle, life>>

\* The interval is 600 seconds, and start-up needs two: it is over by then.
WatchdogWakes ==
    /\ At(Watchdog, "sleep")
    /\ main \in {"serving", "ended"}
    /\ pc[Starter] = "done"
    /\ Goto(Watchdog, "check")
    /\ UNCHANGED <<startup, manager, handle, life>>

\* Somebody answers on the port.
ServiceUp ==
    /\ At(Watchdog, "check")
    /\ \E p \in Procs : stunnel[p] = "running"
    /\ Goto(Watchdog, "loop")
    /\ UNCHANGED <<startup, manager, handle, life>>

\* Mutant: stunnel is started again beside the one that does not answer.
ServiceDown_Relaunches ==
    /\ At(Watchdog, "check")
    /\ Goto(Watchdog, "launch")
    /\ UNCHANGED <<startup, manager, handle, life>>

\* Mutant: only a process that was there is started again.
ServiceDown_OnlyTracked ==
    /\ At(Watchdog, "check")
    /\ Goto(Watchdog, IF Tracked THEN "terminate" ELSE "loop")
    /\ UNCHANGED <<startup, manager, handle, life>>

\* Nobody answers within a second, although stunnel may be there.
ServiceDown ==
    /\ At(Watchdog, "check")
    /\ Goto(Watchdog, IF Tracked THEN "terminate" ELSE "launch")
    /\ UNCHANGED <<startup, manager, handle, life>>

-----------------------------------------------------------------------------
(* The signal handler, and the end of the main thread's code.              *)

\* A signal interrupts the main thread, in a handler too.
Signal ==
    /\ ~exited /\ main # "ended"
    /\ signals < MaxSignals
    /\ signals' = signals + 1
    /\ Goto(signals + 1, "agent")
    /\ owned' = IF signals = 0 /\ Tracked THEN {process} ELSE owned
    /\ UNCHANGED <<startup, manager, handle, exited>>

\* An exception leaves all signal handlers, which execute the finally clause
\* that they are in.  The try statement of the start-up catches an error.
\* serve_forever swallows one that a handler raises while it hands a connection
\* to a thread, and goes on.  Everything else ends the main thread's code.
Unwind(kind) ==
    /\ pc' = [x \in Threads |-> IF x \in Frames THEN "idle" ELSE pc[x]]
    /\ handle' = [x \in Threads |-> IF x \in Frames THEN NoProc ELSE handle[x]]
    /\ IF \E f \in Frames : pc[f] \in TrySteps
       THEN process' = NoProc /\ pid' = NoProc /\ conf_file' = FALSE
       ELSE UNCHANGED <<process, pid, conf_file>>
    /\ \/ /\ kind = "error" /\ main \in TryStages
          /\ main' = "serving" /\ stun_mgr' = "None"
       \/ kind = "error" /\ main = "serving" /\ UNCHANGED startup
       \/ /\ kind = "error" => main \notin TryStages
          /\ main' = "ended" /\ UNCHANGED stun_mgr
    /\ UNCHANGED <<watchdog_running, stunnel, life>>

\* A signal handler waits for a lock that one below it holds: it never returns.
Blocked == \E f \in Frames : pc[f] = "blocked"

\* isc_agent.shutdown() (module Agent) returns.  Once an earlier handler has shut
\* down the executor, a later one that still finds records raises.  If it has
\* interrupted the earlier one's final submission, it asks for the submit_lock
\* that its own thread holds.
AgentShutdown(f) ==
    /\ At(f, "agent")
    /\ \/ ~Blocked /\ Goto(f, "manager") /\ UNCHANGED <<startup, manager, handle, life>>
       \/ ~Blocked /\ f > 1 /\ Unwind("error")
       \/ /\ \E g \in Frames : g < f /\ pc[g] \in {"agent", "blocked"}
          /\ Goto(f, "blocked")
          /\ UNCHANGED <<startup, manager, handle, life>>

\* if stun_mgr: a NameError as long as it is unset.
TestManager(f) ==
    /\ At(f, "manager")
    /\ IF stun_mgr = "unset"
       THEN Unwind("error")
       ELSE /\ Goto(f, IF stun_mgr = "manager" THEN "flag" ELSE "exit")
            /\ UNCHANGED <<startup, manager, handle, life>>

\* self._watchdog_running = False
StopWatchdog(f) ==
    /\ At(f, "flag")
    /\ watchdog_running' = FALSE
    /\ Goto(f, "test")
    /\ UNCHANGED <<startup, process, pid, conf_file, stunnel, handle, life>>

TestTracked(f) ==
    /\ At(f, "test")
    /\ Goto(f, IF Tracked THEN "terminate" ELSE "exit")
    /\ UNCHANGED <<startup, manager, handle, life>>

\* sys.exit(0)
ExitHandler(f) == At(f, "exit") /\ Unwind("exit")

-----------------------------------------------------------------------------
(* The end of a process, in shutdown and in the watchdog.                  *)

\* An AttributeError because self.process is None.  It ends the watchdog.
Fails(x) ==
    /\ process = NoProc
    /\ IF x \in Frames
       THEN Unwind("error")
       ELSE /\ pid' = NoProc
            /\ Goto(x, "done")
            /\ UNCHANGED <<startup, process, watchdog_running, conf_file, stunnel,
                           handle, life>>

\* self.process.terminate()
Terminate(x) ==
    /\ At(x, "terminate")
    /\ \/ Fails(x)
       \/ /\ process # NoProc
          /\ stunnel' = [stunnel EXCEPT ![process] =
                           IF @ = "running" THEN "terminated" ELSE @]
          /\ Goto(x, "wait")
          /\ UNCHANGED <<startup, process, pid, watchdog_running, conf_file, handle,
                         life>>

\* self.process.wait(timeout=5) begins.
Wait(x) ==
    /\ At(x, "wait")
    /\ \/ Fails(x)
       \/ /\ process # NoProc
          /\ handle' = [handle EXCEPT ![x] = process]
          /\ Goto(x, "waiting")
          /\ UNCHANGED <<startup, manager, life>>

Waited(x) ==
    /\ At(x, "waiting")
    /\ stunnel[handle[x]] = "dead"
    /\ Goto(x, "clear")
    /\ UNCHANGED <<startup, manager, handle, life>>

\* Mutant: after the timeout the process is left alone.
WaitTimesOut_NoKill(x) ==
    /\ At(x, "waiting")
    /\ stunnel[handle[x]] # "dead"
    /\ Goto(x, "clear")
    /\ UNCHANGED <<startup, manager, handle, life>>

\* Mutant: wait has no timeout.
WaitTimesOut_Never(x) == FALSE /\ At(x, "waiting") /\ UNCHANGED vars

WaitTimesOut(x) ==
    /\ At(x, "waiting")
    /\ stunnel[handle[x]] # "dead"
    /\ Goto(x, "kill")
    /\ UNCHANGED <<startup, manager, handle, life>>

\* self.process.kill()
Kill(x) ==
    /\ At(x, "kill")
    /\ \/ Fails(x)
       \/ /\ process # NoProc
          /\ stunnel' = [stunnel EXCEPT ![process] = "dead"]
          /\ Goto(x, "clear")
          /\ UNCHANGED <<startup, process, pid, watchdog_running, conf_file, handle,
                         life>>

\* The finally clause; shutdown's also removes the configuration.
Clear(x) ==
    /\ At(x, "clear")
    /\ process' = NoProc
    /\ pid' = NoProc
    /\ conf_file' = (conf_file /\ x \notin Frames)
    /\ handle' = [handle EXCEPT ![x] = NoProc]
    /\ Goto(x, IF x \in Frames THEN "exit" ELSE "launch")
    /\ UNCHANGED <<startup, watchdog_running, stunnel, life>>

\* Nothing refers to the manager any more: neither the main module, whose
\* globals go when the interpreter ends, nor a thread in one of its methods.
Unreferenced ==
    /\ main \in {"serving", "ended"}
    /\ stun_mgr = "None" \/ main = "ended"
    /\ pc[Starter] \in {"idle", "done"}
    /\ pc[Watchdog] \in {"idle", "done"}

\* __del__ calls shutdown.
Collect ==
    /\ ~exited /\ Unreferenced /\ Tracked
    /\ watchdog_running' = FALSE
    /\ stunnel' = [stunnel EXCEPT ![process] = "dead"]
    /\ process' = NoProc
    /\ pid' = NoProc
    /\ conf_file' = FALSE
    /\ UNCHANGED <<startup, pc, handle, life>>

\* The interpreter has waited for the starter, which is no daemon.  The watchdog
\* stays where it is, with its reference to the manager.
ExitProcess ==
    /\ ~exited /\ main = "ended"
    /\ pc[Starter] \in {"idle", "done"}
    /\ ~(Unreferenced /\ Tracked)
    /\ exited' = TRUE
    /\ UNCHANGED <<startup, pc, handle, manager, signals, owned>>

-----------------------------------------------------------------------------

\* A stunnel crashes, or obeys SIGTERM, now or later.
Dies(p) ==
    /\ stunnel[p] \in {"running", "terminated"}
    /\ stunnel' = [stunnel EXCEPT ![p] = "dead"]
    /\ UNCHANGED <<startup, pc, process, pid, watchdog_running, conf_file, handle,
                   life>>

StartStep(x) ==
    LaunchSucceeds(x) \/ LaunchFails(x) \/ SetProcess(x) \/ SetPid(x)

StopStep(x) ==
    \/ Terminate(x) \/ Wait(x) \/ Waited(x) \/ WaitTimesOut(x)
    \/ Kill(x) \/ Clear(x)

WatchdogStep ==
    \/ WatchdogLoop \/ WatchdogWakes \/ ServiceUp \/ ServiceDown
    \/ StartStep(Watchdog) \/ StopStep(Watchdog)

HandlerStep(f) ==
    \/ AgentShutdown(f) \/ TestManager(f) \/ StopWatchdog(f)
    \/ TestTracked(f) \/ StopStep(f) \/ ExitHandler(f)

\* serve_forever goes on, a handler is blocked, or the process has ended.
Rest ==
    /\ exited \/ Blocked \/ (MainRuns /\ main = "serving")
    /\ UNCHANGED vars

Next ==
    \/ StartupStep
    \/ StartStep(Starter)
    \/ WatchdogStep
    \/ Signal
    \/ \E f \in Frames : HandlerStep(f)
    \/ Collect
    \/ ExitProcess
    \/ \E p \in Procs : Dies(p)
    \/ Rest

Spec == Init /\ [][Next]_vars

\* Threads that can go on do, the wait has a timeout, and Popen does not fail
\* for ever.  Whether stunnel crashes or obeys SIGTERM is left open.
Fairness ==
    /\ WF_vars(StartupStep)
    /\ WF_vars(StartStep(Starter))
    /\ WF_vars(WatchdogStep)
    /\ SF_vars(LaunchSucceeds(Watchdog))
    /\ \A f \in Frames : WF_vars(HandlerStep(f))
    /\ WF_vars(Collect)
    /\ WF_vars(ExitProcess)

FairSpec == Spec /\ Fairness

-----------------------------------------------------------------------------
(* Properties.                                                             *)

\* Every variable has the type that its comment gives it.
TypeOK ==
    /\ main \in Stages
    /\ stun_mgr \in {"unset", "manager", "None"}
    /\ signals \in 0..MaxSignals
    /\ pc \in [Threads -> PCs]
    /\ process \in Procs \cup {NoProc}
    /\ pid \in Procs \cup {NoProc}
    /\ watchdog_running \in BOOLEAN
    /\ conf_file \in BOOLEAN
    /\ stunnel \in [Procs -> States]
    /\ handle \in [Threads -> Procs \cup {NoProc}]
    /\ owned \subseteq Procs
    /\ exited \in BOOLEAN

\* Two stunnels never run side by side, of which one could not bind the port,
\* although starter, watchdog and signal handlers start and forget them.
AtMostOneRuns ==
    \A p, q \in Procs : stunnel[p] = "running" /\ stunnel[q] = "running" => p = q

\* The honeypot serves although a signal came: an error of its handler has been
\* caught, in the start-up or by serve_forever.
Swallowed == MainRuns /\ main = "serving" /\ signals > 0

\* One signal is enough for the stunnel that the manager knew of when it came,
\* also when it ignores SIGTERM and the watchdog ends it at the same time, and
\* also when the handler's exception is swallowed.
StopsWhatItKnew ==
    (exited \/ Swallowed) /\ signals = 1 => \A p \in owned : stunnel[p] = "dead"

\* While the honeypot serves, the watchdog brings stunnel back after a crash or
\* a start that failed.
ComesBack ==
    main = "serving" /\ watchdog_running /\ signals = 0
        ~> (\E p \in Procs : stunnel[p] = "running") \/ signals > 0

\* A signal that comes while the honeypot serves ends the process, whatever the
\* watchdog does to the same stunnel, and a second signal to the first handler.
\* Two things may prevent it: the second signal interrupts the final submission
\* of the first, or serve_forever swallows the error of a handler.
ServingEnds ==
    main = "serving" /\ (\E f \in Frames : pc[f] # "idle")
        ~> exited \/ Blocked \/ Swallowed
=============================================================================
