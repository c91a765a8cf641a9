# Verification of the DShield sensor

TLA+ models, TLC runs and TLAPS proofs for the programs of the DShield sensor that hold
state: the web honeypot with its agent (`srv/web/isc_agent/`), the firewall log parser
(`srv/dshield/`) and the old TCP honeypot (`bin/tcp-honeypot.py`). Paths below are relative to the repository's root.

The modules follow the code as it is. Where it does something else than its documents,
comments or messages say, a run of expectation *violation* shows the behaviour, and the
section on divergences describes those that need no run.

## 1. The system and its parts

A DShield sensor is a host whose firewall logs the packets it refuses and redirects some
ports to honeypots. Three programs of this repository run on it all the time or again and
again:

* **isc-agent**, a web honeypot: a threading TCP server that answers HTTP requests as
  rules from dshield.org say, and an *agent* in the same process that fetches the rules and
  submits a log record for each request. It runs under systemd, which sends SIGTERM to end
  it and SIGHUP to reload, and keeps a `stunnel` process for HTTPS beside it.
* **fwlogparser.py**, which cron starts twice an hour and logrotate before each rotation of
  the firewall's log, and which posts the new lines.
* **access_log_parser.py** and **tcp-honeypot.py**, older programs for the logs of Apache
  and for arbitrary TCP ports.

The rest is installation (shell), configuration and documentation.

| Part | State | Operations | Hard to test | What makes it correct |
|---|---|---|---|---|
| Submission pipeline (`agent.py:447-549, 627-759`) | `queue`, `queue_lock`, `submit_lock`, the executor's jobs, `scheduler_reschedule` | `add_to_queue` with its purge, `_submit`, `_send_to_backend`, `callback_result_handler`, `_scheduled_submissions`, `shutdown` | request threads, timer threads, two workers, signal handlers on the main thread; length read without the lock; a callback that runs inline; failures that put batches back | no record lost or doubled, only what was delivered counts as delivered, the last submission takes everything, the process ends |
| Delivery promise | status of each record | accept, deliver, acknowledge, drop | | the pipeline implements it |
| Scheduler (`agent.py:79-92, 531-570`, `__main__.py:313-324`) | `scheduler_timers`, the flag, the Timer threads | `start`, `_scheduler`, cancellation in `shutdown`, the retry loop | a retried start leaves a second chain of timers; entries overwritten; cancellation of a timer that has fired | no job drops out, a signal ends all timers |
| Rules (`agent.py:572-625`, `__main__.py:73-83, 154-177, 251-254`) | `RULES_SIGNATURES`, `RULES_RESPONSES`, `rules_lock` | `update_honeypot_rules` from a timer or SIGHUP, the two locked reads of a handler | overlapping updates, malformed rules, an update between two reads, a handler that unwinds the main thread | both parts of one version, the newest version wins |
| Stunnel supervision (`stunnel_manager.py`, `__main__.py:238-248, 364-411`) | `process`, `pid`, `_watchdog_running`, the configuration file, `stun_mgr` | `start`, `_start_stunnel`, `_watchdog`, `shutdown`, `__del__`, `shutdown_handler` | three threads share `self.process` without a lock; signals during start-up and during handlers | one stunnel at a time, it comes back, the known one is stopped, a signal ends the process |
| Firewall log parser (`fwlogparser.py`, `DShield.py:62-81`) | pid file, `lastfwlog`, `skipvalue`, the log | a run from the pid test to the removal of the pid file | runs overlap; a run is killed between two file operations; rotation; posts that fail | every line is seen, none is sent twice, a dead run does not block the next |
| Request handling and scoring (`__main__.py:123-215`, `core.py:53-137`) | locals of each handler | `handle_request`, `score_request`, the choice of a signature and a response | ties, minimum and maximum scores, patterns that do not compile, an empty list of responses, a length that is no number | the first signature of the highest score answers; every request is recorded |
| Response writing (`__main__.py:73-120`) | the shared dictionaries of headers | `responder` | responders of concurrent requests write to one dictionary and iterate over it, also across an update | nobody's iteration is disturbed, the length sent is the body's |
| Rule checker (`rule_checker.py`) | none | scores simulated requests against all signatures | it computes the winner in its own way, from a request made in its own way | it announces what the honeypot answers |
| Agent configuration, IP transformation (`agent.py:94-445`, `DShield.py:98-218`) | attributes | `read_config`, `translateip4`, `anonymizeip4` and the library's own versions of them | -1 and 0 as missing settings, IPv6, a replacement that is to be anonymised itself, two implementations that each ask for the sensor's address | no address of the honeypot's network is reported, no hidden bit shows, both programs report the same, as far as they were told the same |
| Access log parser (`access_log_parser.py`) | date file, pid file | as the firewall log parser, without a skip value | as there | as there |
| Old TCP honeypot (`tcp-honeypot.py:448-691`) | listening sockets, threads, connections | the select loop, `ConnectionThread.run`, `ProcessMatches` | the main loop starts threads without waiting for their accept; silent clients; exceptions without a close | pending connections are accepted, each open one has one thread, none stays open for ever |

How they interact: a request handler (one thread per connection) reads the rules under
`rules_lock`, answers, and calls `add_to_queue`. That call may start a pass of `_submit`
in the handler's own thread; the submission timer and `shutdown` start passes too. A pass
holds `submit_lock`, takes batches off the queue under `queue_lock` and gives them to the
executor; a worker posts the batch and runs `callback_result_handler`, which puts a failed
batch back. The signal handlers run in the main thread, between any two of its steps, also
inside another signal handler, and call `Agent.shutdown` and then `StunnelManager.shutdown`,
or `update_honeypot_rules`. The log parser shares nothing with the agent but the backend, and the TCP honeypot
nothing with either. The rule checker calls the honeypot's `score_request`.

## 2. Modules

| Module | Models | Lines of code behind it |
|---|---|---|
| `Agent` | the submission pipeline | `agent.py`, `__main__.py` signal handlers |
| `LogDelivery` | abstract specification: what the agent owes to a record | |
| `AgentDelivery` | the refinement mapping from `Agent`, liveness | |
| `AgentHistory` | `Agent` with two history variables | |
| `Scheduler` | start-up, timer chains, their end | `agent.py`, `__main__.py` |
| `Rules` | updates and readers of the rules | `agent.py`, `__main__.py` |
| `Stunnel` | the manager of stunnel, the end of start-up, the shutdown handler | `stunnel_manager.py`, `__main__.py` |
| `FwLogParser` | runs of the firewall log parser | `fwlogparser.py`, `DShield.py` |
| `FwLogHistory` | `FwLogParser` with history variables | |
| `IpTransform` | what is reported instead of an address | `agent.py`, `DShield.py` |
| `Scoring` | how rules judge a request, and whom the rule checker announces (operators only) | `core.py`, `rule_checker.py`, `__main__.py` |
| `Responder` | request handlers from the request to its record; extends `Scoring` | `__main__.py`, `core.py` |
| `TcpHoneypot` | the main loop, its threads and their connections | `tcp-honeypot.py` |
| `AgentProofs`, `SchedulerProofs`, `RulesProofs`, `StunnelProofs`, `FwLogProofs`, `IpTransformProofs`, `ResponderProofs`, `TcpHoneypotProofs` | theorems and proofs | |
| `MC...` | instances for TLC: symmetry sets, values of constants | |

`PROJECT.json` maps each definition to the lines it stands for. Definitions named
`Action_Something` are mutants: the action as a plausible mistake would have it. Nothing
uses them in the specifications; each property has one that violates it.

### Agent

Variables keep the code's names: `queue`, `queue_lock` and `submit_lock` (the holder or
nobody), `temp_list`, `batch`, `scheduler_reschedule`. Each thread has a program counter in
`pc`; `fut` is a small pool of futures with the stages that `concurrent.futures` gives
them. A step is a stretch of code no other thread can observe half done: `len(self.queue)`
outside the lock is a step (`ReadSize`, `RereadSize`), the purge is two (`PurgeCopy`
under the lock, `PurgeSwap`), one `popleft` is a step (`PopOne`). `Register` is
`add_done_callback`: it runs the callback inline if the future is done already
(`InlineCallback`), inside `submit_lock`. A post has three outcomes (`PostAccepted`,
`PostFailed` with or without the backend having received the batch). A signal starts
frame n of a stack of handlers (`Signal`); only the topmost frame steps (`Active`), and an
exception unwinds it (`Unwind`). Records that leave do so into `acked`, `purged` or
`discarded` (the batch lost when the executor refuses it).

### Scheduler

`timer` holds the Timer objects, `scheduler_timers` the entry of each job, `step` where
each thread is inside `_scheduler`. The code looks the entry up again to start the timer it
has just created; `Create` and `Start` are therefore two steps that may see two chains.
`FirstFetchFails` is the exception of the first task in `Agent.start`, after which the main
thread tries again and the timer of the failed attempt lives on. `ConfigFails` is
`sys.exit` in a retried start.

### Rules

A set of rules is its version. An updater sends the request, takes the response
(`GetResponse`), takes the lock and replaces the signatures (`Install`), then the responses
(`Swap`); a malformed version fails between the two (`SwapFails`). A reload runs in the
main thread on a stack of frames, and an exception unwinds that stack down to the
frame whose call is inside the `try` of `update_honeypot_rules`. A handler reads the
signatures and chooses an id (`ReadSignatures`), then looks the id up (`Respond`).

### Stunnel

Each access to `self.process` or `self.pid` is a step; one that finds `None` after another
thread has cleared it raises (`Fails`): in the watchdog this ends its thread after its
`finally`, in a signal handler it unwinds all frames (`Unwind`). Where the exception ends
depends on what the signal had interrupted: the `except Exception` of the start-up, if the
main thread is inside that `try`; `socketserver`'s own `except Exception` around
`process_request`, if `serve_forever` was handing a connection to a thread, after which it serves
on; otherwise the main thread's code. `AgentShutdown` is `isc_agent.shutdown()` as seen from
here: it returns, or raises (a second one that finds records and a closed executor), or, in a
handler that has interrupted another one's final submission, waits for ever for the
`submit_lock` that its own thread holds (`Blocked`). A process runs, has been
sent SIGTERM, or is dead; `Dies` covers crash and obedience and may never happen.
`Collect` is `__del__`, which runs when nothing refers to the manager any more.

### FwLogParser

A step is an access to a shared file, or the post. `pidfile` carries an inode, so that
`WritePid` can write to a file that another run has removed meanwhile. A log line is its time; lines
that `parse` gives no record for do not count in the code either and are left out.
`lastcount` and `skipvalue` hold numbers; `EmptyLast` is the truncation by `open(..., 'w')`.
`Crash` kills a run at any of the steps in `CrashPoints`; exceptions end it (`ReadFails`,
`PostFails`, the branches of `CheckLock` and `RemoveStale`). What a run posts and counts is
in the history variables of `FwLogHistory`.

### IpTransform

The agent and the library of the log parsers each have an `anontranslateip4`, and read the
same section of `dshield.ini`. A state has one set of settings, one record's address, how
far each program is with it (`Translate`, `Anonymize`), and in `my_ip` what each has been told of
the sensor's own address: the agent once, at its start, or 127.0.0.1 for a status that is not
200 (`agent.py:81, 221`); the library anew in each run of a parser that is set to `auto`
(`StartRun`), which ends if there is no answer (`RunFails`: `getmyip` returns the number -1,
at which `inet_pton` raises TypeError, `DShield.py:88, 123`). A 32-bit integer is the set of its
1-bits, so that `&` is intersection, the mask of length n is `1..n`, and `-1` is all bits
and the sign. What differs between the programs is kept: the agent takes `''` as a
replacement for its own address and tests settings for -1, the library tests them for 0
and converts back an address that it has not changed.

### Scoring and Responder

`Scoring` has no variables: `Holds` says for each condition and attribute whether a rule
scores, `Clamped` applies `min_score` and `max_score`, and `FirstBest` and `CheckerWinner`
are the checker's `max` and its test for 0. A text is the set of its words, so that
*contains* is inclusion and the words of a pattern are alternatives; `Unbalanced` is a word
that makes `re.search` raise. A rule's value is split into `name` and `text` as
`core.py:81` does; names are compared as they are written, hence `capital`.

Two programs make the requests that are scored. `RequestShim` is the handler's: it unquotes
the path (`Quoted` is a table of quoted words) and writes `_` in names of headers as `-`
(`Underscored`). `FakeRequest` is the checker's, for an item of its `Traffic`: it does neither, adds a
`Cookie` header, and as its default `headers={}` is one object, all items without headers
end up with the `Cookie` of the last of them. A cookie rule may therefore look at an empty
header in a request that has cookies, which is the only way to the branch of
`core.py:113`. `Simulates` says when an item stands for a client's request.

In `Responder` a handler goes through `handle_request` in the order of the code: one rule at
a step (`ScoreRule`), one signature at a step (`EndSignature`), the choice, and then each
access of `responder` to the shared dictionary at a step of its own. `headers` holds for each
dictionary which of the two keys `responder` has written, `content_length` whose body's
length is in it. A dictionary belongs to a *generation*, the responses of one update; a
handler keeps the one it has looked up although an update comes, and a generation is used
again when nobody refers to it. `reply` also says what went out, for the properties.
`End` is the end of the thread by any way: after the record (`AddToQueue`), or by one of the
exceptions that leave `handle_request`: a length that is no number or a reset by the client
while the body is read (`ReadBody`), a pattern (`ScoreRule`), an empty list
(`ChooseResponse`).

The state starts with dictionaries in which neither key is set. Rules that bring a key
themselves make the dictionary grow less often, which leaves fewer interleavings.

### TcpHoneypot

`readables` is the rest of `select`'s result that the main loop still has to go through; a
thread is started for each member (`StartThread`), or cannot be (`ThreadFails`). The thread
accepts *some* connection of its port, so that several threads may be started for one
connection and wait in `Accept`. `NextRead`, `Read`, `AnswerPart` and `AllAnswered` are the loop over
`THP_LOOP` and over the parts of `THP_SPLIT`; an action `disconnect` ends the inner one only.
`Close`, `TimesOut` and `Fails` are the ends of `run`; after an exception the sockets are
closed when their last reference goes, which for SSH the transport's own thread prevents
(`AfterException`). Which text answers is left out; that an answer may fail is not.

## 3. Runs

| Run | Checks | What it shows |
|---|---|---|
| `agent_safety` | `TypeOK`, `NothingLost`, `NothingDuplicated`, `AckedWasReceived`, `ExitDrained`, `ImplementsDelivery` | purges, passes, failed batches and a shutdown neither lose nor double a record, and the process does not end before the executor is drained |
| `agent_history` | `FinalSubmission`, `DiscardedHadItsChance`, `PipelineInv` | the final submission takes everything that came before the first signal, also when a second signal interrupts it; the proofs' invariant holds |
| `agent_liveness` | `HeldIsSettled`, `ShutdownCompletes` | an accepted record is settled in the end; one signal ends the process |
| `scheduler` | `AlwaysScheduled`, `KeepsRunning`, `ShutdownEndsTimers` | both jobs run again and again although a failed attempt left its timers; a signal ends all of them |
| `rules` | `TypeOK`, `RulesSwappedTogether`, `MissNeedsUpdate`, `EventuallyFresh`, `RequestsEnd` | readers see one version; a miss needs an update in between; the newest rules win |
| `stunnel` | `TypeOK`, `AtMostOneRuns`, `StopsWhatItKnew`, `ComesBack`, `ServingEnds` | no two stunnels run together; one signal stops the one that was known; a crashed one comes back; signals while serving end the process, unless a second one blocks in the agent's shutdown or the handler's error is swallowed |
| `fwlog_safety` | `TypeOK`, `NoneSkipped`, `SentOnce` | overlapping, failing and killed runs save no date beyond a line of the log that none has counted, but for the three kinds of lines named below; only an overlap or a torn date file sends lines twice |
| `fwlog_liveness` | `RunsGoOn` | a pid file that a killed or failed run has left is found out, again and again |
| `iptransform` | `HoneypotReplaced`, `HiddenBitsStayHidden`, `ProgramsAgree`, `UnsetLeavesAlone` | every combination of settings: the honeypot's network is replaced, hidden bits stay hidden, the two implementations agree unless `auto` gave them different addresses, and change nothing when nothing is set |
| `requests` | `ChosenIsFirstBest`, `CheckerAgrees`, `IteratesUndisturbed`, `LengthIsOfBody`, `RecordedUnlessBroken` | the first best signature answers and the rule checker names the same; handlers that share a dictionary do not disturb each other; a request whose body has been read is recorded, unless signatures are broken |
| `tcp` | `OpenIsServed`, `PendingIsAccepted`, `ConnectionsEnd` | surplus threads take no connection twice, what is pending is accepted unless threads have run out for good, a silent client does not hold its connection |
| `agent_second_signal` | `SecondSignalExits`, violated | a second signal during the final submission blocks for ever |

Every module states its `TypeOK`, and each is a theorem (section 4); the runs of `Agent`,
`Rules`, `Stunnel` and `FwLogParser` check it too.

### Bounds and why they suffice

* **agent_safety**: three records, trigger 1, limit 2, rate 2, batches of two, two handlers,
  a timer, two workers, one signal. A purge, a requeue and a pass can overlap pairwise, a batch can
  be full, partial or of two failed ones; two handlers can act on the same old length.
  Records, handlers, futures and workers are symmetric and no run with liveness uses
  symmetry. The configured ranges (trigger 10 to 1000, limit at least twice that) are
  scaled down with their relation kept; the proofs need only that relation.
* **agent_history**: two signals, hence two frames, and one worker; batches of one, so that
  the pass has several. It has a blocked state (the divergence below), so that deadlock is
  not checked; so has `agent_second_signal`.
* **agent_liveness**: one handler, one timer, two workers, batches of one.
* **scheduler**: four timers: two chains for one job, each with a timer that runs its task
  and one that waits. `MaxRetries` = 1 failed attempt makes the second chain.
* **rules**: versions 1 to 3 with version 2 malformed, one timer thread, one reload, one
  handler: two updates overlap, and a version changes between two reads. Each version
  drops the response the version before had introduced.
* **stunnel**: three processes: one that the manager has, one being started, one being
  waited for; ended ones are used again. Two signals.
* **fwlog**: two runs at a time, reused; `maxlines` = 1 makes every run with new lines a full
  one, so that the skip value takes effect and a run stops before the last line of the log. The
  safety run has two lines, two seconds, a window (the day that a run looks back) of 2
  and one crash: no line gets too old, so that none is exempt for its age, and both may be of
  different seconds, so that a run may count one and leave the other, while a second run with
  an older start date saves after it. The window cuts in the liveness run, and in the
  theorems for any bounds.
  `NoneSkipped` exempts what the code gives up by design: lines of a second of which another
  one was counted (`>` in `fwlogparser.py:54`), lines older than the window, and lines that
  are no longer in the log file, because a run stopped at `maxlines` and logrotate moved the rest away.
  The liveness run has one line and a window of 1, since it asks about the pid file alone;
  besides one crash, any number of runs fail and leave their pid file.
* **iptransform**: `Width` 2, that is four addresses and networks of length 0, 1 and 2; all
  settings, also networks with bits behind their length, unset ones, 0 and IPv6 texts; all
  records; loopback, an IPv4 and an IPv6 text as answers about the sensor's address, new ones
  in each run of the parser. The theorems hold for every width.
* **requests**: two handlers, since disturbance is between two; two generations, so that
  handlers may use different ones; two responses, one without headers, and one of them
  missing from one generation. Lists of up to two of nine signatures: ties, minimum
  above and maximum below the total, a maximum of 0 and one below it, a negative score, each
  condition, a pattern that does not compile, an empty list of responses (the odd ones,
  `MCOdd`, alone or after one other). The checker's traffic has five items: a plain one, one with
  an encoded path, one with `_` in a header's name, and two without headers, the first with
  cookies. Six requests: one for each item, and one without cookies whose length is no number.
  Leaving any premise of `CheckerAgrees` out violates it here. Handlers are symmetric; the run
  has no liveness property.
* **tcp**: an SSL and an SSH port, each of which may also have fallen back to TCP or be
  taken; three threads and two connections, so that a surplus thread can wait beside two that serve, or
  two surplus threads beside none; reads of up to two parts, two reads on one port. The
  program may stand still in `select`, so that deadlock is not checked.

### Fairness and why the code justifies it

Threads of the operating system that can go on do go on: weak fairness on each thread's
steps. This takes network calls to end, although three of them have no timeout: the
`HTTPSConnection` of the agent's update of the rules (`agent.py:582`), and the library's
`requests.post` and `requests.get` (`DShield.py:68, 85`). A connection that hangs stops the task's thread,
or the main thread in a reload, or keeps the parser's pid file, for as long as it hangs, and the
liveness properties say nothing of it. (The agent's posts and its `getmyip` do have timeouts.)
Beyond that:

* *Agent*: strong fairness on `PostAccepted`: the backend does not refuse for ever.
  `HeldIsSettled` is about the sensor, not about an outage. `ShutdownCompletes` needs it too, since a
  pass goes on until the queue is empty. The timer keeps firing (that is `Scheduler`'s
  `KeepsRunning`). Requests and signals get no fairness.
* *Scheduler*: strong fairness on the timers' steps, because `Create` waits in the model for
  a free name in the bounded set `Timers`; in the program it never waits. Whether the
  agent ever starts and whether a signal comes is open.
* *Rules*: strong fairness on requests that succeed, and on getting `rules_lock`: CPython's
  locks do not starve a waiter for ever while the critical section is a few bytecodes.
* *Stunnel*: strong fairness on `Popen` succeeding in the watchdog. Nothing is assumed of
  stunnel itself. The watchdog sleeps 600 seconds before its first check, and start-up
  needs two: `WatchdogWakes` waits for the starter.
* *FwLogParser*: cron starts runs again and again, and pids vary: a run's pid is not the one in
  a stale pid file (`Start`). A pid that is reused by a long-lived program while the stale
  file is there keeps all runs from their work as long as that program lives; this is excluded. The log can be read and the backend answers now and then.
* *TcpHoneypot*: weak fairness on the main loop and on each thread's steps, of `Accept` only
  while a connection is pending: a thread that others deprive of each connection may wait
  for ever. A client need not send (`Read` has no fairness): the timeout is what goes on, and
  SSH sessions, read through a channel without a timeout, are exempt from
  `ConnectionsEnd`. `PendingIsAccepted` names the one way in which it may fail, `Starved`. A send is
  taken to end: an SSH channel whose client leaves its window at zero would block one more
  thread than `Starved` counts.

## 4. Theorems

All for every value of the constants that satisfies the named assumptions.

| Theorem | Statement |
|---|---|
| `AgentProofs!PipelineInvariant`, `TypeCorrectness` | `Spec => []PipelineInv`, `TypeOK` |
| `AgentProofs!NoLoss`, `NoDuplicates`, `AcksAreHonest`, `ExitIsDrained` | `NothingLost`, `NothingDuplicated`, `AckedWasReceived`, `ExitDrained` |
| `AgentProofs!HistoryInvariant` | `HistorySpec => []HistoryInv` |
| `AgentProofs!LastAttempt`, `NoChanceWasted` | `FinalSubmission`, `DiscardedHadItsChance`, of `HistorySpec` |
| `AgentProofs!Refinement` | `Spec => ImplementsDelivery` |
| `SchedulerProofs!SchedulerTypes`, `NeverDropped` | `TypeOK`, `AlwaysScheduled` |
| `RulesProofs!RulesInvariant`, `RulesTypes` | `Spec => []RulesInv`, `TypeOK`, for any number of reloads |
| `RulesProofs!OnlyReloadsInterrupt` | action property: `RulesSwappedTogether` is only lost by `Interrupted` |
| `RulesProofs!SwappedTogether`, `MissesAreUpdates` | `RulesSwappedTogether` until a second SIGHUP, `MissNeedsUpdate` for `MaxReloads <= 1` |
| `StunnelProofs!StunnelInvariant`, `StunnelTypes` | `Spec => []StInv`, `TypeOK` |
| `StunnelProofs!OneStunnelRuns`, `KnownIsStopped` | `AtMostOneRuns`, `StopsWhatItKnew`, for any number of signals and processes |
| `FwLogProofs!ParserTypes` | `Spec => []TypeOK` |
| `FwLogProofs!SkipsNone`, `SendsOnce` | `NoneSkipped`, `SentOnce`, of `HistorySpec`, for any number of runs that overlap and are killed |
| `IpTransformProofs!TransformTypes`, `HoneypotIsReplaced`, `BitsAreHidden`, `ImplementationsAgree`, `UnsetAddressesStay` | `TypeOK` and the four properties of the run `iptransform`, for any width |
| `ResponderProofs!ResponderInvariant`, `ResponderTypes` | `Spec => []ResponderInv`, `TypeOK` |
| `ResponderProofs!UndisturbedIteration`, `LengthsAreHonest`, `EveryRequestRecorded` | `IteratesUndisturbed`, `LengthIsOfBody`, `RecordedUnlessBroken` |
| `ResponderProofs!ProgressInvariant` | `Progress(h)` of each handler: what the loops have found so far |
| `ResponderProofs!FirstBestAnswers`, `CheckerIsRight` | `ChosenIsFirstBest`, `CheckerAgrees`, for any lists of signatures and rules |
| `TcpHoneypotProofs!TcpInvariant`, `TcpTypes`, `ConnectionsAreServed` | `Spec => []TcpInv`, `TypeOK`, `OpenIsServed` |

So each safety and action property of a run is a theorem.

**Agent.** `NothingLost` and `NothingDuplicated` say that a record that has arrived is in
exactly one of the queue, a popped batch, a future, or one of the final sets. They are not
inductive: a purge replaces the queue by part of a copy, which is right only if nobody
changed the queue since (`LockedQueue`, which rests on `LocksHeld`); a callback puts a
batch back, which is right only if the future is handled once (`FuturesHeld`, `PoolHeld`);
a pass drops a batch only while it has it (`BatchesHeld`, `MineHeld`). `PipelineInv` is the
conjunction, in the layers `Shape` (types and locks), `Holding` (who has which batch and
which future) and `Conserved` (every record in one place); a step preserves each layer
given the layers before it. `FramesWait` covers the nested signal handlers. The
assumptions are `ThreadsAssumption` (the sets of threads are disjoint) and
`SizesAssumption` (what `read_config` enforces). `Refinement` maps each step to a step of
`LogDelivery` or a stutter, from the same invariant. `EveryNthLemma` is about
`temp_list[::rate]`. `ExitDrained` needs two more facts: where a future is while a thread
or worker has it (`FuturesPlaced`), and that nobody goes on once the process has exited
(`ExitedIdle`). The history's properties are about what was attempted before the end, so
that `HistoryInv` says it of all records in flight and all settled ones, and of those
that were there at the first signal once the final submission is over.

**Scheduler.** The entry of a job in `scheduler_timers` leads to a timer that still carries
the job, or that some call of `_scheduler` is about to start (`EntriesCarry`,
`CreatedIsStarted`); a timer gives its entry up only by creating its successor. Two
chains of one job overwrite each other's entry, and the argument still goes through,
because a call that finds the entry's timer started already may end: the job has a carrier.

**Rules.** `rules_lock` is held exactly between the two assignments (`LockHeld`), and then
the signatures are the version being installed (`HalfInstalled`); the stack of reloads has
no gaps, and only its topmost frame runs (`StackGrows`); a handler's id is from the
signatures that it has read (`ChosenFromRead`). This holds for any number of SIGHUPs. That
signatures and responses belong together does not: a reload that runs on top of one
between the two assignments, and whose response raises, unwinds that one too, and its
`with` gives the lock back over a half installed version. `OnlyReloadsInterrupt` says that this
is the only way, so that `SwappedTogether` holds until the second SIGHUP.

**FwLogParser.** `RunEffect` and `OutsideEffect` sum up what the fourteen actions do to places,
dates and lines, and the rest of the proofs is about these. `NoneSkipped` says that all
lines up to the saved date are covered. It is not inductive, because the saved date may
be any run's that started before others saved: the dates in *all* runs' variables have
to cover what is before them, and must not be ahead of the log, or lines that come later
would be passed over (`Reached`, which is `Covered` and `Dated`). That the last of the
counted lines is such a date is the loop's doing: with a line it counts all new ones before it,
also when it stops at `maxlines` (`CountedLemma`), and the log is in the order of its times
(`LogOrdered`). `SentOnce` needs the order of the dates instead (`SentInv`): what the backend has
is not after the saved date, that is not after the start date of a run that has the pid file
for itself, and what this run counts is after it. `AtMostOne` turns the count of runs inside
into their being one (`Alone`). The assumption beyond the bounds is that there are
finitely many pids.

**IpTransform.** `TransformInv` says that `reported` is what the steps taken so far make of
`ip` under the settings, which do not change; every property then is one of a pair of
functions. `NetworkLemma` turns the comparison of masked integers into what an
administrator means by a network, for networks written with zeros behind their length
(`Canonical`), and `ConversionLemma` says when conversions undo each other. The premises
about 0 (`Taken`) are the cases in which the library takes a setting as missing.
`ImplementationsAgree` takes the two answers about the sensor's address as they come: with
`auto` and different answers it says that an address outside the honeypot's network (`Covers`) is
still reported alike, since the answer enters in no other place.

**Responder.** That a handler iterates undisturbed is a statement about what *all* others may
write. `ResponderInv` says of each handler which dictionary it uses (`OwnOrShared`), that it
has written what it says it has (`Written`) and what went out so far (`Sent`), and of the
shared dictionaries that a `Content-Length` in them is that of their response's body
(`SharedLength`). The lemma `Undisturbed` is the heart: whatever another handler does only
adds keys, and one that iterates has both keys in already, so that nothing is added any
more; and the length that it puts back is the one that is there. An update takes a
generation that nobody uses (`Updating`). The assumptions are `ResponderAssumption`
(dictionaries of different owners are different) and `SignatureAssumption` (the lists are
finite sequences of well-formed signatures), and for the rule checker `TrafficAssumption`
(the traffic is a finite sequence of items). `EveryRequestRecorded` is an action property:
`EndsRecorded` goes through the steps that can end a thread. It is about requests whose body has
been read; how a thread may end before that is listed under the divergences.

Which signature answers is an induction over two loops. `Total` defines the sum of the rules as a
recursive function; `SumExists` proves that there is one, `SumsLemma` what it returns.
`Progress` says that the handler's total is that sum up to its rule, and that its best
signature is the first best of those before its signature (`IsBest`, kept by
`NextBest`). Since `score > best_score` starts at -1, there is a best signature unless all
scores are below 0, which is what `CheckerAgrees` has to exclude. `SameRequest` shows that the
two requests that `RequestShim` and `FakeRequest` make have the same path, method and headers if the
item simulates what was sent; their cookies differ still, but the rules are worth the
same (`SameGain`), hence so are their sums (`SameTotal`). Inductions over
numbers (`Induction`, `MaxLemma`) are arguments about a least number, from `WFMin` and
`NatLessThanWellFounded` of the library.

**TcpHoneypot.** `TcpInv` adds to `OpenIsServed` what `accept` needs: a thread that waits for
a connection serves none yet (`IdleServesNone`), and has the socket of a port from its
start (`StartedForPort`).

**Stunnel.** `AtMostOneRuns` is about starting: it needs that whoever calls `Popen` finds
nothing running, unless the configuration is gone and what it starts ends at once
(`RunningIsKnown`). That rests on the order of the start-up, since the watchdog checks
nothing before the starter is done (`Order`), and on `process` and `pid` being set and
cleared together but for one step (`Saved`). `StopsWhatItKnew` needs a statement about
every step of the one handler beside every step of the watchdog: the process that was
known is dead, or still the saved one and the handler still before its `kill`
(`OwnedIsStopped`); the case of the first signal itself needs what holds before any
(`BeforeSignals`). `UnwindKeeps` covers the exceptions that leave all nested handlers. The
only assumption is `StunnelAssumption` (the threads are different, and None is no process).

**Only model-checked**: the liveness properties `HeldIsSettled`, `ShutdownCompletes`,
`KeepsRunning`, `ShutdownEndsTimers`, `EventuallyFresh`, `RequestsEnd`, `ComesBack`,
`ServingEnds`, `RunsGoOn`, `PendingIsAccepted` and `ConnectionsEnd`, since fairness and ENABLED are out of the
prover's reach.

## 5. Divergences

With a run, `agent_second_signal`: shutdown "Allows interruption via Ctrl+C"
(`agent.py:522`), but the nested handler calls `_submit` again and waits for the
`submit_lock` that its own thread holds.

Met while modelling, without a run:

* `agent.py:497`: the length is read without `queue_lock`, so that two handlers may purge
  one after the other, the second time a queue below `web_log_limit`.
* `agent.py:504`: `temp_list[::rate]` keeps one record in `rate`; the documents say that one in
  `rate` is dropped.
* `agent.py:757`: requeued batches are not held to the limit.
* `agent.py:131`: `sys.exit` in a *retried* start ends the main thread, while the timer
  chain of the attempt before keeps the process alive without a server (`ConfigFails`).
* `agent.py:595`: `update_honeypot_rules` returns "None if the request fails" (`agent.py:577`),
  but `getresponse` and `json.loads` are outside its `try`; in a reload the exception
  leaves `serve_forever` (`ResponseFails` in `Rules`).
* `agent.py:611`: a SIGHUP inside `rules_lock` in a reload deadlocks the main thread. If
  fetching the rules raises in the reload that the SIGHUP starts, the exception ends both, and
  the new signatures stay with the old responses (`Interrupted` in `RulesProofs`).
* `agent.py:613`: rules with a response without an id leave new signatures with old
  responses.
* `__main__.py:80`: an id that is not in the responses raises at `dict(None)` before
  the test for it that logs and answers "Not Found".
* `__main__.py:244`: between `signal.signal` and the assignment of `stun_mgr`,
  `shutdown_handler` raises NameError after it has shut the agent down. Inside the `try`
  of `__main__.py:399` the exception is swallowed, and the honeypot serves on with an
  agent that submits no more ("Capture systemctl signals ... to do a clean shutdown",
  `__main__.py:364`). `Stunnel` has this behaviour (`TestManager`, `Unwind`).
* `stunnel_manager.py:272`: the watchdog may clear `self.process` while `shutdown_handler` stops
  stunnel; the AttributeError then leaves the handler before its `sys.exit`. If the signal came
  while the main thread was inside `process_request`, `socketserver` catches the exception and
  `serve_forever` goes on, again with a closed executor (`Swallowed`). The same
  happens to the RuntimeError of a second signal's `shutdown`.
* `DShield.py:109`: "only run if all the variables we need are set", but `long2ip4` runs in any
  case, and -1, the number of an address that is no IPv4 address, becomes 127.0.0.1: every
  IPv6 address is reported so. `UnsetLeavesAlone` is about IPv4 addresses for this reason.
* `__main__.py:147`: a `Content-Length` that is no number ends the handler without an
  answer or a record; one that is longer than the body blocks it, since the socket has no
  timeout. A client that resets the connection while its body is read is not recorded
  either: only UnicodeDecodeError is caught there (`:149`), and ConnectionResetError, which
  `:38` drops, comes before the record.
* `__main__.py:166`, `core.py:106`: an empty list of responses in the best signature, or a
  pattern that cannot be compiled anywhere before the end of the list, do the same, to
  every request that gets so far (`Broken`).
* `core.py:84`: a rule's header name is compared with names in lower case, but is not put
  in lower case: one with a capital never matches. `core.py:124`: for *absent*, a value
  `name:pattern` is no name, so that it always scores; so does *absent* for cookies, because the
  handler's cookies are always empty (`__main__.py:142`).
* `core.py:109`: "the header listed in "value" just needs to exist" is never reached, since
  without a colon the text compared is that of all headers. "Same with cookies" (`:112`) is not
  reached by the honeypot, whose requests have no cookies, and by the checker only for an
  item that shares the headers of one without cookies.
* `RULES.md:153` calls a total of at least `min_score` a match. A total of 0 is none, also with
  a `min_score` of 0 or less: the honeypot needs a score above 0 (`__main__.py:165`), and so does the checker
  (`rule_checker.py:157`).
* `rule_checker.py:57`: the simulated request's path is not unquoted and its headers are not
  renamed, as the honeypot does (`__main__.py:128, 139`): `/%2e%2e/...` of
  `simulated_traffic_config.json:215` is scored as it is written. `rule_checker.py:61`: a
  simulated request always has a `Cookie` header, and those whose headers are left out share
  one default dictionary (`:45`), with the last one's cookies; no item of the
  repository's traffic leaves them out. `rule_checker.py:157`: a highest score below 0
  is announced as a match, while the honeypot answers with the default.
  `CheckerAgrees` excludes these cases (`Simulates`, `Comparable`); the ids of signatures, by which the
  checker keeps its scores, are taken to be different. `rule_checker.py:162` compares scores
  with a count of matches, so that its warning about ambiguous rules is not about them.
* `tcp-honeypot.py:689`: a thread is started for the same connection again and again until
  one of them has accepted it; those that come too late wait in `accept` for the next. Where threads are
  limited, they may leave none for other ports (`Starved`).
* `tcp-honeypot.py:588`: "disconnecting" leaves the loop over the parts of one read; with `THP_LOOP`
  the connection is read again.
* `tcp-honeypot.py:504`: an SSH session is read without a timeout, and after its exceptions the
  transport stays open. `tcp-honeypot.py:519`: the end of the client's data does not end the loop.
* `access_log_parser.py:45`: the first line of the log is read and never parsed. Lines of the
  second of the last one are never sent, as in the firewall log parser (`:52`), also those
  behind a break at `maxlines` (`:73`). A run without new lines leaves its pid file (`:83`),
  which the next one finds stale.
* `stunnel_manager.py:271`: a stunnel that was started but not yet stored, or started by
  the watchdog after the flag was cleared, outlives the honeypot. `stunnel_manager.py:188`:
  one that was sent SIGTERM counts as ended: if it holds its port a while longer, a new one
  that cannot bind is outside `AtMostOneRuns`.
* `DShield.py:88`: without the sensor's address the library's `getmyip` returns -1, at which
  `inet_pton` raises TypeError, which `ip42long` does not catch: with `replacehoneypotip=auto` a run
  of a parser ends before it has read the log. The agent takes 127.0.0.1 (`agent.py:221`) until it
  is started again, and never asks again if the sensor's address changes; the two programs may then
  report different addresses for the same packet.
* `agent.py:382`, `DShield.py:103`: a network with bits behind its length (10.0.0.5/24)
  matches no address, not even its own. `DShield.py:102`: 0 counts as a missing setting, so that
  a network of length 0 is never translated by the log parsers.
* `fwlogparser.py:151`: "PID file found. Am I already running?" (`fwlogparser.py:98`), but the
  test and the creation of the file are two steps, and removing a stale file may remove a
  new one; two runs then read and post at the same time.
* `fwlogparser.py:155`: a run killed between creating and writing the pid file leaves an
  empty file, at which `int('')` raises in every later run. The constant `CrashPoints` of
  the liveness run leaves this point out.
* `DShield.py:69`: a status other than 200 is only logged, while the date has
  been saved already: the lines are lost.

## 6. What is not modelled

Health statistics (`_health`) only feed log messages. The fields of a log line, HTTP
headers, file formats and the contents of rules are abstracted to what the properties tell
apart; so are the customisation of responses (`apply_customizations`) and the texts and
matches with which the TCP honeypot answers. `Responder` scores one list of signatures per
state: an update in the middle of a request is `Rules`' subject. Of the rule checker, the
warnings about the form of rules are left out: they change nothing.

`access_log_parser.py` is not modelled: it is a script for one developer's machine that no
cron job, unit or installer starts, and its order of pid file, date file and post is what
`FwLogParser` models. `ncat_manager.py` is imported by nothing. Installation scripts, service units,
firewall rule sets, Terraform files and the third-party Cowrie carry no logic of their own
beyond I/O.

## 7. Plan

1. *Done:* `Agent`, `LogDelivery`, `AgentDelivery`, `AgentHistory` and their proofs;
   `Scheduler`, `Rules`, `IpTransform`, `Responder`, `TcpHoneypot` and their proofs;
   `Scoring`; `Stunnel` and its proofs; `FwLogParser`.
2. A composition of `Scheduler` and `Rules`: the hydrate timer that really fires, and of
   `Stunnel` and the end of `Agent`.
3. Proofs: abstract specifications of the rules (a register of versions) and of the log parser
   (a set of lines, each sent once) that their modules implement.
