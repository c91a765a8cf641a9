---------------------------- MODULE AgentProofs ----------------------------
(***************************************************************************)
(* Proofs about the submission pipeline of Agent, for every value of its   *)
(* constants.  The inductive invariant PipelineInv is built in layers:     *)
(*   Shape       types, who holds which lock, and what a lock protects;    *)
(*   Holding     whose batch and whose future is whose, and what the       *)
(*               backend has;                                              *)
(*   Conserved   every record is in exactly one place.                     *)
(* Each layer is preserved by a step given the layers before it.  That     *)
(* Agent implements LogDelivery follows from the invariant.                *)
(***************************************************************************)
EXTENDS AgentHistory, SequenceTheorems, TLAPS

-----------------------------------------------------------------------------
(* What the deque operations of agent.py do to the set of the elements and *)
(* to the absence of repetitions, for every sequence.                      *)

\* The empty sequence has no elements.
LEMMA EmptyRange == Range(<<>>) = {} /\ IsInjective(<<>>)
  BY DEF Range, IsInjective

\* Appending adds one element and repeats none if it is new.
LEMMA AppendLemma ==
    ASSUME NEW S, NEW s \in Seq(S), NEW e \in S
    PROVE  /\ Append(s, e) \in Seq(S)
           /\ Range(Append(s, e)) = Range(s) \cup {e}
           /\ IsInjective(s) /\ e \notin Range(s) => IsInjective(Append(s, e))
<1> DEFINE a == Append(s, e)
<1>1. /\ a \in Seq(S)
      /\ Len(a) = Len(s) + 1
      /\ \A i \in 1..Len(s) : a[i] = s[i]
      /\ a[Len(s) + 1] = e
  BY AppendProperties
<1>2. /\ Len(s) \in Nat
      /\ DOMAIN s = 1..Len(s)
      /\ DOMAIN a = 1..(Len(s) + 1)
  BY <1>1, LenProperties
<1>3. \A i \in DOMAIN a : i \in DOMAIN s \/ i = Len(s) + 1
  BY <1>2
<1>4. Len(s) + 1 \in DOMAIN a /\ DOMAIN s \subseteq DOMAIN a
  BY <1>2
<1> HIDE DEF a
<1>5. Range(a) = Range(s) \cup {e}
  BY <1>1, <1>2, <1>3, <1>4 DEF Range
<1>6. ASSUME IsInjective(s), e \notin Range(s)
      PROVE  IsInjective(a)
  BY <1>1, <1>2, <1>3, <1>6 DEF Range, IsInjective
<1> QED BY <1>1, <1>5, <1>6 DEF a

\* Taking the head off leaves the other elements, and only those if the
\* sequence repeats none.
LEMMA HeadTailLemma ==
    ASSUME NEW S, NEW s \in Seq(S), s # <<>>
    PROVE  /\ Head(s) \in S
           /\ Tail(s) \in Seq(S)
           /\ Range(s) = Range(Tail(s)) \cup {Head(s)}
           /\ IsInjective(s) => IsInjective(Tail(s)) /\ Head(s) \notin Range(Tail(s))
<1> DEFINE t == Tail(s)
<1>1. /\ t \in Seq(S)
      /\ Len(t) = Len(s) - 1
      /\ \A i \in 1..Len(t) : t[i] = s[i + 1]
      /\ Head(s) \in S
      /\ Len(s) \in Nat \ {0}
  BY HeadTailProperties, EmptySeq
<1>2. /\ DOMAIN s = 1..Len(s)
      /\ DOMAIN t = 1..(Len(s) - 1)
      /\ Head(s) = s[1]
  BY <1>1, LenProperties
<1> HIDE DEF t
<1>3. \A i \in DOMAIN s : i = 1 \/ (i - 1 \in DOMAIN t /\ t[i - 1] = s[i])
  BY <1>1, <1>2
<1>4. \A i \in DOMAIN t : i + 1 \in DOMAIN s /\ t[i] = s[i + 1] /\ i + 1 # 1
  BY <1>1, <1>2
<1>5. 1 \in DOMAIN s
  BY <1>1, <1>2
<1>6. Range(s) = Range(t) \cup {Head(s)}
  <2>1. \A x \in Range(s) : x \in Range(t) \cup {Head(s)}
    BY <1>2, <1>3 DEF Range
  <2>2. Range(t) \subseteq Range(s) /\ Head(s) \in Range(s)
    BY <1>2, <1>4, <1>5 DEF Range
  <2> QED BY <2>1, <2>2
<1>7. ASSUME IsInjective(s)
      PROVE  IsInjective(t) /\ Head(s) \notin Range(t)
  <2>1. \A i, j \in DOMAIN t : t[i] = t[j] => i + 1 = j + 1
    BY <1>4, <1>7 DEF IsInjective
  <2>2. \A i \in DOMAIN t : t[i] # s[1]
    BY <1>4, <1>5, <1>7 DEF IsInjective
  <2>3. \A i, j \in DOMAIN t : i + 1 = j + 1 => i = j
    BY <1>2, <1>1
  <2> QED BY <1>2, <2>1, <2>2, <2>3 DEF IsInjective, Range
<1> QED BY <1>1, <1>6, <1>7 DEF t

\* Two sequences with no element in common and no repetitions make one
\* without repetitions.
LEMMA ConcatLemma ==
    ASSUME NEW S, NEW s \in Seq(S), NEW t \in Seq(S)
    PROVE  /\ s \o t \in Seq(S)
           /\ Range(s \o t) = Range(s) \cup Range(t)
           /\ (IsInjective(s) /\ IsInjective(t) /\ Range(s) \cap Range(t) = {})
                 => IsInjective(s \o t)
<1> DEFINE c == s \o t
<1>1. /\ c \in Seq(S)
      /\ Len(c) = Len(s) + Len(t)
      /\ \A i \in 1..(Len(s) + Len(t)) :
            c[i] = IF i <= Len(s) THEN s[i] ELSE t[i - Len(s)]
  BY ConcatProperties
<1>2. /\ Len(s) \in Nat /\ Len(t) \in Nat
      /\ DOMAIN s = 1..Len(s) /\ DOMAIN t = 1..Len(t)
      /\ DOMAIN c = 1..(Len(s) + Len(t))
  BY <1>1, LenProperties
<1> HIDE DEF c
<1>3. ASSUME IsInjective(s), IsInjective(t), Range(s) \cap Range(t) = {}
      PROVE  IsInjective(c)
  <2> SUFFICES ASSUME NEW i \in DOMAIN c, NEW j \in DOMAIN c, c[i] = c[j]
               PROVE  i = j
    BY DEF IsInjective
  <2>1. CASE i <= Len(s) /\ j <= Len(s)
    BY <1>1, <1>2, <1>3, <2>1 DEF IsInjective
  <2>2. CASE i > Len(s) /\ j > Len(s)
    <3>1. i - Len(s) \in DOMAIN t /\ j - Len(s) \in DOMAIN t
      BY <1>2, <2>2
    <3>2. t[i - Len(s)] = t[j - Len(s)]
      BY <1>1, <1>2, <2>2
    <3>3. i - Len(s) = j - Len(s)
      BY <1>3, <3>1, <3>2 DEF IsInjective
    <3> QED BY <1>2, <3>3
  <2>3. ASSUME NEW m \in DOMAIN c, NEW n \in DOMAIN c,
               m <= Len(s), n > Len(s), c[m] = c[n]
        PROVE  FALSE
    <3>1. c[m] \in Range(s)
      BY <1>1, <1>2, <2>3 DEF Range
    <3>2. n - Len(s) \in DOMAIN t /\ c[n] = t[n - Len(s)]
      BY <1>1, <1>2, <2>3
    <3>3. c[n] \in Range(t)
      BY <3>2 DEF Range
    <3> QED BY <1>3, <2>3, <3>1, <3>3
  <2> QED BY <1>2, <2>1, <2>2, <2>3
<1> QED BY <1>1, <1>3, RangeConcatenation DEF c

-----------------------------------------------------------------------------
(* The layers.                                                             *)

USE DEF places, locks, pool, life, At, Goto

\* Types and locks.
Shape == TypeOK /\ LocksHeld /\ FramesWait /\ LockedQueue /\ MineHeld

\* What temp_list[::rate] keeps: elements of the list, each once if the list
\* has each once.
LEMMA EveryNthLemma ==
    ASSUME NEW S, NEW s \in Seq(S), NEW n \in Nat \ {0}
    PROVE  /\ EveryNth(s, n) \in Seq(S)
           /\ Range(EveryNth(s, n)) \subseteq Range(s)
           /\ IsInjective(s) => IsInjective(EveryNth(s, n))
<1> DEFINE q == (Len(s) + n - 1) \div n
<1>1. q \in Nat /\ q * n <= Len(s) + n - 1
  OBVIOUS
<1>2. ASSUME NEW i \in 1..q
      PROVE  (i - 1) * n + 1 \in 1..Len(s)
  <2>1. i * n <= q * n
    BY <1>1
  <2>2. (i - 1) * n >= 0 /\ (i - 1) * n = i * n - n
    OBVIOUS
  <2> QED  BY <1>1, <2>1, <2>2
<1> DEFINE e == [i \in 1..q |-> s[(i - 1) * n + 1]]
<1>3. e \in [1..q -> S]
  BY <1>1, <1>2, ElementOfSeq
<1>4. e \in Seq(S)
  <2>1. \E m \in Nat : e \in [1..m -> S]
    BY <1>1, <1>3
  <2> HIDE DEF e
  <2> QED BY <2>1, SeqDef
<1>5. Range(e) \subseteq Range(s)
  <2> SUFFICES ASSUME NEW i \in 1..q PROVE s[(i - 1) * n + 1] \in Range(s)
    BY DEF Range
  <2>1. DOMAIN s = 1..Len(s)
    BY LenProperties
  <2> QED BY <1>2, <2>1 DEF Range
<1>6. ASSUME IsInjective(s) PROVE IsInjective(e)
  <2> SUFFICES ASSUME NEW i \in 1..q, NEW j \in 1..q,
                      s[(i - 1) * n + 1] = s[(j - 1) * n + 1]
               PROVE  i = j
    BY DEF IsInjective
  <2>1. DOMAIN s = 1..Len(s)
    BY LenProperties
  <2>2. (i - 1) * n + 1 = (j - 1) * n + 1
    BY <1>2, <1>6, <2>1 DEF IsInjective
  <2>3. i \in Nat /\ j \in Nat
    BY <1>1
  <2> HIDE DEF q
  <2>4. i - 1 = j - 1
    BY <2>2, <2>3
  <2> QED BY <2>3, <2>4
<1> QED BY <1>4, <1>5, <1>6 DEF EveryNth

\* A future that is not in use has the type of a future.
LEMMA FreeFutureType == FreeFuture \in FutureType
  BY EmptySeq DEF FreeFuture, FutureType, Stages

\* The initial state is well shaped.
LEMMA ShapeInit ==
    ASSUME Init PROVE Shape
<1> USE ThreadsAssumption DEF Init
<1>1. TypeOK
  <2>1. <<>> \in Seq(Records) /\ <<>> \in Seq(Futures)
    BY EmptySeq
  <2>2. FreeFuture \in FutureType
    BY FreeFutureType
  <2>3. /\ fresh \subseteq Records /\ received \subseteq Records
        /\ acked \subseteq Records /\ purged \subseteq Records
        /\ discarded \subseteq Records
    OBVIOUS
  <2>4. /\ queue \in Seq(Records)
        /\ temp_list \in [Handlers -> Seq(Records)]
        /\ batch \in [Threads -> Seq(Records)]
        /\ work_queue \in Seq(Futures)
    BY <2>1
  <2>5. /\ fut \in [Futures -> FutureType]
        /\ mine \in [Threads -> Futures \cup {NoOne}]
        /\ job \in [Workers -> Futures \cup {NoOne}]
    BY <2>2
  <2>6. pc \in [Threads -> PCs]
    BY DEF PCs
  <2>7. signals \in 0..MaxSignals
    OBVIOUS
  <2>8. /\ scheduler_reschedule \in BOOLEAN /\ open \in BOOLEAN
        /\ exited \in BOOLEAN
    OBVIOUS
  <2>9. /\ queue_lock \in Threads \cup {NoOne}
        /\ submit_lock \in Threads \cup {NoOne}
    OBVIOUS
  <2> QED BY <2>3, <2>4, <2>5, <2>6, <2>7, <2>8, <2>9 DEF TypeOK
<1>2. LocksHeld
  BY DEF LocksHeld, Submitting
<1>3. FramesWait
  BY DEF FramesWait, Threads
<1>4. LockedQueue
  BY DEF LockedQueue, Threads
<1>5. MineHeld
  BY DEF MineHeld
<1> QED
  BY <1>1, <1>2, <1>3, <1>4, <1>5 DEF Shape

\* No step leaves a critical section without its lock, or a lock with a thread
\* that is outside.  One step per action of Next.
LEMMA LocksStep ==
    ASSUME Shape, [Next]_vars PROVE LocksHeld'
<1> USE ThreadsAssumption DEF TypeOK, LocksHeld, FramesWait, Submitting, Threads, Frames, Shape

<1>1. ASSUME NEW h \in Handlers, NEW r \in Records, AddToQueue(h, r) PROVE LocksHeld'
  BY <1>1 DEF AddToQueue

<1>2. ASSUME NEW h \in Handlers, ReadSize(h) PROVE LocksHeld'
  BY <1>2 DEF ReadSize, TriggerBranch

<1>3. ASSUME NEW h \in Handlers, PurgeCopy(h) PROVE LocksHeld'
  BY <1>3 DEF PurgeCopy

<1>4. ASSUME NEW h \in Handlers, PurgeSwap(h) PROVE LocksHeld'
  BY <1>4 DEF PurgeSwap

<1>5. ASSUME NEW h \in Handlers, RereadSize(h) PROVE LocksHeld'
  BY <1>5 DEF RereadSize, TriggerBranch

<1>6. ASSUME NEW t \in Timers, TimerFire(t) PROVE LocksHeld'
  BY <1>6 DEF TimerFire

<1>7. ASSUME NEW t \in Threads, AcquireSubmit(t) PROVE LocksHeld'
  BY <1>7 DEF AcquireSubmit

<1>8. ASSUME NEW t \in Threads, SubmitDone(t) PROVE LocksHeld'
  BY <1>8 DEF SubmitDone, Return

<1>9. ASSUME NEW t \in Threads, StartBatch(t) PROVE LocksHeld'
  BY <1>9 DEF StartBatch

<1>10. ASSUME NEW t \in Threads, PopOne(t) PROVE LocksHeld'
  BY <1>10 DEF PopOne

<1>11. ASSUME NEW t \in Threads, Dispatch(t) PROVE LocksHeld'
  BY <1>11 DEF Dispatch

<1>12. ASSUME NEW t \in Threads, DispatchFails(t) PROVE LocksHeld'
  BY <1>12 DEF DispatchFails, Unwind

<1>13. ASSUME NEW t \in Threads, Register(t) PROVE LocksHeld'
  BY <1>13 DEF Register

<1>14. ASSUME NEW t \in Threads, InlineCallback(t) PROVE LocksHeld'
  BY <1>14 DEF InlineCallback, HandleResult, Requeue, FreeFuture

<1>15. ASSUME NEW w \in Workers, TakeJob(w) PROVE LocksHeld'
  BY <1>15 DEF TakeJob

<1>16. ASSUME NEW w \in Workers, PostAccepted(w) PROVE LocksHeld'
  BY <1>16 DEF PostAccepted, Finish

<1>17. ASSUME NEW w \in Workers, PostFailed(w) PROVE LocksHeld'
  BY <1>17 DEF PostFailed, Finish

<1>18. ASSUME NEW w \in Workers, WorkerCallback(w) PROVE LocksHeld'
  BY <1>18 DEF WorkerCallback, HandleResult, Requeue, FreeFuture

<1>19. ASSUME Signal PROVE LocksHeld'
  BY <1>19 DEF Signal

<1>20. ASSUME NEW f \in Frames, StopScheduling(f) PROVE LocksHeld'
  BY <1>20 DEF StopScheduling

<1>21. ASSUME NEW f \in Frames, CloseExecutor(f) PROVE LocksHeld'
  BY <1>21 DEF CloseExecutor

<1>22. ASSUME NEW f \in Frames, JoinExecutor(f) PROVE LocksHeld'
  BY <1>22 DEF JoinExecutor

<1>23. ASSUME NEW f \in Frames, ExitProcess(f) PROVE LocksHeld'
  BY <1>23 DEF ExitProcess

<1>24. CASE UNCHANGED vars
  BY <1>24 DEF vars
<1> QED
  BY <1>1, <1>2, <1>3, <1>4, <1>5, <1>6, <1>7, <1>8, <1>9, <1>10, <1>11, <1>12,
     <1>13, <1>14, <1>15, <1>16, <1>17, <1>18, <1>19, <1>20, <1>21, <1>22,
     <1>23, <1>24
     DEF Next, HandlerStep, SubmitStep, WorkerStep, ShutdownStep, Finished

\* No step runs the shutdown of a signal that has not come.
LEMMA FramesStep ==
    ASSUME Shape, [Next]_vars PROVE FramesWait'
<1> USE ThreadsAssumption DEF TypeOK, FramesWait, Active, Threads, Frames, Shape

<1>1. ASSUME NEW h \in Handlers, NEW r \in Records, AddToQueue(h, r) PROVE FramesWait'
  BY <1>1 DEF AddToQueue

<1>2. ASSUME NEW h \in Handlers, ReadSize(h) PROVE FramesWait'
  BY <1>2 DEF ReadSize, TriggerBranch

<1>3. ASSUME NEW h \in Handlers, PurgeCopy(h) PROVE FramesWait'
  BY <1>3 DEF PurgeCopy

<1>4. ASSUME NEW h \in Handlers, PurgeSwap(h) PROVE FramesWait'
  BY <1>4 DEF PurgeSwap

<1>5. ASSUME NEW h \in Handlers, RereadSize(h) PROVE FramesWait'
  BY <1>5 DEF RereadSize, TriggerBranch

<1>6. ASSUME NEW t \in Timers, TimerFire(t) PROVE FramesWait'
  BY <1>6 DEF TimerFire

<1>7. ASSUME NEW t \in Threads, AcquireSubmit(t) PROVE FramesWait'
  BY <1>7 DEF AcquireSubmit

<1>8. ASSUME NEW t \in Threads, SubmitDone(t) PROVE FramesWait'
  BY <1>8 DEF SubmitDone, Return

<1>9. ASSUME NEW t \in Threads, StartBatch(t) PROVE FramesWait'
  BY <1>9 DEF StartBatch

<1>10. ASSUME NEW t \in Threads, PopOne(t) PROVE FramesWait'
  BY <1>10 DEF PopOne

<1>11. ASSUME NEW t \in Threads, Dispatch(t) PROVE FramesWait'
  BY <1>11 DEF Dispatch

<1>12. ASSUME NEW t \in Threads, DispatchFails(t) PROVE FramesWait'
  BY <1>12 DEF DispatchFails, Unwind

<1>13. ASSUME NEW t \in Threads, Register(t) PROVE FramesWait'
  BY <1>13 DEF Register

<1>14. ASSUME NEW t \in Threads, InlineCallback(t) PROVE FramesWait'
  BY <1>14 DEF InlineCallback, HandleResult, Requeue, FreeFuture

<1>15. ASSUME NEW w \in Workers, TakeJob(w) PROVE FramesWait'
  BY <1>15 DEF TakeJob

<1>16. ASSUME NEW w \in Workers, PostAccepted(w) PROVE FramesWait'
  BY <1>16 DEF PostAccepted, Finish

<1>17. ASSUME NEW w \in Workers, PostFailed(w) PROVE FramesWait'
  BY <1>17 DEF PostFailed, Finish

<1>18. ASSUME NEW w \in Workers, WorkerCallback(w) PROVE FramesWait'
  BY <1>18 DEF WorkerCallback, HandleResult, Requeue, FreeFuture

<1>19. ASSUME Signal PROVE FramesWait'
  BY <1>19 DEF Signal

<1>20. ASSUME NEW f \in Frames, StopScheduling(f) PROVE FramesWait'
  BY <1>20 DEF StopScheduling

<1>21. ASSUME NEW f \in Frames, CloseExecutor(f) PROVE FramesWait'
  BY <1>21 DEF CloseExecutor

<1>22. ASSUME NEW f \in Frames, JoinExecutor(f) PROVE FramesWait'
  BY <1>22 DEF JoinExecutor

<1>23. ASSUME NEW f \in Frames, ExitProcess(f) PROVE FramesWait'
  BY <1>23 DEF ExitProcess

<1>24. CASE UNCHANGED vars
  BY <1>24 DEF vars
<1> QED
  BY <1>1, <1>2, <1>3, <1>4, <1>5, <1>6, <1>7, <1>8, <1>9, <1>10, <1>11, <1>12,
     <1>13, <1>14, <1>15, <1>16, <1>17, <1>18, <1>19, <1>20, <1>21, <1>22,
     <1>23, <1>24
     DEF Next, HandlerStep, SubmitStep, WorkerStep, ShutdownStep, Finished

\* The updates that the executor makes to a future keep its type and its other
\* fields.
LEMMA FutureLemma ==
    ASSUME NEW c \in FutureType
    PROVE  /\ \A s \in Stages : /\ [c EXCEPT !.stage = s] \in FutureType
                                /\ [c EXCEPT !.stage = s].batch = c.batch
                                /\ [c EXCEPT !.stage = s].stage = s
                                /\ [c EXCEPT !.stage = s].registered = c.registered
           /\ [c EXCEPT !.registered = TRUE] \in FutureType
           /\ [c EXCEPT !.registered = TRUE].batch = c.batch
           /\ [c EXCEPT !.registered = TRUE].stage = c.stage
           /\ [c EXCEPT !.registered = TRUE].registered
  BY DEF FutureType

\* Setting the stage of one future keeps the type of them all.
LEMMA StageSet ==
    ASSUME NEW f, NEW s \in Stages, fut \in [Futures -> FutureType]
    PROVE  [fut EXCEPT ![f].stage = s] \in [Futures -> FutureType]
<1>1. ASSUME NEW g \in Futures PROVE [fut[g] EXCEPT !.stage = s] \in FutureType
  BY FutureLemma
<1> QED BY <1>1

\* Every step preserves the types.  PopOne needs the queue not to be empty,
\* which is why the locks are part of the induction.
LEMMA TypeStep ==
    ASSUME Shape, [Next]_vars PROVE TypeOK'
<1> USE ThreadsAssumption, SizesAssumption DEF TypeOK, Threads, Shape, PCs

<1>1. ASSUME NEW h \in Handlers, NEW r \in Records, AddToQueue(h, r) PROVE TypeOK'
  BY <1>1 DEF AddToQueue

<1>2. ASSUME NEW h \in Handlers, ReadSize(h) PROVE TypeOK'
  BY <1>2 DEF ReadSize, TriggerBranch

<1>3. ASSUME NEW h \in Handlers, PurgeCopy(h) PROVE TypeOK'
  BY <1>3 DEF PurgeCopy

<1>4. ASSUME NEW h \in Handlers, PurgeSwap(h) PROVE TypeOK'
  <2>1. temp_list[h] \in Seq(Records) /\ PurgeRate \in Nat \ {0}
    BY <1>4
  <2>2. queue' \in Seq(Records)
    BY <1>4, <2>1, EveryNthLemma DEF PurgeSwap
  <2>3. Range(temp_list[h]) \subseteq Records
    BY <2>1, RangeOfSeq
  <2> QED BY <1>4, <2>2, <2>3, EmptySeq DEF PurgeSwap

<1>5. ASSUME NEW h \in Handlers, RereadSize(h) PROVE TypeOK'
  BY <1>5 DEF RereadSize, TriggerBranch

<1>6. ASSUME NEW t \in Timers, TimerFire(t) PROVE TypeOK'
  BY <1>6 DEF TimerFire

<1>7. ASSUME NEW t \in Threads, AcquireSubmit(t) PROVE TypeOK'
  BY <1>7 DEF AcquireSubmit

<1>8. ASSUME NEW t \in Threads, SubmitDone(t) PROVE TypeOK'
  BY <1>8 DEF SubmitDone, Return

<1>9. ASSUME NEW t \in Threads, StartBatch(t) PROVE TypeOK'
  BY <1>9 DEF StartBatch

<1>10. ASSUME NEW t \in Threads, PopOne(t) PROVE TypeOK'
  <2>1. queue \in Seq(Records) /\ queue # <<>> /\ batch[t] \in Seq(Records)
    BY <1>10 DEF PopOne, LockedQueue
  <2>2. Head(queue) \in Records /\ Tail(queue) \in Seq(Records)
    BY <2>1, HeadTailLemma
  <2>3. Append(batch[t], Head(queue)) \in Seq(Records)
    BY <2>1, <2>2, AppendLemma
  <2> QED BY <1>10, <2>2, <2>3 DEF PopOne

<1>11. ASSUME NEW t \in Threads, Dispatch(t) PROVE TypeOK'
  <2>1. PICK f \in Futures :
          /\ fut' = [fut EXCEPT ![f] = [batch |-> batch[t], stage |-> "pending",
                                        registered |-> FALSE]]
          /\ work_queue' = Append(work_queue, f)
          /\ mine' = [mine EXCEPT ![t] = f]
    BY <1>11 DEF Dispatch
  <2>2. [batch |-> batch[t], stage |-> "pending", registered |-> FALSE]
          \in FutureType
    BY DEF FutureType, Stages
  <2>3. fut' \in [Futures -> FutureType] /\ mine' \in [Threads -> Futures \cup {NoOne}]
    BY <2>1, <2>2
  <2>4. work_queue' \in Seq(Futures)
    BY <2>1, AppendLemma
  <2>5. batch' \in [Threads -> Seq(Records)]
    BY <1>11, EmptySeq DEF Dispatch
  <2> QED BY <1>11, <2>3, <2>4, <2>5 DEF Dispatch

<1>12. ASSUME NEW t \in Threads, DispatchFails(t) PROVE TypeOK'
  <2>1. Range(batch[t]) \subseteq Records
    BY RangeOfSeq
  <2>2. <<>> \in Seq(Records)
    BY EmptySeq
  <2> QED BY <1>12, <2>1, <2>2 DEF DispatchFails, Unwind

<1>13. ASSUME NEW t \in Threads, Register(t) PROVE TypeOK'
  <2>1. CASE fut[mine[t]].stage \in {"ok", "failed"}
    BY <1>13, <2>1 DEF Register
  <2>2. CASE fut[mine[t]].stage \notin {"ok", "failed"}
    <3>1. [fut EXCEPT ![mine[t]].registered = TRUE] \in [Futures -> FutureType]
      <4>1. ASSUME NEW g \in Futures
            PROVE  [fut[g] EXCEPT !.registered = TRUE] \in FutureType
        BY FutureLemma
      <4> QED BY <4>1
    <3>2. /\ fut' \in [Futures -> FutureType]
          /\ mine' \in [Threads -> Futures \cup {NoOne}]
          /\ pc' \in [Threads -> PCs]
      BY <1>13, <2>2, <3>1 DEF Register
    <3> QED BY <1>13, <3>2 DEF Register
  <2> QED BY <2>1, <2>2

<1>14. ASSUME NEW t \in Threads, InlineCallback(t) PROVE TypeOK'
  <2>1. FreeFuture \in FutureType
    BY FreeFutureType
  <2>2. fut' \in [Futures -> FutureType]
    BY <1>14, <2>1 DEF InlineCallback, HandleResult
  <2>3. mine[t] \in Futures
    BY <1>14 DEF InlineCallback, MineHeld
  <2>4. fut[mine[t]].batch \in Seq(Records) /\ Range(fut[mine[t]].batch) \subseteq Records
    BY <2>3, RangeOfSeq DEF FutureType
  <2>5. acked' \subseteq Records /\ queue' \in Seq(Records)
    <3>1. fut[mine[t]].batch \o queue \in Seq(Records)
      BY <2>4, ConcatLemma
    <3> QED BY <1>14, <2>4, <3>1 DEF InlineCallback, HandleResult, Requeue
  <2> QED BY <1>14, <2>2, <2>5 DEF InlineCallback

<1>15. ASSUME NEW w \in Workers, TakeJob(w) PROVE TypeOK'
  <2>1. Head(work_queue) \in Futures /\ Tail(work_queue) \in Seq(Futures)
    BY <1>15, HeadTailLemma DEF TakeJob
  <2>2. fut' \in [Futures -> FutureType]
    BY <1>15, StageSet DEF TakeJob, Stages
  <2> QED BY <1>15, <2>1, <2>2 DEF TakeJob

<1>16. ASSUME NEW w \in Workers, PostAccepted(w) PROVE TypeOK'
  <2>1. job[w] \in Futures
    BY <1>16 DEF PostAccepted, Finish
  <2>2. Range(fut[job[w]].batch) \subseteq Records
    BY <2>1, RangeOfSeq DEF FutureType
  <2>3. fut' \in [Futures -> FutureType]
    BY <1>16, StageSet DEF PostAccepted, Finish, Stages
  <2>4. job' \in [Workers -> Futures \cup {NoOne}]
    BY <1>16 DEF PostAccepted, Finish
  <2>5. received' \subseteq Records
    BY <1>16, <2>2 DEF PostAccepted
  <2> QED BY <1>16, <2>3, <2>4, <2>5 DEF PostAccepted

<1>17. ASSUME NEW w \in Workers, PostFailed(w) PROVE TypeOK'
  <2>1. job[w] \in Futures
    BY <1>17 DEF PostFailed, Finish
  <2>2. Range(fut[job[w]].batch) \subseteq Records
    BY <2>1, RangeOfSeq DEF FutureType
  <2>3. fut' \in [Futures -> FutureType]
    BY <1>17, StageSet DEF PostFailed, Finish, Stages
  <2>4. job' \in [Workers -> Futures \cup {NoOne}]
    BY <1>17 DEF PostFailed, Finish
  <2>5. received' \subseteq Records
    BY <1>17, <2>2 DEF PostFailed
  <2> QED BY <1>17, <2>3, <2>4, <2>5 DEF PostFailed

<1>18. ASSUME NEW w \in Workers, WorkerCallback(w) PROVE TypeOK'
  <2>1. FreeFuture \in FutureType
    BY FreeFutureType
  <2>2. fut' \in [Futures -> FutureType]
    BY <1>18, <2>1 DEF WorkerCallback, HandleResult
  <2>3. job[w] \in Futures
    BY <1>18 DEF WorkerCallback, MineHeld
  <2>4. fut[job[w]].batch \in Seq(Records) /\ Range(fut[job[w]].batch) \subseteq Records
    BY <2>3, RangeOfSeq DEF FutureType
  <2>5. acked' \subseteq Records /\ queue' \in Seq(Records)
    <3>1. fut[job[w]].batch \o queue \in Seq(Records)
      BY <2>4, ConcatLemma
    <3> QED BY <1>18, <2>4, <3>1 DEF WorkerCallback, HandleResult, Requeue
  <2> QED BY <1>18, <2>2, <2>5 DEF WorkerCallback

<1>19. ASSUME Signal PROVE TypeOK'
  BY <1>19 DEF Signal, Frames

<1>20. ASSUME NEW f \in Frames, StopScheduling(f) PROVE TypeOK'
  BY <1>20 DEF StopScheduling

<1>21. ASSUME NEW f \in Frames, CloseExecutor(f) PROVE TypeOK'
  BY <1>21 DEF CloseExecutor

<1>22. ASSUME NEW f \in Frames, JoinExecutor(f) PROVE TypeOK'
  BY <1>22 DEF JoinExecutor

<1>23. ASSUME NEW f \in Frames, ExitProcess(f) PROVE TypeOK'
  BY <1>23 DEF ExitProcess

<1>24. CASE UNCHANGED vars
  BY <1>24 DEF vars
<1> QED
  BY <1>1, <1>2, <1>3, <1>4, <1>5, <1>6, <1>7, <1>8, <1>9, <1>10, <1>11, <1>12,
     <1>13, <1>14, <1>15, <1>16, <1>17, <1>18, <1>19, <1>20, <1>21, <1>22,
     <1>23, <1>24
     DEF Next, HandlerStep, SubmitStep, WorkerStep, ShutdownStep, Finished

\* While a thread pops or swaps, nobody else changes the queue.
LEMMA QueueStep ==
    ASSUME Shape, [Next]_vars PROVE LockedQueue'
<1> USE ThreadsAssumption DEF TypeOK, LocksHeld, LockedQueue, FramesWait, Threads, Frames, Shape

<1>1. ASSUME NEW h \in Handlers, NEW r \in Records, AddToQueue(h, r) PROVE LockedQueue'
  BY <1>1 DEF AddToQueue

<1>2. ASSUME NEW h \in Handlers, ReadSize(h) PROVE LockedQueue'
  BY <1>2 DEF ReadSize, TriggerBranch

<1>3. ASSUME NEW h \in Handlers, PurgeCopy(h) PROVE LockedQueue'
  BY <1>3 DEF PurgeCopy

<1>4. ASSUME NEW h \in Handlers, PurgeSwap(h) PROVE LockedQueue'
  BY <1>4 DEF PurgeSwap

<1>5. ASSUME NEW h \in Handlers, RereadSize(h) PROVE LockedQueue'
  BY <1>5 DEF RereadSize, TriggerBranch

<1>6. ASSUME NEW t \in Timers, TimerFire(t) PROVE LockedQueue'
  BY <1>6 DEF TimerFire

<1>7. ASSUME NEW t \in Threads, AcquireSubmit(t) PROVE LockedQueue'
  BY <1>7 DEF AcquireSubmit

<1>8. ASSUME NEW t \in Threads, SubmitDone(t) PROVE LockedQueue'
  BY <1>8 DEF SubmitDone, Return

<1>9. ASSUME NEW t \in Threads, StartBatch(t) PROVE LockedQueue'
  BY <1>9 DEF StartBatch

<1>10. ASSUME NEW t \in Threads, PopOne(t) PROVE LockedQueue'
  <2>1. pc[t] = "pop" /\ \A u \in Threads : u # t => pc[u] \notin {"swap", "pop"}
    BY <1>10 DEF PopOne
  <2>2. \/ pc' = pc /\ queue' # <<>>
        \/ pc' = [pc EXCEPT ![t] = "dispatch"]
    BY <1>10 DEF PopOne
  <2>3. \A u \in Threads : u # t => pc'[u] \notin {"swap", "pop"}
    BY <2>1, <2>2
  <2>4. pc'[t] # "swap" /\ (pc'[t] = "pop" => queue' # <<>>)
    BY <2>1, <2>2
  <2> QED BY <2>3, <2>4

<1>11. ASSUME NEW t \in Threads, Dispatch(t) PROVE LockedQueue'
  BY <1>11 DEF Dispatch

<1>12. ASSUME NEW t \in Threads, DispatchFails(t) PROVE LockedQueue'
  BY <1>12 DEF DispatchFails, Unwind

<1>13. ASSUME NEW t \in Threads, Register(t) PROVE LockedQueue'
  BY <1>13 DEF Register

<1>14. ASSUME NEW t \in Threads, InlineCallback(t) PROVE LockedQueue'
  BY <1>14 DEF InlineCallback, HandleResult, Requeue, FreeFuture

<1>15. ASSUME NEW w \in Workers, TakeJob(w) PROVE LockedQueue'
  BY <1>15 DEF TakeJob

<1>16. ASSUME NEW w \in Workers, PostAccepted(w) PROVE LockedQueue'
  BY <1>16 DEF PostAccepted, Finish

<1>17. ASSUME NEW w \in Workers, PostFailed(w) PROVE LockedQueue'
  BY <1>17 DEF PostFailed, Finish

<1>18. ASSUME NEW w \in Workers, WorkerCallback(w) PROVE LockedQueue'
  BY <1>18 DEF WorkerCallback, HandleResult, Requeue, FreeFuture

<1>19. ASSUME Signal PROVE LockedQueue'
  BY <1>19 DEF Signal

<1>20. ASSUME NEW f \in Frames, StopScheduling(f) PROVE LockedQueue'
  BY <1>20 DEF StopScheduling

<1>21. ASSUME NEW f \in Frames, CloseExecutor(f) PROVE LockedQueue'
  BY <1>21 DEF CloseExecutor

<1>22. ASSUME NEW f \in Frames, JoinExecutor(f) PROVE LockedQueue'
  BY <1>22 DEF JoinExecutor

<1>23. ASSUME NEW f \in Frames, ExitProcess(f) PROVE LockedQueue'
  BY <1>23 DEF ExitProcess

<1>24. CASE UNCHANGED vars
  BY <1>24 DEF vars
<1> QED
  BY <1>1, <1>2, <1>3, <1>4, <1>5, <1>6, <1>7, <1>8, <1>9, <1>10, <1>11, <1>12,
     <1>13, <1>14, <1>15, <1>16, <1>17, <1>18, <1>19, <1>20, <1>21, <1>22,
     <1>23, <1>24
     DEF Next, HandlerStep, SubmitStep, WorkerStep, ShutdownStep, Finished

\* A thread holds an unregistered future exactly between the submission and
\* the end of the registration or of the inline callback.
LEMMA MineStep ==
    ASSUME Shape, [Next]_vars PROVE MineHeld'
<1> USE ThreadsAssumption DEF TypeOK, LocksHeld, MineHeld, FramesWait, Threads, Frames, Shape

<1>1. ASSUME NEW h \in Handlers, NEW r \in Records, AddToQueue(h, r) PROVE MineHeld'
  BY <1>1 DEF AddToQueue

<1>2. ASSUME NEW h \in Handlers, ReadSize(h) PROVE MineHeld'
  BY <1>2 DEF ReadSize, TriggerBranch

<1>3. ASSUME NEW h \in Handlers, PurgeCopy(h) PROVE MineHeld'
  BY <1>3 DEF PurgeCopy

<1>4. ASSUME NEW h \in Handlers, PurgeSwap(h) PROVE MineHeld'
  BY <1>4 DEF PurgeSwap

<1>5. ASSUME NEW h \in Handlers, RereadSize(h) PROVE MineHeld'
  BY <1>5 DEF RereadSize, TriggerBranch

<1>6. ASSUME NEW t \in Timers, TimerFire(t) PROVE MineHeld'
  BY <1>6 DEF TimerFire

<1>7. ASSUME NEW t \in Threads, AcquireSubmit(t) PROVE MineHeld'
  BY <1>7 DEF AcquireSubmit

<1>8. ASSUME NEW t \in Threads, SubmitDone(t) PROVE MineHeld'
  BY <1>8 DEF SubmitDone, Return

<1>9. ASSUME NEW t \in Threads, StartBatch(t) PROVE MineHeld'
  BY <1>9 DEF StartBatch

<1>10. ASSUME NEW t \in Threads, PopOne(t) PROVE MineHeld'
  <2>1. /\ mine' = mine /\ pc[t] = "pop"
        /\ pc' = pc \/ pc' = [pc EXCEPT ![t] = "dispatch"]
    BY <1>10 DEF PopOne
  <2> QED BY <2>1

<1>11. ASSUME NEW t \in Threads, Dispatch(t) PROVE MineHeld'
  BY <1>11 DEF Dispatch

<1>12. ASSUME NEW t \in Threads, DispatchFails(t) PROVE MineHeld'
  BY <1>12 DEF DispatchFails, Unwind

<1>13. ASSUME NEW t \in Threads, Register(t) PROVE MineHeld'
  <2>1. CASE fut[mine[t]].stage \in {"ok", "failed"}
    BY <1>13, <2>1 DEF Register
  <2>2. CASE fut[mine[t]].stage \notin {"ok", "failed"}
    <3>1. /\ mine' = [mine EXCEPT ![t] = NoOne]
          /\ pc' = [pc EXCEPT ![t] = "check"]
      BY <1>13, <2>2 DEF Register
    <3> QED BY <3>1
  <2> QED BY <2>1, <2>2

<1>14. ASSUME NEW t \in Threads, InlineCallback(t) PROVE MineHeld'
  BY <1>14 DEF InlineCallback, HandleResult, Requeue, FreeFuture

<1>15. ASSUME NEW w \in Workers, TakeJob(w) PROVE MineHeld'
  BY <1>15 DEF TakeJob

<1>16. ASSUME NEW w \in Workers, PostAccepted(w) PROVE MineHeld'
  BY <1>16 DEF PostAccepted, Finish

<1>17. ASSUME NEW w \in Workers, PostFailed(w) PROVE MineHeld'
  BY <1>17 DEF PostFailed, Finish

<1>18. ASSUME NEW w \in Workers, WorkerCallback(w) PROVE MineHeld'
  BY <1>18 DEF WorkerCallback, HandleResult, Requeue, FreeFuture

<1>19. ASSUME Signal PROVE MineHeld'
  BY <1>19 DEF Signal

<1>20. ASSUME NEW f \in Frames, StopScheduling(f) PROVE MineHeld'
  BY <1>20 DEF StopScheduling

<1>21. ASSUME NEW f \in Frames, CloseExecutor(f) PROVE MineHeld'
  BY <1>21 DEF CloseExecutor

<1>22. ASSUME NEW f \in Frames, JoinExecutor(f) PROVE MineHeld'
  BY <1>22 DEF JoinExecutor

<1>23. ASSUME NEW f \in Frames, ExitProcess(f) PROVE MineHeld'
  BY <1>23 DEF ExitProcess

<1>24. CASE UNCHANGED vars
  BY <1>24 DEF vars
<1> QED
  BY <1>1, <1>2, <1>3, <1>4, <1>5, <1>6, <1>7, <1>8, <1>9, <1>10, <1>11, <1>12,
     <1>13, <1>14, <1>15, <1>16, <1>17, <1>18, <1>19, <1>20, <1>21, <1>22,
     <1>23, <1>24
     DEF Next, HandlerStep, SubmitStep, WorkerStep, ShutdownStep, Finished

\* What add_done_callback does to the variables.
RegisterEffect(t) ==
    /\ \A f \in Futures : /\ fut'[f].batch = fut[f].batch
                          /\ fut'[f].stage = fut[f].stage
                          /\ f # mine[t] => fut'[f] = fut[f]
    /\ \/ /\ fut[mine[t]].stage \in {"ok", "failed"}
          /\ pc' = [pc EXCEPT ![t] = "callback"]
          /\ UNCHANGED <<fut, mine>>
       \/ /\ fut[mine[t]].stage \notin {"ok", "failed"}
          /\ fut'[mine[t]].registered
          /\ mine' = [mine EXCEPT ![t] = NoOne]
          /\ pc' = [pc EXCEPT ![t] = "check"]

\* add_done_callback changes nothing but the registration of the thread's own
\* future, or nothing at all when the future is done.
LEMMA RegisterLemma ==
    ASSUME Shape, NEW t \in Threads, Register(t)
    PROVE  RegisterEffect(t)
<1> USE DEF Shape, TypeOK, RegisterEffect
<1>1. mine[t] \in Futures
  BY DEF Register, MineHeld
<1>2. CASE fut[mine[t]].stage \in {"ok", "failed"}
  BY <1>2 DEF Register
<1>3. CASE fut[mine[t]].stage \notin {"ok", "failed"}
  <2> DEFINE c == [fut[mine[t]] EXCEPT !.registered = TRUE]
  <2>1. /\ fut' = [fut EXCEPT ![mine[t]] = c]
        /\ mine' = [mine EXCEPT ![t] = NoOne]
        /\ pc' = [pc EXCEPT ![t] = "check"]
    BY <1>3 DEF Register
  <2>2. /\ c.batch = fut[mine[t]].batch
        /\ c.stage = fut[mine[t]].stage
        /\ c.registered
    BY <1>1, FutureLemma
  <2> HIDE DEF c
  <2> QED BY <1>1, <1>3, <2>1, <2>2
<1> QED BY <1>2, <1>3

\* What taking submission h does to the variables.
TakeJobEffect(w, h) ==
    /\ h \in Futures
    /\ h \in Range(work_queue)
    /\ Range(work_queue') \subseteq Range(work_queue)
    /\ IsInjective(work_queue) => IsInjective(work_queue') /\ h \notin Range(work_queue')
    /\ fut'[h].stage = "running"
    /\ \A f \in Futures : /\ fut'[f].batch = fut[f].batch
                          /\ fut'[f].registered = fut[f].registered
                          /\ f # h => fut'[f] = fut[f]
    /\ job' = [job EXCEPT ![w] = h]

\* A worker takes the first submission of the work queue and no other.
LEMMA TakeJobLemma ==
    ASSUME Shape, NEW w \in Workers, TakeJob(w)
    PROVE  TakeJobEffect(w, Head(work_queue))
<1> USE DEF Shape, TypeOK, TakeJobEffect
<1> DEFINE h == Head(work_queue)
           c == [fut[h] EXCEPT !.stage = "running"]
<1>1. /\ h \in Futures /\ h \in Range(work_queue)
      /\ Range(work_queue') \subseteq Range(work_queue)
      /\ IsInjective(work_queue) => IsInjective(work_queue') /\ h \notin Range(work_queue')
  BY HeadTailLemma DEF TakeJob
<1>2. fut' = [fut EXCEPT ![h] = c] /\ job' = [job EXCEPT ![w] = h]
  BY DEF TakeJob
<1>3. c.batch = fut[h].batch /\ c.stage = "running" /\ c.registered = fut[h].registered
  BY <1>1, FutureLemma DEF Stages
<1> HIDE DEF h, c
<1>4. /\ fut'[h].stage = "running"
      /\ \A f \in Futures : /\ fut'[f].batch = fut[f].batch
                            /\ fut'[f].registered = fut[f].registered
                            /\ f # h => fut'[f] = fut[f]
  BY <1>1, <1>2, <1>3
<1> QED BY <1>1, <1>2, <1>4 DEF h

\* Who holds what.
Holding ==
    /\ BatchesHeld /\ FuturesHeld /\ PoolHeld
    /\ AcceptedWasReceived /\ AckedWasReceived

\* A batch is in a thread's hands only between the pop and the submission.
LEMMA BatchesStep ==
    ASSUME Shape, Shape', Holding, [Next]_vars PROVE BatchesHeld'
<1> USE ThreadsAssumption DEF Shape, TypeOK, Holding, LocksHeld, BatchesHeld, Threads, Submitting
<1>1. ASSUME NEW h \in Handlers, NEW r \in Records, AddToQueue(h, r)
      PROVE  BatchesHeld'
  BY <1>1 DEF AddToQueue

<1>2. ASSUME NEW h \in Handlers, HandlerStep(h)
      PROVE  BatchesHeld'
  <2>1. batch' = batch /\ pc[h] \notin {"pop", "dispatch"}
    BY <1>2 DEF HandlerStep, ReadSize, PurgeCopy, PurgeSwap, RereadSize
  <2>2. PICK label : pc' = [pc EXCEPT ![h] = label]
    BY <1>2 DEF HandlerStep, ReadSize, PurgeCopy, PurgeSwap, RereadSize
  <2> QED BY <2>1, <2>2

<1>3. ASSUME NEW t \in Timers, TimerFire(t)
      PROVE  BatchesHeld'
  BY <1>3 DEF TimerFire

<1>4. ASSUME NEW t \in Threads, AcquireSubmit(t) \/ SubmitDone(t) \/ StartBatch(t)
      PROVE  BatchesHeld'
  BY <1>4 DEF AcquireSubmit, SubmitDone, StartBatch, Return

<1>5. ASSUME NEW t \in Threads, PopOne(t)
      PROVE  BatchesHeld'
  BY <1>5 DEF PopOne

<1>6. ASSUME NEW t \in Threads, Dispatch(t)
      PROVE  BatchesHeld'
  BY <1>6 DEF Dispatch

<1>7. ASSUME NEW t \in Threads, DispatchFails(t)
      PROVE  BatchesHeld'
  BY <1>7 DEF DispatchFails, Unwind

<1>8. ASSUME NEW t \in Threads, Register(t)
      PROVE  BatchesHeld'
  BY <1>8 DEF Register

<1>9. ASSUME NEW t \in Threads, InlineCallback(t)
      PROVE  BatchesHeld'
  BY <1>9 DEF InlineCallback, HandleResult, Requeue

<1>10. ASSUME NEW w \in Workers, TakeJob(w)
      PROVE  BatchesHeld'
  BY <1>10 DEF TakeJob

<1>11. ASSUME NEW w \in Workers, PostAccepted(w)
      PROVE  BatchesHeld'
  BY <1>11 DEF PostAccepted, Finish

<1>12. ASSUME NEW w \in Workers, PostFailed(w)
      PROVE  BatchesHeld'
  BY <1>12 DEF PostFailed, Finish

<1>13. ASSUME NEW w \in Workers, WorkerCallback(w)
      PROVE  BatchesHeld'
  BY <1>13 DEF WorkerCallback, HandleResult, Requeue

<1>14. ASSUME Signal
      PROVE  BatchesHeld'
  BY <1>14 DEF Signal

<1>15. ASSUME NEW f \in Frames, ShutdownStep(f)
      PROVE  BatchesHeld'
  BY <1>15 DEF ShutdownStep, StopScheduling, CloseExecutor, JoinExecutor, ExitProcess

<1>16. CASE UNCHANGED vars
  BY <1>16 DEF vars

<1> QED
  BY <1>1, <1>2, <1>3, <1>4, <1>5, <1>6, <1>7, <1>8, <1>9, <1>10, <1>11, <1>12,
     <1>13, <1>14, <1>15, <1>16
     DEF Next, SubmitStep, WorkerStep, Finished

\* A future stays with its thread until its callback is registered: no worker
\* calls it back, and nobody frees it.
LEMMA FuturesStep ==
    ASSUME Shape, Shape', Holding, [Next]_vars PROVE FuturesHeld'
<1> USE ThreadsAssumption DEF Shape, TypeOK, Holding, LocksHeld, MineHeld, FuturesHeld, PoolHeld, Threads, Submitting
<1>1. ASSUME NEW h \in Handlers, NEW r \in Records, AddToQueue(h, r)
      PROVE  FuturesHeld'
  BY <1>1 DEF AddToQueue

<1>2. ASSUME NEW h \in Handlers, HandlerStep(h)
      PROVE  FuturesHeld'
  BY <1>2 DEF HandlerStep, ReadSize, PurgeCopy, PurgeSwap, RereadSize, TriggerBranch

<1>3. ASSUME NEW t \in Timers, TimerFire(t)
      PROVE  FuturesHeld'
  BY <1>3 DEF TimerFire

<1>4. ASSUME NEW t \in Threads, AcquireSubmit(t) \/ SubmitDone(t) \/ StartBatch(t)
      PROVE  FuturesHeld'
  BY <1>4 DEF AcquireSubmit, SubmitDone, StartBatch, Return

<1>5. ASSUME NEW t \in Threads, PopOne(t)
      PROVE  FuturesHeld'
  BY <1>5 DEF PopOne

<1>6. ASSUME NEW t \in Threads, Dispatch(t)
      PROVE  FuturesHeld'
  BY <1>6 DEF Dispatch

<1>7. ASSUME NEW t \in Threads, DispatchFails(t)
      PROVE  FuturesHeld'
  BY <1>7 DEF DispatchFails, Unwind

<1>8. ASSUME NEW t \in Threads, Register(t)
      PROVE  FuturesHeld'
  <2>1. RegisterEffect(t)
    BY <1>8, RegisterLemma
  <2>2. mine[t] \in Futures /\ pc[t] = "register"
    BY <1>8 DEF Register
  <2>3. ASSUME NEW u \in Threads, u # t
        PROVE  mine[u] = NoOne /\ mine'[u] = NoOne /\ pc'[u] # "callback"
    BY <2>1, <2>2, <2>3 DEF RegisterEffect
  <2>4. \A f \in Futures : fut'[f].stage = "free" => fut'[f] = FreeFuture
    BY <2>1, <2>2 DEF RegisterEffect
  <2>5. /\ mine'[t] # NoOne => /\ fut'[mine'[t]].stage # "free"
                               /\ ~fut'[mine'[t]].registered
        /\ pc'[t] = "callback" => fut'[mine'[t]].stage \in {"ok", "failed"}
    <3>1. CASE UNCHANGED <<fut, mine>> /\ fut[mine[t]].stage \in {"ok", "failed"}
      BY <2>2, <3>1
    <3>2. CASE mine' = [mine EXCEPT ![t] = NoOne] /\ pc' = [pc EXCEPT ![t] = "check"]
      BY <3>2
    <3> QED BY <2>1, <3>1, <3>2 DEF RegisterEffect
  <2> HIDE DEF Shape, TypeOK, Holding, MineHeld, PoolHeld, LocksHeld, Threads
  <2>6. ASSUME NEW u \in Threads
        PROVE  /\ mine'[u] # NoOne => /\ fut'[mine'[u]].stage # "free"
                                      /\ ~fut'[mine'[u]].registered
               /\ pc'[u] = "callback" => fut'[mine'[u]].stage \in {"ok", "failed"}
    BY <2>3, <2>5
  <2> QED BY <2>4, <2>6

<1>9. ASSUME NEW t \in Threads, InlineCallback(t)
      PROVE  FuturesHeld'
  <2>1. /\ mine[t] \in Futures /\ pc[t] = "callback"
        /\ fut' = [fut EXCEPT ![mine[t]] = FreeFuture]
        /\ mine' = [mine EXCEPT ![t] = NoOne]
        /\ pc' = [pc EXCEPT ![t] = "check"]
    BY <1>9 DEF InlineCallback, HandleResult
  <2>2. \A u \in Threads : u # t => mine[u] = NoOne /\ pc[u] # "callback"
    BY <2>1
  <2> HIDE DEF PoolHeld, LocksHeld, Submitting
  <2> QED BY <2>1, <2>2

<1>10. ASSUME NEW w \in Workers, TakeJob(w)
      PROVE  FuturesHeld'
  <2> DEFINE h == Head(work_queue)
  <2>1. TakeJobEffect(w, h)
    BY <1>10, TakeJobLemma
  <2> HIDE DEF h
  <2>2. mine' = mine /\ pc' = pc
    BY <1>10 DEF TakeJob
  <2>3. fut[h].stage = "pending"
    BY <2>1 DEF TakeJobEffect
  <2>4. FuturesHeld
    BY DEF Holding
  <2>5. \A u \in Threads :
           /\ mine[u] # NoOne => mine[u] \in Futures
           /\ pc[u] = "callback" => mine[u] # NoOne
    OBVIOUS
  <2> HIDE DEF Shape, TypeOK, Holding, MineHeld, PoolHeld, LocksHeld, Threads
  <2> QED BY <2>1, <2>2, <2>3, <2>4, <2>5 DEF TakeJobEffect

<1>11. ASSUME NEW w \in Workers, PostAccepted(w)
      PROVE  FuturesHeld'
  BY <1>11 DEF PostAccepted, Finish

<1>12. ASSUME NEW w \in Workers, PostFailed(w)
      PROVE  FuturesHeld'
  BY <1>12 DEF PostFailed, Finish

<1>13. ASSUME NEW w \in Workers, WorkerCallback(w)
      PROVE  FuturesHeld'
  BY <1>13 DEF WorkerCallback, HandleResult, Requeue

<1>14. ASSUME Signal
      PROVE  FuturesHeld'
  BY <1>14 DEF Signal

<1>15. ASSUME NEW f \in Frames, ShutdownStep(f)
      PROVE  FuturesHeld'
  BY <1>15 DEF ShutdownStep, StopScheduling, CloseExecutor, JoinExecutor, ExitProcess

<1>16. CASE UNCHANGED vars
  BY <1>16 DEF vars

<1> QED
  BY <1>1, <1>2, <1>3, <1>4, <1>5, <1>6, <1>7, <1>8, <1>9, <1>10, <1>11, <1>12,
     <1>13, <1>14, <1>15, <1>16
     DEF Next, SubmitStep, WorkerStep, Finished

\* Every pending submission is queued once and no two workers share one.
LEMMA PoolStep ==
    ASSUME Shape, Shape', Holding, [Next]_vars PROVE PoolHeld'
<1> USE ThreadsAssumption DEF Shape, TypeOK, Holding, MineHeld, FuturesHeld, PoolHeld, Threads
<1>1. ASSUME NEW h \in Handlers, NEW r \in Records, AddToQueue(h, r)
      PROVE  PoolHeld'
  BY <1>1 DEF AddToQueue

<1>2. ASSUME NEW h \in Handlers, HandlerStep(h)
      PROVE  PoolHeld'
  BY <1>2 DEF HandlerStep, ReadSize, PurgeCopy, PurgeSwap, RereadSize, TriggerBranch

<1>3. ASSUME NEW t \in Timers, TimerFire(t)
      PROVE  PoolHeld'
  BY <1>3 DEF TimerFire

<1>4. ASSUME NEW t \in Threads, AcquireSubmit(t) \/ SubmitDone(t) \/ StartBatch(t)
      PROVE  PoolHeld'
  BY <1>4 DEF AcquireSubmit, SubmitDone, StartBatch, Return

<1>5. ASSUME NEW t \in Threads, PopOne(t)
      PROVE  PoolHeld'
  BY <1>5 DEF PopOne

<1>6. ASSUME NEW t \in Threads, Dispatch(t)
      PROVE  PoolHeld'
  <2>1. PICK f \in Futures :
          /\ fut[f].stage = "free"
          /\ fut' = [fut EXCEPT ![f] = [batch |-> batch[t], stage |-> "pending",
                                        registered |-> FALSE]]
          /\ work_queue' = Append(work_queue, f)
    BY <1>6 DEF Dispatch
  <2>2. f \notin Range(work_queue)
    BY <2>1
  <2>3. IsInjective(work_queue') /\ Range(work_queue') = Range(work_queue) \cup {f}
    BY <2>1, <2>2, AppendLemma
  <2>4. Range(work_queue) \subseteq Futures
    BY RangeOfSeq
  <2>5. fut'[f].stage = "pending" /\ \A g \in Futures : g # f => fut'[g] = fut[g]
    BY <2>1
  <2>6. job' = job /\ \A w \in Workers : job[w] # NoOne => job[w] \in Futures
    BY <1>6 DEF Dispatch
  <2>7. PoolHeld /\ NoOne \notin Futures
    BY DEF Holding
  <2> HIDE DEF Shape, TypeOK, Holding, MineHeld, FuturesHeld, Threads
  <2>8. \A w \in Workers : job[w] # f
    BY <2>1, <2>7
  <2>9. \A g \in Range(work_queue') : fut'[g].stage = "pending"
    BY <2>2, <2>3, <2>4, <2>5, <2>7
  <2> QED BY <2>3, <2>5, <2>6, <2>7, <2>8, <2>9

<1>7. ASSUME NEW t \in Threads, DispatchFails(t)
      PROVE  PoolHeld'
  BY <1>7 DEF DispatchFails, Unwind

<1>8. ASSUME NEW t \in Threads, Register(t)
      PROVE  PoolHeld'
  <2>1. RegisterEffect(t)
    BY <1>8, RegisterLemma
  <2>2. job' = job /\ work_queue' = work_queue
    BY <1>8 DEF Register
  <2>3. PoolHeld /\ Range(work_queue) \subseteq Futures
    BY RangeOfSeq DEF Holding
  <2>4. mine[t] \in Futures /\ ~fut[mine[t]].registered
    BY <1>8 DEF Register
  <2>5. \A w \in Workers : job[w] # NoOne => job[w] \in Futures
    OBVIOUS
  <2> HIDE DEF Shape, TypeOK, Holding, MineHeld, FuturesHeld, Threads
  <2>6. \A f \in Range(work_queue) : fut'[f].stage = "pending"
    BY <2>1, <2>3 DEF RegisterEffect
  <2>7. ASSUME NEW w \in Workers, job[w] # NoOne
        PROVE  /\ fut'[job[w]].stage = fut[job[w]].stage
               /\ fut'[job[w]] = fut[job[w]] \/ fut[job[w]].stage = "running"
    BY <2>1, <2>3, <2>4, <2>5, <2>7 DEF RegisterEffect
  <2> QED BY <2>2, <2>3, <2>6, <2>7

<1>9. ASSUME NEW t \in Threads, InlineCallback(t)
      PROVE  PoolHeld'
  <2>1. /\ fut' = [fut EXCEPT ![mine[t]] = FreeFuture]
        /\ UNCHANGED <<work_queue, job>>
        /\ mine[t] \in Futures
        /\ fut[mine[t]].stage \in {"ok", "failed"} /\ ~fut[mine[t]].registered
    BY <1>9 DEF InlineCallback, HandleResult
  <2>2. PoolHeld /\ Range(work_queue) \subseteq Futures
    BY RangeOfSeq DEF Holding
  <2>3. \A w \in Workers : job[w] # NoOne => job[w] \in Futures
    OBVIOUS
  <2> HIDE DEF Shape, TypeOK, Holding, MineHeld, FuturesHeld, Threads
  <2> QED BY <2>1, <2>2, <2>3

<1>10. ASSUME NEW w \in Workers, TakeJob(w)
      PROVE  PoolHeld'
  <2> DEFINE h == Head(work_queue)
  <2>1. TakeJobEffect(w, h)
    BY <1>10, TakeJobLemma
  <2> HIDE DEF h
  <2>2. fut[h].stage = "pending" /\ h # NoOne
    BY <2>1 DEF TakeJobEffect
  <2>3. \A v \in Workers : job[v] # h
    BY <2>2
  <2>4. Range(work_queue) \subseteq Futures
    BY RangeOfSeq
  <2>5. PoolHeld /\ job \in [Workers -> Futures \cup {NoOne}]
    BY DEF Holding
  <2> HIDE DEF Shape, TypeOK, Holding, MineHeld, FuturesHeld, Threads
  <2>6. IsInjective(work_queue') /\ \A f \in Range(work_queue') : fut'[f].stage = "pending"
    BY <2>1, <2>4, <2>5 DEF TakeJobEffect
  <2>7. \A u, v \in Workers : job'[u] = job'[v] /\ job'[u] # NoOne => u = v
    BY <2>1, <2>3, <2>5 DEF TakeJobEffect
  <2>8. ASSUME NEW v \in Workers, job'[v] # NoOne
        PROVE  \/ fut'[job'[v]].stage = "running"
               \/ fut'[job'[v]].stage \in {"ok", "failed"} /\ fut'[job'[v]].registered
    <3>1. CASE v = w
      BY <2>1, <2>5, <3>1 DEF TakeJobEffect
    <3>2. CASE v # w
      BY <2>1, <2>3, <2>5, <2>8, <3>2 DEF TakeJobEffect
    <3> QED BY <3>1, <3>2
  <2> QED BY <2>6, <2>7, <2>8

<1>11. ASSUME NEW w \in Workers, PostAccepted(w)
      PROVE  PoolHeld'
  BY <1>11 DEF PostAccepted, Finish

<1>12. ASSUME NEW w \in Workers, PostFailed(w)
      PROVE  PoolHeld'
  BY <1>12 DEF PostFailed, Finish

<1>13. ASSUME NEW w \in Workers, WorkerCallback(w)
      PROVE  PoolHeld'
  BY <1>13 DEF WorkerCallback, HandleResult, Requeue

<1>14. ASSUME Signal
      PROVE  PoolHeld'
  BY <1>14 DEF Signal

<1>15. ASSUME NEW f \in Frames, ShutdownStep(f)
      PROVE  PoolHeld'
  BY <1>15 DEF ShutdownStep, StopScheduling, CloseExecutor, JoinExecutor, ExitProcess

<1>16. CASE UNCHANGED vars
  BY <1>16 DEF vars

<1> QED
  BY <1>1, <1>2, <1>3, <1>4, <1>5, <1>6, <1>7, <1>8, <1>9, <1>10, <1>11, <1>12,
     <1>13, <1>14, <1>15, <1>16
     DEF Next, SubmitStep, WorkerStep, Finished

\* Every submission stays where its stage says it is: none is taken from the
\* backlog but by a worker, and the callback of an answered one is always
\* somebody's.
LEMMA PlacedStep ==
    ASSUME Shape, Shape', Holding, FuturesPlaced, [Next]_vars PROVE FuturesPlaced'
<1> USE ThreadsAssumption DEF Shape, TypeOK, Holding, MineHeld, FuturesHeld, PoolHeld, Threads
<1>1. ASSUME UNCHANGED <<fut, work_queue, job, mine>> PROVE FuturesPlaced'
  BY <1>1 DEF FuturesPlaced

<1>2. ASSUME NEW t \in Threads, Dispatch(t) PROVE FuturesPlaced'
  <2>1. PICK f \in Futures :
          /\ fut[f].stage = "free"
          /\ fut' = [fut EXCEPT ![f] = [batch |-> batch[t], stage |-> "pending",
                                        registered |-> FALSE]]
          /\ work_queue' = Append(work_queue, f)
          /\ mine' = [mine EXCEPT ![t] = f]
    BY <1>2 DEF Dispatch
  <2>2. Range(work_queue') = Range(work_queue) \cup {f}
    BY <2>1, AppendLemma
  <2>3. /\ fut'[f].stage = "pending"
        /\ \A g \in Futures : g # f => fut'[g] = fut[g]
        /\ mine'[t] = f /\ \A u \in Threads : u # t => mine'[u] = mine[u]
    BY <2>1
  <2>4. job' = job /\ mine[t] = NoOne /\ NoOne \notin Futures
    BY <1>2 DEF Dispatch
  <2> HIDE DEF Shape, TypeOK, Holding, MineHeld, FuturesHeld, PoolHeld, Threads
  <2> QED BY <2>2, <2>3, <2>4 DEF FuturesPlaced

<1>3. ASSUME NEW t \in Threads, Register(t) PROVE FuturesPlaced'
  <2>1. RegisterEffect(t)
    BY <1>3, RegisterLemma
  <2>2. /\ job' = job /\ work_queue' = work_queue
        /\ mine[t] \in Futures /\ mine \in [Threads -> Futures \cup {NoOne}]
        /\ NoOne \notin Futures
    BY <1>3 DEF Register
  <2>3. fut[mine[t]].stage \in Stages
    BY <2>2 DEF FutureType
  <2> HIDE DEF Shape, TypeOK, Holding, MineHeld, FuturesHeld, PoolHeld, Threads
  <2>4. CASE UNCHANGED <<fut, mine>>
    BY <2>2, <2>4 DEF FuturesPlaced
  <2>5. CASE /\ fut[mine[t]].stage \notin {"ok", "failed"}
             /\ fut'[mine[t]].registered
             /\ mine' = [mine EXCEPT ![t] = NoOne]
    <3>1. ASSUME NEW f \in Futures, f # mine[t], \E u \in Threads : mine[u] = f
          PROVE  \E u \in Threads : mine'[u] = f
      BY <2>2, <2>5, <3>1
    <3> QED BY <2>1, <2>2, <2>3, <2>5, <3>1 DEF FuturesPlaced, RegisterEffect, Stages
  <2> QED BY <2>1, <2>4, <2>5 DEF RegisterEffect

<1>4. ASSUME NEW f \in Futures,
             fut' = [fut EXCEPT ![f] = FreeFuture],
             work_queue' = work_queue,
             \A g \in Futures : g # f =>
                /\ (\E w \in Workers : job[w] = g) => \E w \in Workers : job'[w] = g
                /\ (\E t \in Threads : mine[t] = g) => \E t \in Threads : mine'[t] = g
      PROVE  FuturesPlaced'
  <2>1. fut'[f].stage = "free" /\ \A g \in Futures : g # f => fut'[g] = fut[g]
    BY <1>4 DEF FreeFuture
  <2> HIDE DEF Shape, TypeOK, Holding, MineHeld, FuturesHeld, PoolHeld, Threads
  <2> QED BY <1>4, <2>1 DEF FuturesPlaced

<1>5. ASSUME NEW t \in Threads, InlineCallback(t) PROVE FuturesPlaced'
  <2>1. /\ mine[t] \in Futures
        /\ fut' = [fut EXCEPT ![mine[t]] = FreeFuture]
        /\ mine' = [mine EXCEPT ![t] = NoOne]
        /\ UNCHANGED <<job, work_queue>>
    BY <1>5 DEF InlineCallback, HandleResult
  <2>2. ASSUME NEW g \in Futures, g # mine[t], \E u \in Threads : mine[u] = g
        PROVE  \E u \in Threads : mine'[u] = g
    BY <2>1, <2>2
  <2>3. \A g \in Futures : g # mine[t] =>
           /\ (\E v \in Workers : job[v] = g) => \E v \in Workers : job'[v] = g
           /\ (\E u \in Threads : mine[u] = g) => \E u \in Threads : mine'[u] = g
    BY <2>1, <2>2
  <2> HIDE DEF Shape, TypeOK, Holding, MineHeld, FuturesHeld, PoolHeld, Threads
  <2> QED BY <1>4, <2>1, <2>3

<1>6. ASSUME NEW w \in Workers, WorkerCallback(w) PROVE FuturesPlaced'
  <2>1. /\ job[w] \in Futures
        /\ fut' = [fut EXCEPT ![job[w]] = FreeFuture]
        /\ job' = [job EXCEPT ![w] = NoOne]
        /\ UNCHANGED <<mine, work_queue>>
    BY <1>6 DEF WorkerCallback, HandleResult
  <2>2. ASSUME NEW g \in Futures, g # job[w], \E v \in Workers : job[v] = g
        PROVE  \E v \in Workers : job'[v] = g
    BY <2>1, <2>2
  <2>3. \A g \in Futures : g # job[w] =>
           /\ (\E v \in Workers : job[v] = g) => \E v \in Workers : job'[v] = g
           /\ (\E u \in Threads : mine[u] = g) => \E u \in Threads : mine'[u] = g
    BY <2>1, <2>2
  <2> HIDE DEF Shape, TypeOK, Holding, MineHeld, FuturesHeld, PoolHeld, Threads
  <2> QED BY <1>4, <2>1, <2>3

<1>7. ASSUME NEW w \in Workers, TakeJob(w) PROVE FuturesPlaced'
  <2> DEFINE h == Head(work_queue)
  <2>1. TakeJobEffect(w, h)
    BY <1>7, TakeJobLemma
  <2>2. /\ work_queue # <<>> /\ job[w] = NoOne /\ mine' = mine
        /\ job \in [Workers -> Futures \cup {NoOne}] /\ NoOne \notin Futures
        /\ fut[h].stage = "pending"
    BY <1>7, <2>1 DEF TakeJob, TakeJobEffect
  <2>3. Range(work_queue) = Range(work_queue') \cup {h}
    BY <1>7, HeadTailLemma DEF TakeJob
  <2> HIDE DEF h, Shape, TypeOK, Holding, MineHeld, FuturesHeld, PoolHeld, Threads
  <2>4. ASSUME NEW f \in Futures, \E v \in Workers : job[v] = f
        PROVE  \E v \in Workers : job'[v] = f
    BY <2>1, <2>2, <2>4 DEF TakeJobEffect
  <2>5. \E v \in Workers : job'[v] = h
    BY <2>1, <2>2 DEF TakeJobEffect
  <2> QED BY <2>1, <2>2, <2>3, <2>4, <2>5 DEF FuturesPlaced, TakeJobEffect

<1>8. ASSUME NEW w \in Workers, NEW stage \in {"ok", "failed"}, Finish(w, stage),
             UNCHANGED <<mine, work_queue>>
      PROVE  FuturesPlaced'
  <2> DEFINE g == job[w]
             c == [fut[g] EXCEPT !.stage = stage]
  <2>1. g \in Futures /\ fut[g].stage = "running" /\ fut' = [fut EXCEPT ![g] = c]
    BY <1>8 DEF Finish
  <2>2. c.stage = stage /\ c.registered = fut[g].registered
    BY <2>1, FutureLemma DEF Stages
  <2>3. job' = [job EXCEPT ![w] = IF fut[g].registered THEN g ELSE NoOne]
    BY <1>8 DEF Finish
  <2>4. job \in [Workers -> Futures \cup {NoOne}] /\ fut \in [Futures -> FutureType]
    OBVIOUS
  <2> HIDE DEF c, Shape, TypeOK, Holding, MineHeld, FuturesHeld, PoolHeld, Threads
  <2>5. /\ fut'[g].stage = stage /\ fut'[g].registered = fut[g].registered
        /\ \A f \in Futures : f # g => fut'[f] = fut[f]
    BY <2>1, <2>2, <2>4
  <2>6. ASSUME NEW f \in Futures, f # g, \E v \in Workers : job[v] = f
        PROVE  \E v \in Workers : job'[v] = f
    BY <2>3, <2>4, <2>6
  <2>7. fut[g].registered => job'[w] = g
    BY <2>3, <2>4
  <2> HIDE DEF g
  <2> QED BY <1>8, <2>1, <2>5, <2>6, <2>7 DEF FuturesPlaced

<1>9. CASE UNCHANGED vars
  BY <1>1, <1>9 DEF vars

<1>10. ASSUME NEW t \in Threads, SubmitStep(t) PROVE FuturesPlaced'
  <2>1. CASE AcquireSubmit(t) \/ SubmitDone(t) \/ StartBatch(t) \/ PopOne(t)
             \/ DispatchFails(t)
    BY <1>1, <2>1 DEF AcquireSubmit, SubmitDone, StartBatch, PopOne, DispatchFails
  <2> QED BY <1>2, <1>3, <1>5, <1>10, <2>1 DEF SubmitStep

<1>11. ASSUME NEW w \in Workers, WorkerStep(w) PROVE FuturesPlaced'
  BY <1>6, <1>7, <1>8, <1>11 DEF WorkerStep, PostAccepted, PostFailed

<1>12. ASSUME \/ \E h \in Handlers, r \in Records : AddToQueue(h, r)
              \/ \E h \in Handlers : HandlerStep(h)
              \/ \E t \in Timers : TimerFire(t)
              \/ Signal
              \/ \E f \in Frames : ShutdownStep(f)
       PROVE  FuturesPlaced'
  BY <1>1, <1>12
  DEF AddToQueue, HandlerStep, ReadSize, PurgeCopy, PurgeSwap, RereadSize, TimerFire,
      Signal, ShutdownStep, StopScheduling, CloseExecutor, JoinExecutor, ExitProcess
<1> QED
  BY <1>9, <1>10, <1>11, <1>12 DEF Next, Finished

\* Nothing starts again once the process has ended.
LEMMA ExitedStep ==
    ASSUME ExitedIdle, [Next]_vars PROVE ExitedIdle'
<1>1. CASE exited
  <2>1. UNCHANGED <<exited, work_queue, job>>
    BY <1>1 DEF Next, Finished, vars
  <2> QED BY <2>1 DEF ExitedIdle, WorkersDone
<1>2. CASE ~exited /\ exited'
  <2>1. PICK f \in Frames : ExitProcess(f)
    BY <1>2
    DEF Next, vars, Finished, AddToQueue, HandlerStep, ReadSize, PurgeCopy, PurgeSwap,
        RereadSize, TimerFire, SubmitStep, AcquireSubmit, SubmitDone, StartBatch,
        PopOne, Dispatch, DispatchFails, Register, InlineCallback, WorkerStep, TakeJob,
        PostAccepted, PostFailed, WorkerCallback, Signal, ShutdownStep,
        StopScheduling, CloseExecutor, JoinExecutor
  <2> QED BY <2>1 DEF ExitProcess, ExitedIdle, WorkersDone
<1> QED BY <1>1, <1>2 DEF ExitedIdle

\* Acknowledged records are with the backend, whichever thread runs the
\* callback.
LEMMA ReceivedStep ==
    ASSUME Shape, Shape', Holding, [Next]_vars PROVE (AcceptedWasReceived /\ AckedWasReceived)'
<1> USE ThreadsAssumption DEF Shape, TypeOK, Holding, MineHeld, FuturesHeld, PoolHeld, AcceptedWasReceived, AckedWasReceived
<1>1. ASSUME NEW h \in Handlers, NEW r \in Records, AddToQueue(h, r)
      PROVE  (AcceptedWasReceived /\ AckedWasReceived)'
  BY <1>1 DEF AddToQueue

<1>2. ASSUME NEW h \in Handlers, HandlerStep(h)
      PROVE  (AcceptedWasReceived /\ AckedWasReceived)'
  BY <1>2 DEF HandlerStep, ReadSize, PurgeCopy, PurgeSwap, RereadSize, TriggerBranch

<1>3. ASSUME NEW t \in Timers, TimerFire(t)
      PROVE  (AcceptedWasReceived /\ AckedWasReceived)'
  BY <1>3 DEF TimerFire

<1>4. ASSUME NEW t \in Threads, AcquireSubmit(t) \/ SubmitDone(t) \/ StartBatch(t)
      PROVE  (AcceptedWasReceived /\ AckedWasReceived)'
  BY <1>4 DEF AcquireSubmit, SubmitDone, StartBatch, Return

<1>5. ASSUME NEW t \in Threads, PopOne(t)
      PROVE  (AcceptedWasReceived /\ AckedWasReceived)'
  BY <1>5 DEF PopOne

<1>6. ASSUME NEW t \in Threads, Dispatch(t)
      PROVE  (AcceptedWasReceived /\ AckedWasReceived)'
  BY <1>6 DEF Dispatch

<1>7. ASSUME NEW t \in Threads, DispatchFails(t)
      PROVE  (AcceptedWasReceived /\ AckedWasReceived)'
  BY <1>7 DEF DispatchFails, Unwind

<1>8. ASSUME NEW t \in Threads, Register(t)
      PROVE  (AcceptedWasReceived /\ AckedWasReceived)'
  <2>1. received' = received /\ acked' = acked
    BY <1>8 DEF Register
  <2>2. RegisterEffect(t)
    BY <1>8, RegisterLemma
  <2>3. AcceptedWasReceived /\ AckedWasReceived
    BY DEF Holding
  <2> HIDE DEF Shape, TypeOK, Holding, MineHeld, FuturesHeld, PoolHeld
  <2> QED BY <2>1, <2>2, <2>3 DEF RegisterEffect

<1>9. ASSUME NEW t \in Threads, InlineCallback(t)
      PROVE  (AcceptedWasReceived /\ AckedWasReceived)'
  <2>1. mine[t] \in Futures
    BY <1>9 DEF InlineCallback
  <2> QED BY <1>9, <2>1, EmptyRange DEF InlineCallback, HandleResult, Requeue, FreeFuture

<1>10. ASSUME NEW w \in Workers, TakeJob(w)
      PROVE  (AcceptedWasReceived /\ AckedWasReceived)'
  BY <1>10 DEF TakeJob

<1>11. ASSUME NEW w \in Workers, PostAccepted(w)
      PROVE  (AcceptedWasReceived /\ AckedWasReceived)'
  BY <1>11 DEF PostAccepted, Finish

<1>12. ASSUME NEW w \in Workers, PostFailed(w)
      PROVE  (AcceptedWasReceived /\ AckedWasReceived)'
  BY <1>12 DEF PostFailed, Finish

<1>13. ASSUME NEW w \in Workers, WorkerCallback(w)
      PROVE  (AcceptedWasReceived /\ AckedWasReceived)'
  <2>1. job[w] \in Futures
    BY <1>13 DEF WorkerCallback
  <2> QED BY <1>13, <2>1, EmptyRange DEF WorkerCallback, HandleResult, Requeue, FreeFuture

<1>14. ASSUME Signal
      PROVE  (AcceptedWasReceived /\ AckedWasReceived)'
  BY <1>14 DEF Signal

<1>15. ASSUME NEW f \in Frames, ShutdownStep(f)
      PROVE  (AcceptedWasReceived /\ AckedWasReceived)'
  BY <1>15 DEF ShutdownStep, StopScheduling, CloseExecutor, JoinExecutor, ExitProcess

<1>16. CASE UNCHANGED vars
  BY <1>16 DEF vars

<1> QED
  BY <1>1, <1>2, <1>3, <1>4, <1>5, <1>6, <1>7, <1>8, <1>9, <1>10, <1>11, <1>12,
     <1>13, <1>14, <1>15, <1>16
     DEF Next, SubmitStep, WorkerStep, Finished

\* Every record is in exactly one place.
Conserved == NothingLost /\ NothingDuplicated

\* A step that moves no record keeps every record where it is, once.
LEMMA UnmovedLemma ==
    ASSUME Conserved,
           UNCHANGED <<fresh, queue, batch, acked, purged, discarded>>,
           \A f \in Futures : fut'[f].batch = fut[f].batch
    PROVE  Conserved'
<1>1. Popped' = Popped
  BY DEF Popped
<1>2. InFlight' = InFlight
  BY DEF InFlight
<1> QED BY <1>1, <1>2 DEF Conserved, NothingLost, NothingDuplicated

\* Freeing a future takes its batch, and only its batch, out of flight.
LEMMA EmptiedLemma ==
    ASSUME Conserved,
           NEW f \in Futures,
           fut' = [fut EXCEPT ![f] = FreeFuture],
           fut \in [Futures -> FutureType]
    PROVE  /\ InFlight' = InFlight \ Range(fut[f].batch)
           /\ \A g \in Futures : IsInjective(fut'[g].batch)
           /\ \A g, h \in Futures :
                 g # h => Range(fut'[g].batch) \cap Range(fut'[h].batch) = {}
<1> USE DEF Conserved, NothingDuplicated
<1>1. Range(fut'[f].batch) = {} /\ IsInjective(fut'[f].batch)
  BY EmptyRange DEF FreeFuture
<1>2. \A g \in Futures : g # f => fut'[g] = fut[g]
  OBVIOUS
<1>3. InFlight' = InFlight \ Range(fut[f].batch)
  BY <1>1, <1>2 DEF InFlight
<1> QED BY <1>1, <1>2, <1>3

\* callback_result_handler moves the batch from the future to the
\* acknowledged records or to the front of the queue.
LEMMA HandleLemma ==
    ASSUME Shape, Conserved,
           NEW f \in Futures, HandleResult(f),
           UNCHANGED <<fresh, batch, purged, discarded>>
    PROVE  Conserved'
<1> USE DEF Conserved, NothingDuplicated, NothingLost
<1> DEFINE b == fut[f].batch
<1>1. /\ fut \in [Futures -> FutureType] /\ queue \in Seq(Records)
      /\ b \in Seq(Records)
  BY DEF Shape, TypeOK, FutureType
<1>2. /\ InFlight' = InFlight \ Range(b)
      /\ \A g \in Futures : IsInjective(fut'[g].batch)
      /\ \A g, h \in Futures :
            g # h => Range(fut'[g].batch) \cap Range(fut'[h].batch) = {}
  BY <1>1, EmptiedLemma DEF HandleResult
<1>3. Popped' = Popped
  BY DEF Popped
<1>4. Range(b) \subseteq InFlight
  BY DEF InFlight
<1>5. IsInjective(b)
  OBVIOUS
<1> HIDE DEF b
<1>6. CASE acked' = acked \cup Range(b) /\ queue' = queue
  BY <1>2, <1>3, <1>4, <1>6
<1>7. CASE queue' = b \o queue /\ acked' = acked
  <2>1. /\ Range(queue') = Range(b) \cup Range(queue)
        /\ IsInjective(queue')
    BY <1>1, <1>4, <1>5, <1>7, ConcatLemma
  <2> QED BY <1>2, <1>3, <1>4, <1>7, <2>1
<1> QED BY <1>6, <1>7 DEF HandleResult, Requeue, b

\* Popping one record adds it to the popped records.
LEMMA PoppedGrows ==
    ASSUME NEW t \in Threads, NEW x,
           Range(batch'[t]) = Range(batch[t]) \cup {x},
           \A u \in Threads : u # t => batch'[u] = batch[u]
    PROVE  Popped' = Popped \cup {x}
<1>1. ASSUME NEW r PROVE r \in Popped' <=> r \in Popped \cup {x}
  BY DEF Popped
<1> QED BY <1>1

\* When one thread has the only batch, emptying it leaves none.
LEMMA OnlyBatch ==
    ASSUME NEW t \in Threads,
           batch \in [Threads -> Seq(Records)],
           \A u \in Threads : u # t => batch[u] = <<>>,
           batch' = [batch EXCEPT ![t] = <<>>]
    PROVE  Popped = Range(batch[t]) /\ Popped' = {}
<1>1. ASSUME NEW r PROVE r \in Popped <=> r \in Range(batch[t])
  BY EmptyRange DEF Popped
<1>2. ASSUME NEW r PROVE r \notin Popped'
  BY EmptyRange DEF Popped
<1> QED BY <1>1, <1>2

\* Giving a future a batch adds the batch to the records in flight.
LEMMA InFlightGrows ==
    ASSUME NEW f \in Futures, NEW D,
           Range(fut'[f].batch) = Range(fut[f].batch) \cup D,
           \A g \in Futures : g # f => fut'[g] = fut[g]
    PROVE  InFlight' = InFlight \cup D
<1>1. ASSUME NEW r PROVE r \in InFlight' <=> r \in InFlight \cup D
  BY DEF InFlight
<1> QED BY <1>1

\* No step loses or duplicates a record.  One step per action that moves
\* records; the others are instances of UnmovedLemma.
LEMMA ConservedStep ==
    ASSUME Shape, Shape', Holding, Conserved, [Next]_vars PROVE Conserved'
<1> USE DEF Shape, TypeOK
<1>1. ASSUME NEW h \in Handlers, NEW r \in Records, AddToQueue(h, r)
      PROVE  Conserved'
  <2> USE DEF Conserved, NothingLost, NothingDuplicated
  <2>1. /\ Range(queue') = Range(queue) \cup {r}
        /\ IsInjective(queue')
    BY <1>1, AppendLemma DEF AddToQueue
  <2>2. Popped' = Popped /\ InFlight' = InFlight
    BY <1>1 DEF AddToQueue, Popped, InFlight
  <2>3. /\ fresh' = fresh \ {r} /\ r \in fresh
        /\ UNCHANGED <<batch, fut, acked, purged, discarded>>
    BY <1>1 DEF AddToQueue
  <2> HIDE DEF TypeOK, Shape
  <2> QED BY <2>1, <2>2, <2>3

<1>2. ASSUME NEW h \in Handlers, ReadSize(h) \/ PurgeCopy(h) \/ RereadSize(h)
      PROVE  Conserved'
  BY <1>2, UnmovedLemma DEF ReadSize, PurgeCopy, RereadSize

<1>3. ASSUME NEW h \in Handlers, PurgeSwap(h)
      PROVE  Conserved'
  <2> USE DEF Conserved, NothingLost, NothingDuplicated
  <2>1. temp_list[h] = queue /\ PurgeRate \in Nat \ {0}
    BY <1>3, SizesAssumption DEF PurgeSwap, LockedQueue
  <2>2. /\ Range(queue') \subseteq Range(queue)
        /\ IsInjective(queue')
    BY <1>3, <2>1, EveryNthLemma DEF PurgeSwap
  <2>3. Popped' = Popped /\ InFlight' = InFlight
    BY <1>3 DEF PurgeSwap, Popped, InFlight
  <2>4. /\ purged' = purged \cup (Range(queue) \ Range(queue'))
        /\ UNCHANGED <<fresh, batch, fut, acked, discarded>>
    BY <1>3, <2>1 DEF PurgeSwap
  <2> HIDE DEF TypeOK, Shape
  <2> QED BY <2>2, <2>3, <2>4

<1>4. ASSUME NEW t \in Timers, TimerFire(t)
      PROVE  Conserved'
  BY <1>4, UnmovedLemma DEF TimerFire

<1>5. ASSUME NEW t \in Threads, AcquireSubmit(t) \/ SubmitDone(t) \/ StartBatch(t)
      PROVE  Conserved'
  BY <1>5, UnmovedLemma DEF AcquireSubmit, SubmitDone, StartBatch

<1>6. ASSUME NEW t \in Threads, PopOne(t)
      PROVE  Conserved'
  <2> USE DEF Conserved, NothingLost, NothingDuplicated
  <2> DEFINE x == Head(queue)
  <2>1. queue \in Seq(Records) /\ queue # <<>> /\ batch[t] \in Seq(Records)
    BY <1>6 DEF PopOne, LockedQueue
  <2>2. /\ x \in Records
        /\ Range(queue) = Range(queue') \cup {x}
        /\ IsInjective(queue') /\ x \notin Range(queue')
    BY <1>6, <2>1, HeadTailLemma DEF PopOne
  <2>3. /\ batch' = [batch EXCEPT ![t] = Append(batch[t], x)]
        /\ UNCHANGED <<fresh, fut, acked, purged, discarded>>
    BY <1>6 DEF PopOne
  <2>4. x \notin Range(batch[t])
    BY <2>2 DEF Popped
  <2>5. /\ Range(batch'[t]) = Range(batch[t]) \cup {x}
        /\ IsInjective(batch'[t])
    BY <2>1, <2>2, <2>3, <2>4, AppendLemma
  <2> HIDE DEF x
  <2>6. Popped' = Popped \cup {x}
    <3>1. \A u \in Threads : u # t => batch'[u] = batch[u]
      BY <2>3
    <3> QED BY <2>5, <3>1, PoppedGrows
  <2>7. \A u \in Threads : IsInjective(batch'[u])
    BY <2>3, <2>5
  <2>8. InFlight' = InFlight
    BY <2>3 DEF InFlight
  <2> HIDE DEF TypeOK, Shape
  <2>9. NothingLost'
    BY <2>2, <2>3, <2>6, <2>8
  <2>10. /\ x \in Range(queue)
         /\ \A f, g \in Futures :
               f # g => Range(fut'[f].batch) \cap Range(fut'[g].batch) = {}
         /\ \A f \in Futures : IsInjective(fut'[f].batch)
    BY <2>2, <2>3
  <2>11. /\ Range(queue') \cap (fresh' \cup Popped' \cup InFlight') = {}
         /\ Popped' \cap (fresh' \cup InFlight') = {}
         /\ acked' \cap (fresh' \cup Range(queue') \cup Popped' \cup InFlight') = {}
         /\ (purged' \cup discarded') \cap (acked' \cup fresh' \cup Range(queue')
                                            \cup Popped' \cup InFlight') = {}
    BY <2>2, <2>3, <2>6, <2>8, <2>10
  <2> QED BY <2>2, <2>3, <2>7, <2>8, <2>9, <2>10, <2>11

<1>7. ASSUME NEW t \in Threads, Dispatch(t)
      PROVE  Conserved'
  <2> USE DEF Conserved, NothingLost, NothingDuplicated
  <2>1. PICK f \in Futures :
          /\ fut[f].stage = "free"
          /\ fut' = [fut EXCEPT ![f] = [batch |-> batch[t], stage |-> "pending",
                                        registered |-> FALSE]]
    BY <1>7 DEF Dispatch
  <2>2. /\ batch' = [batch EXCEPT ![t] = <<>>]
        /\ UNCHANGED <<fresh, queue, acked, purged, discarded>>
    BY <1>7 DEF Dispatch
  <2>3. \A u \in Threads : u # t => batch[u] = <<>>
    BY <1>7 DEF Dispatch, LocksHeld, Submitting, Holding, BatchesHeld
  <2>4. Popped = Range(batch[t]) /\ Popped' = {}
    BY <2>2, <2>3, OnlyBatch DEF Shape, TypeOK
  <2>5. Range(fut[f].batch) = {}
    BY <2>1, EmptyRange DEF Holding, FuturesHeld, FreeFuture
  <2>6. fut'[f].batch = batch[t] /\ \A g \in Futures : g # f => fut'[g] = fut[g]
    BY <2>1
  <2>7. InFlight' = InFlight \cup Range(batch[t])
    <3>1. Range(fut'[f].batch) = Range(fut[f].batch) \cup Range(batch[t])
      BY <2>5, <2>6
    <3> QED BY <2>6, <3>1, InFlightGrows
  <2>8. /\ \A u \in Threads : IsInjective(batch'[u])
        /\ \A g \in Futures : IsInjective(fut'[g].batch)
    BY <2>2, <2>6, EmptyRange
  <2>9. \A g \in Futures : Range(fut[g].batch) \subseteq InFlight
    BY DEF InFlight
  <2> HIDE DEF TypeOK, Shape
  <2>10. \A g, h \in Futures :
            g # h => Range(fut'[g].batch) \cap Range(fut'[h].batch) = {}
    BY <2>4, <2>6, <2>9
  <2> QED BY <2>2, <2>4, <2>7, <2>8, <2>10

<1>8. ASSUME NEW t \in Threads, DispatchFails(t)
      PROVE  Conserved'
  <2> USE DEF Conserved, NothingLost, NothingDuplicated
  <2>1. /\ batch' = [batch EXCEPT ![t] = <<>>]
        /\ discarded' = discarded \cup Range(batch[t])
        /\ UNCHANGED <<fresh, queue, fut, acked, purged>>
    BY <1>8 DEF DispatchFails
  <2>2. \A u \in Threads : u # t => batch[u] = <<>>
    BY <1>8 DEF DispatchFails, LocksHeld, Submitting, Holding, BatchesHeld
  <2>3. Popped = Range(batch[t]) /\ Popped' = {}
    BY <2>1, <2>2, OnlyBatch DEF Shape, TypeOK
  <2>4. InFlight' = InFlight
    BY <2>1 DEF InFlight
  <2>5. \A u \in Threads : IsInjective(batch'[u])
    BY <2>1, EmptyRange
  <2> HIDE DEF TypeOK, Shape
  <2> QED BY <2>1, <2>3, <2>4, <2>5

<1>9. ASSUME NEW t \in Threads, Register(t)
      PROVE  Conserved'
  <2>1. RegisterEffect(t)
    BY <1>9, RegisterLemma
  <2> QED BY <1>9, <2>1, UnmovedLemma DEF Register, RegisterEffect

<1>10. ASSUME NEW t \in Threads, InlineCallback(t)
       PROVE  Conserved'
  <2>1. mine[t] \in Futures
    BY <1>10 DEF InlineCallback, MineHeld
  <2> QED BY <1>10, <2>1, HandleLemma DEF InlineCallback

<1>11. ASSUME NEW w \in Workers, TakeJob(w)
       PROVE  Conserved'
  <2>1. TakeJobEffect(w, Head(work_queue))
    BY <1>11, TakeJobLemma
  <2> QED BY <1>11, <2>1, UnmovedLemma DEF TakeJob, TakeJobEffect

<1>12. ASSUME NEW w \in Workers, PostAccepted(w) \/ PostFailed(w)
       PROVE  Conserved'
  <2>1. PICK s \in Stages : fut' = [fut EXCEPT ![job[w]].stage = s]
    BY <1>12 DEF PostAccepted, PostFailed, Finish, Stages
  <2>2. ASSUME NEW f \in Futures
        PROVE  fut'[f].batch = fut[f].batch
    <3>1. fut[f] \in FutureType
      OBVIOUS
    <3>2. fut'[f] = fut[f] \/ fut'[f] = [fut[f] EXCEPT !.stage = s]
      BY <2>1
    <3>3. [fut[f] EXCEPT !.stage = s].batch = fut[f].batch
      BY <3>1, FutureLemma
    <3> QED BY <3>2, <3>3
  <2> QED BY <1>12, <2>2, UnmovedLemma DEF PostAccepted, PostFailed

<1>13. ASSUME NEW w \in Workers, WorkerCallback(w)
       PROVE  Conserved'
  <2>1. job[w] \in Futures
    BY <1>13 DEF WorkerCallback
  <2> QED BY <1>13, <2>1, HandleLemma DEF WorkerCallback

<1>14. ASSUME Signal
       PROVE  Conserved'
  BY <1>14, UnmovedLemma DEF Signal

<1>15. ASSUME NEW f \in Frames, ShutdownStep(f)
       PROVE  Conserved'
  BY <1>15, UnmovedLemma DEF ShutdownStep, StopScheduling, CloseExecutor,
                            JoinExecutor, ExitProcess

<1>16. CASE UNCHANGED vars
  BY <1>16, UnmovedLemma DEF vars

<1> QED
  BY <1>1, <1>2, <1>3, <1>4, <1>5, <1>6, <1>7, <1>8, <1>9, <1>10, <1>11, <1>12,
     <1>13, <1>14, <1>15, <1>16
     DEF Next, HandlerStep, SubmitStep, WorkerStep, Finished

\* The initial state satisfies the inductive invariant.
LEMMA PipelineInit ==
    ASSUME Init PROVE PipelineInv
<1>1. Shape
  BY ShapeInit
<1> USE ThreadsAssumption DEF Init
<1>2. BatchesHeld /\ MineHeld
  BY <1>1 DEF BatchesHeld, Shape
<1>3. FuturesHeld
  BY DEF FuturesHeld, FreeFuture
<1>4. PoolHeld
  BY EmptyRange DEF PoolHeld
<1>5. AcceptedWasReceived /\ AckedWasReceived /\ FuturesPlaced /\ ExitedIdle
  BY DEF AcceptedWasReceived, AckedWasReceived, FuturesPlaced, ExitedIdle, FreeFuture
<1>6. Range(queue) = {} /\ Popped = {} /\ InFlight = {}
  BY EmptyRange DEF Popped, InFlight, FreeFuture
<1>7. NothingLost
  BY DEF NothingLost
<1>8. NothingDuplicated
  BY <1>6, EmptyRange DEF NothingDuplicated, FreeFuture
<1> QED BY <1>1, <1>2, <1>3, <1>4, <1>5, <1>7, <1>8 DEF PipelineInv, Shape

\* Every step preserves the inductive invariant, layer by layer: the shape
\* first, then who holds what, then where the records are.
LEMMA PipelineStep ==
    ASSUME PipelineInv, [Next]_vars PROVE PipelineInv'
<1>1. Shape /\ Holding /\ Conserved
  BY DEF PipelineInv, Shape, Holding, Conserved
<1>2. Shape'
  BY <1>1, TypeStep, LocksStep, FramesStep, QueueStep, MineStep DEF Shape
<1>3. BatchesHeld' /\ FuturesHeld' /\ PoolHeld'
  BY <1>1, <1>2, BatchesStep, FuturesStep, PoolStep
<1>4. AcceptedWasReceived' /\ AckedWasReceived'
  BY <1>1, <1>2, ReceivedStep
<1>5. Conserved'
  BY <1>1, <1>2, ConservedStep
<1>6. FuturesPlaced' /\ ExitedIdle'
  BY <1>1, <1>2, PlacedStep, ExitedStep DEF PipelineInv
<1> QED BY <1>2, <1>3, <1>4, <1>5, <1>6 DEF PipelineInv, Shape, Conserved

\* The inductive invariant holds in every reachable state, for any number of
\* records, threads, workers and signals.
THEOREM PipelineInvariant == Spec => []PipelineInv
<1>1. Init => PipelineInv
  BY PipelineInit
<1>2. PipelineInv /\ [Next]_vars => PipelineInv'
  BY PipelineStep
<1> QED BY <1>1, <1>2, PTL DEF Spec

\* Every variable keeps its type; in particular no thread ever pops from an
\* empty queue.
THEOREM TypeCorrectness == Spec => []TypeOK
<1>1. PipelineInv => TypeOK
  BY DEF PipelineInv
<1> QED BY <1>1, PipelineInvariant, PTL

\* The locks and the requeueing never lose a record: one that has arrived is
\* queued, in a batch, acknowledged, purged or discarded.
THEOREM NoLoss == Spec => []NothingLost
<1>1. PipelineInv => NothingLost
  BY DEF PipelineInv
<1> QED BY <1>1, PipelineInvariant, PTL

\* No record is ever in two places or twice in one, so none is submitted by two
\* passes at once and none comes back after it was settled.
THEOREM NoDuplicates == Spec => []NothingDuplicated
<1>1. PipelineInv => NothingDuplicated
  BY DEF PipelineInv
<1> QED BY <1>1, PipelineInvariant, PTL

\* The agent counts a record as submitted only if the backend has received it.
THEOREM AcksAreHonest == Spec => []AckedWasReceived
<1>1. PipelineInv => AckedWasReceived
  BY DEF PipelineInv
<1> QED BY <1>1, PipelineInvariant, PTL

\* A process that has ended has left nothing with the executor but what a thread
\* was still to give its callback.
THEOREM ExitIsDrained == Spec => []ExitDrained
<1>1. PipelineInv => ExitDrained
  <2> SUFFICES ASSUME PipelineInv, exited, NEW f \in Futures, fut[f].stage # "free"
               PROVE  \E t \in Threads : mine[t] = f
    BY DEF ExitDrained
  <2>1. work_queue = <<>> /\ \A w \in Workers : job[w] # f
    BY ThreadsAssumption DEF PipelineInv, ExitedIdle, WorkersDone
  <2>2. f \notin Range(work_queue)
    BY <2>1, EmptyRange
  <2>3. fut[f].stage \in Stages
    BY DEF PipelineInv, TypeOK, FutureType
  <2> QED BY <2>1, <2>2, <2>3 DEF PipelineInv, FuturesPlaced, Stages
<1> QED BY <1>1, PipelineInvariant, PTL

\* What is queued, popped or in flight is held in the sense of LogDelivery.
LEMMA HeldLemma ==
    ASSUME NothingDuplicated, NEW R \in SUBSET Records,
           R \subseteq Range(queue) \/ R \subseteq Popped \/ R \subseteq InFlight
    PROVE  R \in SUBSET Delivery!Held
<1>1. R \cap fresh = {} /\ R \cap acked = {} /\ R \cap (purged \cup discarded) = {}
  BY DEF NothingDuplicated
<1> QED BY <1>1 DEF Delivery!Held, Status

\* Purging or discarding held records is a Drop of LogDelivery.
LEMMA DropLemma ==
    ASSUME PipelineInv, NEW R \in SUBSET Records,
           R \subseteq Range(queue) \/ R \subseteq Popped,
           purged' \cup discarded' = purged \cup discarded \cup R,
           UNCHANGED <<fresh, acked, received>>
    PROVE  Delivery!Next
<1>1. R \in SUBSET Delivery!Held
  BY HeldLemma DEF PipelineInv
<1>2. R \cap fresh = {} /\ R \cap acked = {}
  BY DEF PipelineInv, NothingDuplicated
<1>3. Status' = [r \in Records |-> IF r \in R THEN "dropped" ELSE Status[r]]
  BY <1>2 DEF Status
<1>4. Delivery!Drop(R)
  BY <1>3 DEF Delivery!Drop, Delivery!Settle
<1> QED BY <1>1, <1>4 DEF Delivery!Next

\* A request to the backend is a Deliver of LogDelivery or changes nothing.
LEMMA PostLemma ==
    ASSUME PipelineInv, NEW w \in Workers, PostAccepted(w) \/ PostFailed(w)
    PROVE  Delivery!Next \/ UNCHANGED <<Status, received>>
<1> DEFINE R == Range(fut[job[w]].batch)
<1>1. job[w] \in Futures
  BY DEF PostAccepted, PostFailed, Finish, PipelineInv, TypeOK
<1>2. R \in SUBSET Records
  BY <1>1, RangeOfSeq DEF PipelineInv, TypeOK, FutureType
<1>3. R \subseteq InFlight
  BY <1>1 DEF InFlight
<1>4. R \in SUBSET Delivery!Held
  BY <1>2, <1>3, HeldLemma DEF PipelineInv
<1>5. Status' = Status
  BY DEF PostAccepted, PostFailed, Status
<1>6. received' = received \/ received' = received \cup R
  BY DEF PostAccepted, PostFailed
<1>7. CASE received' = received \cup R
  <2>1. Delivery!Deliver(R)
    BY <1>5, <1>7 DEF Delivery!Deliver
  <2> QED BY <1>4, <2>1 DEF Delivery!Next
<1> QED BY <1>5, <1>6, <1>7

\* A callback is an Acknowledge of LogDelivery or changes nothing.
LEMMA ResultLemma ==
    ASSUME PipelineInv, NEW f \in Futures, HandleResult(f),
           UNCHANGED <<fresh, purged, discarded, received>>
    PROVE  Delivery!Next \/ UNCHANGED <<Status, received>>
<1> DEFINE R == Range(fut[f].batch)
<1>1. CASE acked' = acked
  BY <1>1 DEF Status
<1>2. CASE fut[f].stage = "ok" /\ acked' = acked \cup R
  <2>1. R \in SUBSET Records
    BY RangeOfSeq DEF PipelineInv, TypeOK, FutureType
  <2>2. R \subseteq InFlight
    BY DEF InFlight
  <2>3. R \in SUBSET Delivery!Held
    BY <2>1, <2>2, HeldLemma DEF PipelineInv
  <2>4. R \subseteq received
    BY <1>2 DEF PipelineInv, AcceptedWasReceived
  <2>5. R \cap fresh = {}
    BY <2>2 DEF PipelineInv, NothingDuplicated
  <2>6. Status' = [r \in Records |-> IF r \in R THEN "acked" ELSE Status[r]]
    BY <1>2, <2>5 DEF Status
  <2>7. Delivery!Acknowledge(R)
    BY <2>4, <2>6 DEF Delivery!Acknowledge, Delivery!Settle
  <2> QED BY <2>3, <2>7 DEF Delivery!Next
<1> QED BY <1>1, <1>2 DEF HandleResult

\* Every step of the pipeline is a step of LogDelivery or a stutter.
LEMMA DeliveryStep ==
    ASSUME PipelineInv, [Next]_vars
    PROVE  [Delivery!Next]_<<Status, received>>
<1>1. ASSUME NEW h \in Handlers, NEW r \in Records, AddToQueue(h, r)
      PROVE  Delivery!Next
  <2>1. /\ r \in fresh /\ fresh' = fresh \ {r}
        /\ UNCHANGED <<received, acked, purged, discarded>>
    BY <1>1 DEF AddToQueue
  <2>2. r \notin acked /\ r \notin purged \cup discarded
    BY <2>1 DEF PipelineInv, NothingDuplicated
  <2>3. Status[r] = "new"
    BY <2>1 DEF Status
  <2>4. Status' = [s \in Records |-> IF s \in {r} THEN "held" ELSE Status[s]]
    BY <2>1, <2>2 DEF Status
  <2>5. Delivery!Accept(r)
    BY <2>1, <2>3, <2>4 DEF Delivery!Accept, Delivery!Settle
  <2> QED BY <2>5 DEF Delivery!Next

<1>2. ASSUME NEW h \in Handlers, PurgeSwap(h)
      PROVE  Delivery!Next
  <2>1. temp_list[h] = queue /\ queue \in Seq(Records)
    BY <1>2 DEF PurgeSwap, PipelineInv, LockedQueue, TypeOK
  <2> DEFINE R == Range(queue) \ Range(queue')
  <2>2. R \in SUBSET Records
    BY <2>1, RangeOfSeq
  <2>3. /\ purged' \cup discarded' = purged \cup discarded \cup R
        /\ UNCHANGED <<fresh, acked, received>>
    BY <1>2, <2>1 DEF PurgeSwap
  <2> HIDE DEF R
  <2>4. R \subseteq Range(queue)
    BY DEF R
  <2> QED BY <2>2, <2>3, <2>4, DropLemma

<1>3. ASSUME NEW t \in Threads, DispatchFails(t)
      PROVE  Delivery!Next
  <2>1. Range(batch[t]) \in SUBSET Records
    BY RangeOfSeq DEF PipelineInv, TypeOK
  <2>2. Range(batch[t]) \subseteq Popped
    BY DEF Popped
  <2>3. /\ purged' \cup discarded' = purged \cup discarded \cup Range(batch[t])
        /\ UNCHANGED <<fresh, acked, received>>
    BY <1>3 DEF DispatchFails
  <2> QED BY <2>1, <2>2, <2>3, DropLemma

<1>4. ASSUME NEW t \in Threads, InlineCallback(t)
      PROVE  [Delivery!Next]_<<Status, received>>
  <2>1. mine[t] \in Futures
    BY <1>4 DEF InlineCallback, PipelineInv, TypeOK, MineHeld
  <2> QED BY <1>4, <2>1, ResultLemma DEF InlineCallback

<1>5. ASSUME NEW w \in Workers, PostAccepted(w) \/ PostFailed(w)
      PROVE  [Delivery!Next]_<<Status, received>>
  BY <1>5, PostLemma

<1>6. ASSUME NEW w \in Workers, WorkerCallback(w)
      PROVE  [Delivery!Next]_<<Status, received>>
  <2>1. job[w] \in Futures
    BY <1>6 DEF WorkerCallback, PipelineInv, TypeOK
  <2> QED BY <1>6, <2>1, ResultLemma DEF WorkerCallback

<1>7. ASSUME UNCHANGED <<fresh, received, acked, purged, discarded>>
      PROVE  [Delivery!Next]_<<Status, received>>
  BY <1>7 DEF Status

<1>8. ASSUME NEW h \in Handlers, ReadSize(h) \/ PurgeCopy(h) \/ RereadSize(h)
      PROVE  UNCHANGED <<fresh, received, acked, purged, discarded>>
  BY <1>8 DEF ReadSize, PurgeCopy, RereadSize

<1>9. ASSUME NEW t \in Threads,
             \/ t \in Timers /\ TimerFire(t)
             \/ AcquireSubmit(t) \/ SubmitDone(t) \/ StartBatch(t)
             \/ PopOne(t) \/ Dispatch(t) \/ Register(t)
      PROVE  UNCHANGED <<fresh, received, acked, purged, discarded>>
  BY <1>9 DEF TimerFire, AcquireSubmit, SubmitDone, StartBatch, PopOne, Dispatch,
              Register

<1>10. ASSUME NEW w \in Workers, TakeJob(w)
       PROVE  UNCHANGED <<fresh, received, acked, purged, discarded>>
  BY <1>10 DEF TakeJob

<1>11. ASSUME Signal \/ \E f \in Frames : ShutdownStep(f)
       PROVE  UNCHANGED <<fresh, received, acked, purged, discarded>>
  BY <1>11 DEF Signal, ShutdownStep, StopScheduling, CloseExecutor, JoinExecutor,
               ExitProcess

<1>12. CASE UNCHANGED vars
  BY <1>7, <1>12 DEF vars

<1> QED
  <2>1. Timers \subseteq Threads
    BY DEF Threads
  <2> QED
    BY <1>1, <1>2, <1>3, <1>4, <1>5, <1>6, <1>7, <1>8, <1>9, <1>10, <1>11, <1>12, <2>1
       DEF Next, HandlerStep, SubmitStep, WorkerStep, Finished

\* The pipeline implements LogDelivery, for any number of records, threads,
\* workers and signals.
THEOREM Refinement == Spec => ImplementsDelivery
<1>1. Init => Delivery!Init
  BY DEF Init, Delivery!Init, Status
<1>2. PipelineInv /\ [Next]_vars => [Delivery!Next]_<<Status, received>>
  BY DeliveryStep
<1> QED BY <1>1, <1>2, PipelineInvariant, PTL DEF Spec, ImplementsDelivery, Delivery!Spec

-----------------------------------------------------------------------------
(* What the final submission owes, for the specification with its history. *)

\* A shutdown has got past its final submission.
Swept ==
    \/ \E f \in Frames : pc[f] \in {"close", "join", "exit"}
    \/ ~open
    \/ exited

\* Then what arrived before the signals has had its attempt, and so has whatever
\* the executor has or had.
HistoryInv ==
    /\ InFlight \subseteq attempted
    /\ acked \subseteq attempted
    /\ discarded \subseteq late \cup attempted
    /\ Swept => /\ signals > 0
                /\ Records \ (fresh \cup purged \cup late) \subseteq attempted

\* What a step does to the records that have a place, and how a shutdown gets past
\* its final submission.
Effects ==
    /\ fresh' \subseteq fresh
    /\ purged \subseteq purged'
    /\ acked' \subseteq acked \cup InFlight
    /\ discarded' \subseteq discarded \cup Popped
    /\ open => discarded' = discarded
    /\ signals' = signals \/ signals' = signals + 1
    /\ Swept' => Swept \/ \E f \in Frames : SubmitDone(f)

\* Every step has these effects.
LEMMA EffectsStep ==
    ASSUME Shape, [Next]_vars PROVE Effects
<1> USE ThreadsAssumption DEF Shape, TypeOK, Threads
<1> DEFINE Moves == /\ fresh' \subseteq fresh
                    /\ purged \subseteq purged'
                    /\ acked' \subseteq acked \cup InFlight
                    /\ discarded' \subseteq discarded \cup Popped
                    /\ open => discarded' = discarded
                    /\ signals' = signals \/ signals' = signals + 1
           Sweep == Swept' => Swept \/ \E f \in Frames : SubmitDone(f)
<1>1. ASSUME UNCHANGED places, UNCHANGED signals PROVE Moves
  BY <1>1
<1>2. ASSUME NEW t \in Threads, NEW label \in PCs,
             t \in Frames => label \notin {"close", "join", "exit"} \/ Swept,
             pc' = [pc EXCEPT ![t] = label], UNCHANGED <<open, exited>>
      PROVE  Sweep
  BY <1>2 DEF Swept
<1>3. ASSUME UNCHANGED <<pc, open, exited>> PROVE Sweep
  BY <1>3 DEF Swept
<1>4. ASSUME NEW f \in Futures, HandleResult(f) PROVE acked' \subseteq acked \cup InFlight
  BY <1>4 DEF HandleResult, InFlight
<1>5. ASSUME NEW h \in Handlers, NEW r \in Records, AddToQueue(h, r) PROVE Effects
  BY <1>2, <1>5 DEF AddToQueue, Effects, PCs
<1>6. ASSUME NEW h \in Handlers, HandlerStep(h) PROVE Effects
  <2>1. Moves
    BY <1>6 DEF HandlerStep, ReadSize, PurgeCopy, PurgeSwap, RereadSize
  <2>2. PICK label \in PCs : pc' = [pc EXCEPT ![h] = label]
    BY <1>6 DEF HandlerStep, ReadSize, PurgeCopy, PurgeSwap, RereadSize, TriggerBranch,
                PCs
  <2>3. UNCHANGED <<open, exited>> /\ h \in Threads /\ h \notin Frames
    BY <1>6 DEF HandlerStep, ReadSize, PurgeCopy, PurgeSwap, RereadSize
  <2> QED BY <1>2, <2>1, <2>2, <2>3 DEF Effects
<1>7. ASSUME NEW t \in Timers, TimerFire(t) PROVE Effects
  BY <1>1, <1>2, <1>7 DEF TimerFire, Effects, PCs
<1>8. ASSUME NEW t \in Threads, AcquireSubmit(t) \/ StartBatch(t) \/ PopOne(t)
                                \/ Dispatch(t) \/ Register(t)
      PROVE  Effects
  <2>1. Moves /\ UNCHANGED <<open, exited>>
    BY <1>8 DEF AcquireSubmit, StartBatch, PopOne, Dispatch, Register
  <2>2. Sweep
    <3>1. CASE UNCHANGED pc
      BY <1>3, <2>1, <3>1
    <3>2. CASE pc' # pc
      <4>1. PICK label \in {"check", "pop", "dispatch", "register", "callback"} :
               pc' = [pc EXCEPT ![t] = label]
        BY <1>8, <3>2 DEF AcquireSubmit, StartBatch, PopOne, Dispatch, Register
      <4> QED BY <1>2, <2>1, <4>1 DEF PCs
    <3> QED BY <3>1, <3>2
  <2> QED BY <2>1, <2>2 DEF Effects
<1>9. ASSUME NEW t \in Threads, SubmitDone(t) PROVE Effects
  <2>1. Moves /\ UNCHANGED <<open, exited>>
    BY <1>9 DEF SubmitDone
  <2>2. Sweep
    <3>1. CASE t \in Frames
      BY <1>9, <3>1
    <3>2. CASE t \notin Frames
      BY <1>2, <1>9, <2>1, <3>2 DEF SubmitDone, Return, PCs
    <3> QED BY <3>1, <3>2
  <2> QED BY <2>1, <2>2 DEF Effects
<1>10. ASSUME NEW t \in Threads, DispatchFails(t) PROVE Effects
  <2>1. ~open /\ Range(batch[t]) \subseteq Popped
    BY <1>10 DEF DispatchFails, Popped
  <2>2. Moves /\ Sweep
    BY <1>10, <2>1 DEF DispatchFails, Swept
  <2> QED BY <2>2 DEF Effects
<1>11. ASSUME NEW t \in Threads, InlineCallback(t) PROVE Effects
  <2>1. mine[t] \in Futures /\ HandleResult(mine[t])
    BY <1>11 DEF InlineCallback, MineHeld
  <2>2. Moves
    BY <1>4, <1>11, <2>1 DEF InlineCallback
  <2>3. Sweep
    BY <1>2, <1>11 DEF InlineCallback, PCs
  <2> QED BY <2>2, <2>3 DEF Effects
<1>12. ASSUME NEW w \in Workers, WorkerStep(w) PROVE Effects
  <2>1. Sweep
    BY <1>3, <1>12
    DEF WorkerStep, TakeJob, PostAccepted, PostFailed, WorkerCallback
  <2>2. CASE WorkerCallback(w)
    BY <1>4, <2>1, <2>2 DEF WorkerCallback, Effects
  <2>3. CASE ~WorkerCallback(w)
    BY <1>12, <2>1, <2>3 DEF WorkerStep, TakeJob, PostAccepted, PostFailed, Effects
  <2> QED BY <2>2, <2>3
<1>13. ASSUME Signal PROVE Effects
  <2>1. signals + 1 \in Threads
    BY <1>13 DEF Signal, Frames
  <2> QED BY <1>2, <1>13, <2>1 DEF Signal, Effects, PCs
<1>14. ASSUME NEW f \in Frames, ShutdownStep(f) PROVE Effects
  <2>1. Moves
    BY <1>14 DEF ShutdownStep, StopScheduling, CloseExecutor, JoinExecutor, ExitProcess
  <2>2. CASE StopScheduling(f)
    BY <1>2, <2>1, <2>2 DEF StopScheduling, Effects, PCs
  <2>3. CASE ~StopScheduling(f)
    <3>1. Swept
      BY <1>14, <2>3 DEF ShutdownStep, CloseExecutor, JoinExecutor, ExitProcess, Swept
    <3> QED BY <2>1, <3>1 DEF Effects
  <2> QED BY <2>2, <2>3
<1>15. CASE UNCHANGED vars
  BY <1>3, <1>15 DEF vars, Effects
<1> QED
  BY <1>5, <1>6, <1>7, <1>8, <1>9, <1>10, <1>11, <1>12, <1>13, <1>14, <1>15
     DEF Next, SubmitStep, Finished

\* Whoever finds the queue empty at the end of a pass has all the batches there
\* were, and has submitted them: nobody else is between a pop and a submission.
LEMMA NothingPopped ==
    ASSUME PipelineInv, NEW t \in Threads, SubmitDone(t) PROVE Popped = {}
<1>1. \A u \in Threads : batch[u] = <<>>
  BY ThreadsAssumption
  DEF PipelineInv, SubmitDone, LocksHeld, BatchesHeld, Submitting
<1> QED BY <1>1, EmptyRange DEF Popped

\* A step keeps HistoryInv.
LEMMA HistoryStep ==
    ASSUME PipelineInv, PipelineInv', HistoryInv,
           [HistoryNext]_<<vars, attempted, late>>
    PROVE  HistoryInv'
<1>1. CASE HistoryNext
  <2>0. Effects /\ signals \in Nat
    BY <1>1, EffectsStep DEF HistoryNext, PipelineInv, Shape, TypeOK
  <2>1. /\ attempted \subseteq attempted' /\ InFlight' \subseteq attempted'
        /\ late \subseteq late'
        /\ signals > 0 => fresh \ fresh' \subseteq late'
    BY <1>1 DEF HistoryNext
  <2>2. acked' \subseteq attempted'
    BY <2>0, <2>1 DEF HistoryInv, Effects
  <2>3. discarded' \subseteq late' \cup attempted'
    <3>1. CASE open
      BY <2>0, <2>1, <3>1 DEF HistoryInv, Effects
    <3>2. CASE ~open
      <4>1. Popped \cap (fresh \cup purged) = {} /\ Popped \subseteq Records
        BY RangeOfSeq DEF PipelineInv, NothingDuplicated, TypeOK, Popped
      <4>2. Popped \subseteq late \cup attempted
        BY <3>2, <4>1 DEF HistoryInv, Swept
      <4> QED BY <2>0, <2>1, <4>2 DEF HistoryInv, Effects
    <3> QED BY <3>1, <3>2
  <2>4. ASSUME Swept'
        PROVE  /\ signals' > 0
               /\ Records \ (fresh' \cup purged' \cup late') \subseteq attempted'
    <3>1. /\ signals > 0
          /\ Records \ (fresh \cup purged \cup late) \subseteq attempted
      <4>1. CASE Swept
        BY <4>1 DEF HistoryInv
      <4>2. ASSUME NEW f \in Frames, SubmitDone(f)
            PROVE  /\ signals > 0
                   /\ Records \ (fresh \cup purged \cup late) \subseteq attempted
        <5>1. signals > 0
          BY <4>2 DEF SubmitDone, Active, Frames
        <5>2. Popped = {} /\ Range(queue) = {}
          BY <4>2, NothingPopped, EmptyRange DEF SubmitDone, Threads
        <5>3. Records \subseteq fresh \cup InFlight \cup acked \cup purged \cup discarded
          BY <5>2 DEF PipelineInv, NothingLost
        <5> QED BY <5>1, <5>3 DEF HistoryInv
      <4> QED BY <2>0, <2>4, <4>1, <4>2 DEF Effects
    <3> QED BY <2>0, <2>1, <3>1 DEF Effects
  <2> QED BY <2>1, <2>2, <2>3, <2>4 DEF HistoryInv
<1>2. CASE UNCHANGED <<vars, attempted, late>>
  BY <1>2 DEF vars, HistoryInv, InFlight, Swept
<1> QED BY <1>1, <1>2

\* HistoryInv is an invariant of the specification with history, as PipelineInv is
\* of the one without.
THEOREM HistoryInvariant == HistorySpec => []HistoryInv
<1>1. HistoryInit => Init /\ PipelineInv
  BY PipelineInit DEF HistoryInit
<1>2. Init /\ HistoryInit => HistoryInv
  BY ThreadsAssumption, EmptyRange
  DEF HistoryInit, Init, HistoryInv, InFlight, FreeFuture, Swept, Threads
<1>3. [HistoryNext]_<<vars, attempted, late>> => [Next]_vars
  BY DEF HistoryNext
<1>4. PipelineInv /\ [Next]_vars => PipelineInv'
  BY PipelineStep
<1>5. PipelineInv /\ PipelineInv' /\ HistoryInv /\ [HistoryNext]_<<vars, attempted, late>>
        => HistoryInv'
  BY HistoryStep
<1> QED BY <1>1, <1>2, <1>3, <1>4, <1>5, PTL DEF HistorySpec

\* Shutdown's final submission: whoever arrived before the first signal has been
\* given to the executor once, or purged, when the process ends, whatever signals
\* interrupted the shutdown.
THEOREM LastAttempt == HistorySpec => []FinalSubmission
<1>1. HistoryInv => FinalSubmission
  BY DEF HistoryInv, FinalSubmission, Swept
<1> QED BY <1>1, HistoryInvariant, PTL

\* What the closed executor makes a pass throw away came too late or has had its
\* attempt.
THEOREM NoChanceWasted == HistorySpec => []DiscardedHadItsChance
<1>1. HistoryInv => DiscardedHadItsChance
  BY DEF HistoryInv, DiscardedHadItsChance
<1> QED BY <1>1, HistoryInvariant, PTL
=============================================================================
