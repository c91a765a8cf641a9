---------------------------- MODULE FwLogProofs ----------------------------
(***************************************************************************)
(* Proofs about the firewall log parser, for any number of runs that       *)
(* overlap and are killed, any log and any maxlines: the saved date never  *)
(* runs past lines that no run has counted, and no line is sent twice      *)
(* unless runs overlap or a date is lost half-written.                     *)
(***************************************************************************)
EXTENDS FwLogHistory, FiniteSetTheorems, SequenceTheorems, WellFoundedInduction, TLAPS

\* The log is in the order of its times, and nothing in it is to come.
LogOrdered ==
    /\ \A i \in 1..Len(logged) : logged[i] <= now
    /\ \A i, j \in 1..Len(logged) : i <= j => logged[i] <= logged[j]

\* A run has counted lines of the log.
LinesLogged == \A p \in Pids : run[p].lines \subseteq 1..Len(logged)

ParserInv == TypeOK /\ LogOrdered /\ LinesLogged

RunType == [startdate : Int, skip : 1..maxlines + 1, lines : SUBSET Lines,
            inode : Pids \cup {NoFile}]

-----------------------------------------------------------------------------
(* Numbers and sets.                                                       *)

\* A set of numbers up to n that is not empty has a greatest one.
LEMMA MaxLemma ==
    ASSUME NEW n \in Nat, NEW S \in SUBSET (1..n), S # {}
    PROVE  Max(S) \in S /\ \A x \in S : x <= Max(S)
<1> DEFINE Bounds == {m \in Nat : \A x \in S : x <= m}
           Less   == {ss \in Nat \X Nat : ss[1] < ss[2]}
<1>1. IsWellFoundedOn(Less, Nat)
  BY NatLessThanWellFounded DEF OpToRel
<1>2. n \in Bounds /\ Bounds \subseteq Nat
  OBVIOUS
<1>3. PICK m \in Bounds : \A k \in Bounds : <<k, m>> \notin Less
  <2> HIDE DEF Bounds, Less
  <2> QED BY <1>1, <1>2, WFMin
<1>4. m \in S
  <2> SUFFICES ASSUME m \notin S PROVE FALSE
    OBVIOUS
  <2>1. \A x \in S : x \in Nat /\ x <= m - 1 /\ x >= 1
    BY <1>3
  <2>2. m \in Nat /\ m - 1 \in Nat
    <3>1. PICK x \in S : TRUE
      OBVIOUS
    <3> QED BY <1>3, <2>1, <3>1
  <2>3. m - 1 \in Bounds
    BY <2>1, <2>2
  <2>4. <<m - 1, m>> \in Less
    BY <2>2
  <2> QED BY <1>3, <2>3, <2>4
<1>5. \A y \in S : m >= y
  BY <1>3
<1> HIDE DEF Bounds, Less
<1>6. Max(S) \in S /\ \A y \in S : Max(S) >= y
  BY <1>4, <1>5 DEF Max
<1> QED BY <1>6

\* A finite set with at most one element does not have two.
LEMMA AtMostOne ==
    ASSUME NEW S, IsFiniteSet(S), ~(Cardinality(S) > 1), NEW a \in S, NEW b \in S
    PROVE  a = b
<1> SUFFICES ASSUME a # b PROVE FALSE
  OBVIOUS
<1>1. IsFiniteSet({a}) /\ Cardinality({a}) = 1
  BY FS_Singleton
<1>2. Cardinality({a} \cup {b}) = 2
  BY <1>1, FS_AddElement
<1>3. {a} \cup {b} \subseteq S
  OBVIOUS
<1>4. Cardinality({a} \cup {b}) <= Cardinality(S)
  BY <1>3, FS_Subset
<1>5. Cardinality(S) \in Nat
  BY FS_CardinalityType
<1> QED BY <1>2, <1>4, <1>5

\* A run counts lines of the log after its start date, and with a line all lines
\* before it that are after the start date.
LEMMA CountedLemma ==
    ASSUME ParserInv, NEW p \in Pids
    PROVE  /\ Counted(p) \subseteq first..Len(logged)
           /\ \A i \in Counted(p) : logged[i] > run[p].startdate
           /\ \A m \in Counted(p), i \in first..Len(logged) :
                 i <= m /\ logged[i] > run[p].startdate => i \in Counted(p)
<1> DEFINE later == {i \in first..Len(logged) : logged[i] > run[p].startdate}
<1>1. Counted(p) = {i \in later : Cardinality(UpTo(later, i)) <= maxlines}
  BY DEF Counted
<1>2. first \in Nat /\ Len(logged) \in Nat /\ maxlines \in Nat
  BY ParserAssumption, LenProperties DEF ParserInv, TypeOK
<1>3. IsFiniteSet(later)
  <2>1. IsFiniteSet(first..Len(logged))
    BY <1>2, FS_Interval
  <2> QED BY <2>1, FS_Subset
<1>4. ASSUME NEW m \in Counted(p), NEW i \in later, i <= m
      PROVE  i \in Counted(p)
  <2>1. m \in later /\ Cardinality(UpTo(later, m)) <= maxlines
    BY <1>1
  <2>2. UpTo(later, i) \subseteq UpTo(later, m) /\ UpTo(later, m) \subseteq later
    BY <1>2, <1>4, <2>1 DEF UpTo
  <2> HIDE DEF later
  <2>3. IsFiniteSet(UpTo(later, m))
    BY <1>3, <2>2, FS_Subset
  <2>4. /\ Cardinality(UpTo(later, i)) <= Cardinality(UpTo(later, m))
        /\ IsFiniteSet(UpTo(later, i))
    BY <2>2, <2>3, FS_Subset
  <2>5. Cardinality(UpTo(later, i)) \in Nat /\ Cardinality(UpTo(later, m)) \in Nat
    BY <2>3, <2>4, FS_CardinalityType
  <2>6. Cardinality(UpTo(later, i)) <= maxlines
    BY <1>2, <2>1, <2>4, <2>5
  <2> QED BY <1>1, <1>4, <2>6
<1> QED BY <1>1, <1>4

-----------------------------------------------------------------------------
(* The steps.                                                              *)

\* What becomes of the places of a run p, of its local variables and of the saved
\* date when p does a step.
Ends(p) ==
    /\ pc' = [pc EXCEPT ![p] = "idle"]
    /\ run' = [run EXCEPT ![p] = NoRun]
    /\ lastcount' = lastcount

Moves(p, from, to) ==
    /\ pc[p] \in from
    /\ \E label \in to : pc' = [pc EXCEPT ![p] = label]
    /\ \E r \in RunType :
          /\ run' = [run EXCEPT ![p] = r]
          /\ r.startdate = run[p].startdate
          /\ r.lines = run[p].lines

Dates(p) ==
    /\ pc[p] = "last"
    /\ pc' = [pc EXCEPT ![p] = "read"]
    /\ \E r \in RunType :
          /\ run' = [run EXCEPT ![p] = r]
          /\ r.startdate = IF lastcount < now - Window THEN now - Window ELSE lastcount
          /\ r.lines = run[p].lines
    /\ lastcount' = lastcount

Reads(p) ==
    /\ pc[p] = "read"
    /\ pc' = [pc EXCEPT ![p] = "empty"]
    /\ \E r \in RunType :
          /\ run' = [run EXCEPT ![p] = r]
          /\ r.startdate = run[p].startdate
          /\ r.lines = Counted(p)
    /\ lastcount' = lastcount

Early == PCs \ {"read", "empty", "save", "post", "unlock"}

RunEffect(p) ==
    /\ UNCHANGED <<now, logged, first>>
    /\ \/ Ends(p)
       \/ Moves(p, Early, Early) /\ lastcount' = lastcount
       \/ Dates(p)
       \/ Reads(p)
       \/ Moves(p, {"empty"}, {"save"}) /\ lastcount' = 0
       \/ /\ Moves(p, {"save"}, {"post"})
          /\ lastcount' = IF run[p].lines = {} THEN run[p].startdate
                                               ELSE logged[Max(run[p].lines)]
       \/ Moves(p, {"post"}, {"unlock"}) /\ lastcount' = lastcount

\* The record of a run with one of its fields set.
LEMMA RunLemma ==
    ASSUME NEW r \in RunType
    PROVE  /\ \A L \in SUBSET Lines :
                 LET t == [r EXCEPT !.lines = L]
                 IN  t \in RunType /\ t.startdate = r.startdate /\ t.lines = L
           /\ \A i \in Pids \cup {NoFile} :
                 LET t == [r EXCEPT !.inode = i]
                 IN  t \in RunType /\ t.startdate = r.startdate /\ t.lines = r.lines
BY DEF RunType

\* Each step of a run has one of these effects.
LEMMA EffectStep ==
    ASSUME ParserInv, NEW p \in Pids, Start(p) \/ Crash(p) \/ Step(p)
    PROVE  RunEffect(p)
<1> USE DEF ParserInv, TypeOK, At, Goto, PCs, Early
<1>0. run \in [Pids -> RunType] /\ run[p] \in RunType
  BY DEF RunType
<1>1. CASE \/ Crash(p) \/ ReadFails(p) \/ PostFails(p) \/ Unlock(p)
  BY <1>1 DEF Crash, ReadFails, PostFails, Unlock, End, RunEffect, Ends, outside, files
<1>2. ASSUME NEW from \in Early, NEW to \in Early,
             pc[p] = from, pc' = [pc EXCEPT ![p] = to],
             run' = run, UNCHANGED <<now, logged, first, lastcount>>
      PROVE  RunEffect(p)
  <2>1. run' = [run EXCEPT ![p] = run[p]]
    BY <1>0, <1>2
  <2> QED BY <1>0, <1>2, <2>1 DEF RunEffect, Moves
<1>3. CASE Start(p) \/ TestLock(p)
  BY <1>2, <1>3 DEF Start, TestLock, outside, files
<1>4. CASE CheckLock(p)
  <2>1. CASE End(p)
    BY <1>4, <2>1 DEF CheckLock, End, RunEffect, Ends, outside, files
  <2>2. CASE ~End(p)
    BY <1>2, <1>4, <2>2 DEF CheckLock, outside, files
  <2> QED BY <2>1, <2>2
<1>5. CASE RemoveStale(p)
  <2>1. CASE End(p)
    BY <1>5, <2>1 DEF RemoveStale, End, RunEffect, Ends, outside
  <2>2. CASE ~End(p)
    BY <1>2, <1>5, <2>2 DEF RemoveStale, outside
  <2> QED BY <2>1, <2>2
<1>6. CASE CreateLock(p) \/ WritePid(p)
  <2>1. PICK i \in Pids \cup {NoFile} : run' = [run EXCEPT ![p].inode = i]
    BY <1>6 DEF CreateLock, WritePid
  <2> DEFINE t == [run[p] EXCEPT !.inode = i]
  <2>2. t \in RunType /\ t.startdate = run[p].startdate /\ t.lines = run[p].lines
    BY <1>0, RunLemma
  <2>3. run' = [run EXCEPT ![p] = t]
    BY <2>1
  <2> HIDE DEF t
  <2>4. /\ pc[p] \in Early /\ \E label \in Early : pc' = [pc EXCEPT ![p] = label]
        /\ UNCHANGED <<now, logged, first, lastcount>>
    BY <1>6 DEF CreateLock, WritePid, outside
  <2> QED BY <2>2, <2>3, <2>4 DEF RunEffect, Moves
<1>7. CASE ReadLast(p)
  <2> DEFINE d == IF lastcount < now - Window THEN now - Window ELSE lastcount
             t == [run[p] EXCEPT !.startdate = d, !.skip = skipvalue]
  <2>1. d \in Int
    BY ParserAssumption
  <2>2. run' = [run EXCEPT ![p] = t]
    BY <1>7 DEF ReadLast
  <2> HIDE DEF d
  <2>3. t \in RunType /\ t.startdate = d /\ t.lines = run[p].lines
    <3>1. skipvalue \in 1..maxlines + 1
      OBVIOUS
    <3> HIDE DEF ParserInv, TypeOK
    <3>2. PICK r \in RunType : r = run[p]
      BY <1>0
    <3>3. PICK s \in 1..maxlines + 1 : s = skipvalue
      BY <3>1
    <3>4. PICK e \in Int : e = d
      BY <2>1
    <3>5. t = [r EXCEPT !.startdate = e, !.skip = s]
      BY <3>2, <3>3, <3>4
    <3> HIDE DEF t
    <3>6. t \in RunType /\ t.startdate = e /\ t.lines = r.lines
      BY <3>5 DEF RunType
    <3> QED BY <3>2, <3>4, <3>6
  <2> HIDE DEF t
  <2> QED BY <1>7, <2>2, <2>3 DEF ReadLast, RunEffect, Dates, d, outside, files
<1>8. CASE ReadLog(p)
  <2> DEFINE t == [run[p] EXCEPT !.lines = Counted(p)]
  <2>1. Counted(p) \in SUBSET Lines
    <3>1. first \in Nat \ {0} /\ Len(logged) \in Nat /\ Len(logged) <= MaxEntries
      BY LenProperties
    <3> QED BY <3>1, CountedLemma, ParserAssumption DEF Lines
  <2>2. run' = [run EXCEPT ![p] = t]
    BY <1>8 DEF ReadLog
  <2>3. t \in RunType /\ t.startdate = run[p].startdate /\ t.lines = Counted(p)
    BY <1>0, <2>1, RunLemma
  <2> HIDE DEF t
  <2> QED BY <1>8, <2>2, <2>3 DEF ReadLog, RunEffect, Reads, outside, files
<1>9. CASE EmptyLast(p) \/ SaveLast(p) \/ Post(p)
  <2>1. run' = [run EXCEPT ![p] = run[p]]
    BY <1>0, <1>9 DEF EmptyLast, SaveLast, Post
  <2> QED
    BY <1>0, <1>9, <2>1 DEF EmptyLast, SaveLast, Post, RunEffect, Moves, outside, files
<1> QED
  BY <1>1, <1>3, <1>4, <1>5, <1>6, <1>7, <1>8, <1>9 DEF Step

\* What is done outside the runs.
OutsideEffect ==
    /\ UNCHANGED <<lastcount, pc, run>>
    /\ \/ UNCHANGED <<now, logged, first>>
       \/ now' = now + 1 /\ now' <= MaxTime /\ UNCHANGED <<logged, first>>
       \/ /\ logged' = Append(logged, now)
          /\ Len(logged) < MaxEntries
          /\ UNCHANGED <<now, first>>
       \/ first' = Len(logged) + 1 /\ UNCHANGED <<now, logged>>

\* Each step is one of a run or one outside.
LEMMA StepKinds ==
    ASSUME ParserInv, [Next]_vars
    PROVE  OutsideEffect \/ \E p \in Pids : RunEffect(p)
<1>1. CASE Tick
  BY <1>1, ParserAssumption DEF Tick, OutsideEffect, files, ParserInv, TypeOK
<1>2. CASE LogPacket \/ Rotate \/ StartEmpty \/ UNCHANGED vars
  BY <1>2 DEF LogPacket, Rotate, StartEmpty, OutsideEffect, files, vars
<1>3. ASSUME NEW p \in Pids, Start(p) \/ Crash(p) \/ Step(p) PROVE RunEffect(p)
  BY <1>3, EffectStep
<1> QED BY <1>1, <1>2, <1>3 DEF Next

\* The log only grows, and what is in it stays there.
LEMMA LogGrows ==
    ASSUME ParserInv, OutsideEffect \/ \E p \in Pids : RunEffect(p)
    PROVE  /\ Len(logged) \in Nat /\ Len(logged') \in Nat
           /\ Len(logged) <= Len(logged') /\ Len(logged') <= MaxEntries
           /\ \A i \in 1..Len(logged) : logged'[i] = logged[i]
           /\ \A i \in 1..Len(logged') :
                 \/ i \in 1..Len(logged)
                 \/ i = Len(logged) + 1 /\ logged'[i] = now /\ now' = now
           /\ logged' \in Seq(1..MaxTime)
           /\ now' >= now /\ now' \in 1..MaxTime
           /\ \A i \in 1..Len(logged') : logged'[i] \in 1..MaxTime
<1> USE DEF ParserInv, TypeOK
<1>1. Len(logged) \in Nat /\ now \in 1..MaxTime /\ MaxTime \in Nat /\ MaxEntries \in Nat
  BY LenProperties, ParserAssumption
<1>2. \A i \in 1..Len(logged) : logged[i] \in 1..MaxTime
  BY ElementOfSeq
<1>3. CASE logged' = Append(logged, now) /\ Len(logged) < MaxEntries /\ now' = now
  <2>1. /\ logged' \in Seq(1..MaxTime)
        /\ Len(logged') = Len(logged) + 1
        /\ \A i \in 1..Len(logged) : logged'[i] = logged[i]
        /\ logged'[Len(logged) + 1] = now
    BY <1>1, <1>3, AppendProperties
  <2>2. \A i \in 1..Len(logged') : i \in 1..Len(logged) \/ i = Len(logged) + 1
    BY <1>1, <2>1
  <2> HIDE DEF ParserInv, TypeOK
  <2>3. \A i \in 1..Len(logged') :
           \/ i \in 1..Len(logged)
           \/ i = Len(logged) + 1 /\ logged'[i] = now /\ now' = now
    BY <1>3, <2>1, <2>2
  <2>4. \A i \in 1..Len(logged') : logged'[i] \in 1..MaxTime
    BY <1>1, <1>2, <2>1, <2>3
  <2>5. /\ Len(logged') \in Nat /\ Len(logged) <= Len(logged')
        /\ Len(logged') <= MaxEntries /\ now' >= now /\ now' \in 1..MaxTime
    BY <1>1, <1>3, <2>1
  <2> QED BY <1>1, <2>1, <2>3, <2>4, <2>5
<1>4. CASE logged' = logged /\ now' >= now /\ now' \in 1..MaxTime
  <2>1. logged \in Seq(1..MaxTime) /\ Len(logged) <= MaxEntries
    OBVIOUS
  <2> HIDE DEF ParserInv, TypeOK
  <2> QED BY <1>1, <1>2, <1>4, <2>1
<1>5. \/ logged' = Append(logged, now) /\ Len(logged) < MaxEntries /\ now' = now
      \/ logged' = logged /\ now' >= now /\ now' \in 1..MaxTime
  BY <1>1 DEF OutsideEffect, RunEffect
<1> QED BY <1>3, <1>4, <1>5

\* ParserInv holds initially.
LEMMA ParserInit == Init => ParserInv
<1> SUFFICES ASSUME Init PROVE ParserInv
  OBVIOUS
<1> USE ParserAssumption DEF Init
<1>1. logged \in Seq(1..MaxTime) /\ Len(logged) = 0
  BY EmptySeq
<1>2. NoRun \in RunType /\ NoRun.lines = {}
  BY DEF NoRun, RunType
<1>3. run \in [Pids -> RunType] /\ pc \in [Pids -> PCs]
  BY <1>2 DEF PCs
<1>4. /\ now \in 1..MaxTime /\ first \in 1..MaxEntries + 1 /\ lastcount \in Int
      /\ skipvalue \in 1..maxlines + 1 /\ crashes \in 0..MaxCrashes
      /\ Len(logged) <= MaxEntries
  BY <1>1
<1>5. TypeOK
  BY <1>1, <1>3, <1>4 DEF TypeOK, RunType
<1> QED BY <1>1, <1>2, <1>5 DEF ParserInv, LogOrdered, LinesLogged

\* Every step preserves ParserInv: the saved date is that of a line because a run
\* has only counted lines of the log.
LEMMA ParserStep == ASSUME ParserInv, [Next]_vars PROVE ParserInv'
<1>0. /\ TypeOK /\ LogOrdered /\ LinesLogged
      /\ run \in [Pids -> RunType]
  BY DEF ParserInv, TypeOK, RunType
<1>1. OutsideEffect \/ \E p \in Pids : RunEffect(p)
  BY StepKinds
<1> DEFINE Grown == /\ Len(logged) \in Nat /\ Len(logged') \in Nat
                    /\ Len(logged) <= Len(logged') /\ Len(logged') <= MaxEntries
                    /\ \A i \in 1..Len(logged) : logged'[i] = logged[i]
                    /\ \A i \in 1..Len(logged') :
                          \/ i \in 1..Len(logged)
                          \/ i = Len(logged) + 1 /\ logged'[i] = now /\ now' = now
                    /\ logged' \in Seq(1..MaxTime)
                    /\ now' >= now /\ now' \in 1..MaxTime
<1>2. Grown
  BY <1>1, LogGrows
<1>3. LogOrdered'
  <2>1. now \in Int /\ now' \in Int
    BY <1>0, <1>2, ParserAssumption DEF TypeOK
  <2>2. \A i \in 1..Len(logged) : logged[i] \in Int
    BY <1>0, ElementOfSeq, ParserAssumption DEF TypeOK
  <2>3. \A i \in 1..Len(logged') : logged'[i] <= now'
    BY <1>0, <1>2, <2>1, <2>2 DEF LogOrdered
  <2>4. ASSUME NEW i \in 1..Len(logged'), NEW j \in 1..Len(logged'), i <= j
        PROVE  logged'[i] <= logged'[j]
    <3>1. CASE j \in 1..Len(logged)
      <4>1. i \in 1..Len(logged)
        BY <1>2, <2>4, <3>1
      <4> QED BY <1>0, <1>2, <2>4, <3>1, <4>1 DEF LogOrdered
    <3>2. CASE j = Len(logged) + 1 /\ logged'[j] = now /\ now' = now
      BY <2>3, <3>2
    <3> QED BY <1>2, <3>1, <3>2
  <2> QED BY <2>3, <2>4 DEF LogOrdered
<1>4. LinesLogged'
  <2>1. 1..Len(logged) \subseteq 1..Len(logged')
    BY <1>2
  <2>2. CASE OutsideEffect
    BY <1>0, <2>1, <2>2 DEF OutsideEffect, LinesLogged
  <2>3. ASSUME NEW p \in Pids, RunEffect(p) PROVE LinesLogged'
    <3>1. Counted(p) \subseteq 1..Len(logged)
      <4>1. first \in Nat \ {0}
        BY <1>0, ParserAssumption DEF TypeOK
      <4> QED BY <1>2, <4>1, CountedLemma
    <3>2. \A q \in Pids : q # p => run'[q] = run[q]
      BY <1>0, <2>3 DEF RunEffect, Ends, Moves, Dates, Reads
    <3>3. run'[p].lines \in {{}, run[p].lines, Counted(p)}
      BY <1>0, <2>3 DEF RunEffect, Ends, Moves, Dates, Reads, NoRun
    <3> QED BY <1>0, <2>1, <3>1, <3>2, <3>3 DEF LinesLogged
  <2> QED BY <1>1, <2>2, <2>3
<1>5. /\ pc' \in [Pids -> PCs] /\ run' \in [Pids -> RunType]
      /\ lastcount' \in Int /\ first' \in 1..MaxEntries + 1
  <2>1. CASE OutsideEffect
    BY <1>0, <1>2, <2>1, ParserAssumption DEF OutsideEffect, TypeOK
  <2>2. ASSUME NEW p \in Pids, RunEffect(p)
        PROVE  /\ pc' \in [Pids -> PCs] /\ run' \in [Pids -> RunType]
               /\ lastcount' \in Int /\ first' = first
    <3>1. NoRun \in RunType
      BY ParserAssumption DEF NoRun, RunType
    <3>2. pc' \in [Pids -> PCs] /\ run' \in [Pids -> RunType] /\ first' = first
      <4>1. pc \in [Pids -> PCs]
        BY <1>0 DEF TypeOK
      <4>2. PICK label \in PCs : pc' = [pc EXCEPT ![p] = label]
        BY <2>2 DEF RunEffect, Ends, Moves, Dates, Reads, Early, PCs
      <4>3. PICK r \in RunType : run' = [run EXCEPT ![p] = r]
        BY <2>2, <3>1 DEF RunEffect, Ends, Moves, Dates, Reads
      <4> QED BY <1>0, <2>2, <4>1, <4>2, <4>3 DEF RunEffect
    <3>3. run[p].lines # {} => logged[Max(run[p].lines)] \in Int
      <4> SUFFICES ASSUME run[p].lines # {} PROVE logged[Max(run[p].lines)] \in Int
        OBVIOUS
      <4>1. run[p].lines \in SUBSET (1..Len(logged)) /\ Len(logged) \in Nat
        BY <1>0, <1>2 DEF LinesLogged
      <4>2. Max(run[p].lines) \in 1..Len(logged)
        BY <4>1, MaxLemma
      <4> QED BY <1>0, <4>2, ElementOfSeq, ParserAssumption DEF TypeOK
    <3>4. lastcount \in Int /\ run[p].startdate \in Int
      BY <1>0 DEF TypeOK, RunType
    <3>5. lastcount' \in {lastcount, 0}
             \/ lastcount' = IF run[p].lines = {} THEN run[p].startdate
                                                 ELSE logged[Max(run[p].lines)]
      BY <2>2 DEF RunEffect, Ends, Dates, Reads
    <3> QED BY <3>2, <3>3, <3>4, <3>5
  <2> QED BY <1>0, <1>1, <2>1, <2>2 DEF TypeOK
<1>6. /\ \/ pidfile' = NoFile
         \/ pidfile' \in [inode : Pids, content : Pids \cup {Empty}]
      /\ skipvalue' \in 1..maxlines + 1
      /\ rotating' \in BOOLEAN
      /\ crashes' \in 0..MaxCrashes
  <2> DEFINE Rest == /\ \/ pidfile' = NoFile
                        \/ pidfile' \in [inode : Pids, content : Pids \cup {Empty}]
                     /\ skipvalue' \in 1..maxlines + 1
                     /\ rotating' \in BOOLEAN
                     /\ crashes' \in 0..MaxCrashes
  <2> USE ParserAssumption DEF TypeOK
  <2>1. CASE Tick \/ LogPacket \/ Rotate \/ StartEmpty \/ UNCHANGED vars
    BY <1>0, <2>1 DEF Tick, LogPacket, Rotate, StartEmpty, vars, files
  <2>2. ASSUME NEW p \in Pids, Crash(p) PROVE Rest
    BY <1>0, <2>2 DEF Crash, outside, files
  <2>3. ASSUME NEW p \in Pids, SaveLast(p) PROVE Rest
    <3>1. run[p].skip \in 1..maxlines + 1
      BY <1>0 DEF RunType
    <3>2. Skip(p) \in 1..maxlines + 1
      BY <3>1 DEF Skip
    <3> QED BY <1>0, <2>3, <3>2 DEF SaveLast, outside
  <2>4. ASSUME NEW p \in Pids, Start(p) \/ (Step(p) /\ ~SaveLast(p)) PROVE Rest
    <3>1. CASE RemoveStale(p) \/ Unlock(p)
      BY <1>0, <3>1 DEF RemoveStale, Unlock, outside
    <3>2. CASE CreateLock(p)
      BY <1>0, <3>2 DEF CreateLock, outside
    <3>3. CASE WritePid(p)
      BY <1>0, <3>3 DEF WritePid, outside
    <3>4. CASE UNCHANGED <<files, rotating, crashes>>
      BY <1>0, <3>4 DEF files
    <3>5. CASE EmptyLast(p)
      BY <1>0, <3>5 DEF EmptyLast, outside
    <3> QED BY <2>4, <3>1, <3>2, <3>3, <3>4, <3>5
        DEF Start, Step, TestLock, CheckLock, ReadLast, ReadLog, ReadFails, Post,
            PostFails, outside, files
  <2> QED BY <2>1, <2>2, <2>3, <2>4 DEF Next
<1>7. TypeOK'
  BY <1>2, <1>5, <1>6 DEF TypeOK, RunType
<1> QED BY <1>3, <1>4, <1>7 DEF ParserInv

\* The state is typed, the dates that are saved and read included.
THEOREM ParserTypes == Spec => []TypeOK
<1>1. ParserInv => TypeOK
  BY DEF ParserInv
<1> QED BY <1>1, ParserInit, ParserStep, PTL DEF Spec

-----------------------------------------------------------------------------
(* No line is skipped.                                                     *)

\* Every line up to date d is one that was counted, of the second of one that was,
\* or too old.
Covered(d) ==
    \A i \in first..Len(logged) :
        logged[i] <= d =>
            \/ \E k \in counted : logged[k] = logged[i]
            \/ logged[i] <= now - Window

\* No line is still to come that d would cover: d is the date of a counted line, or
\* too old.
Dated(d) == d <= 0 \/ d <= now - Window \/ \E k \in counted : logged[k] = d

Reached == {d \in Int : Covered(d) /\ Dated(d)}

\* All dates in the program are such dates, those in the variables of runs that may
\* still save them included.
SkipInv ==
    /\ counted \subseteq 1..Len(logged)
    /\ lastcount \in Reached
    /\ \A p \in Pids :
          /\ run[p].lines \subseteq counted
          /\ run[p].startdate \in Reached
          /\ run[p].lines # {} => logged[Max(run[p].lines)] \in Reached

AnyEffect == OutsideEffect \/ \E p \in Pids : RunEffect(p)

\* A date that is reached stays so while the log grows, the clock runs and the log
\* is moved away.
LEMMA ReachedStays ==
    ASSUME ParserInv, AnyEffect,
           counted \subseteq 1..Len(logged), counted \subseteq counted',
           NEW d \in Reached
    PROVE  d \in Reached'
<1>0. /\ now \in 1..MaxTime /\ MaxTime \in Nat /\ Window \in Nat
      /\ first \in Nat \ {0} /\ LogOrdered
      /\ \A i \in 1..Len(logged) : logged[i] \in Int
      /\ d \in Int
  BY ElementOfSeq, ParserAssumption DEF ParserInv, TypeOK, Reached
<1>1. /\ Len(logged) \in Nat /\ Len(logged') \in Nat /\ Len(logged) <= Len(logged')
      /\ \A i \in 1..Len(logged) : logged'[i] = logged[i]
      /\ \A i \in 1..Len(logged') :
            \/ i \in 1..Len(logged)
            \/ i = Len(logged) + 1 /\ logged'[i] = now /\ now' = now
      /\ now' >= now /\ now' \in 1..MaxTime
  BY LogGrows DEF AnyEffect
<1>2. first' = first \/ (first' = Len(logged) + 1 /\ logged' = logged)
  BY <1>0, <1>1 DEF AnyEffect, OutsideEffect, RunEffect
<1>3. Dated(d)'
  <2>1. d <= 0 \/ d <= now - Window \/ \E k \in counted : logged[k] = d
    BY DEF Reached, Dated
  <2>2. CASE d <= 0 \/ d <= now - Window
    <3>1. now \in Int /\ now' \in Int
      BY <1>0, <1>1
    <3>2. d \in Int /\ Window \in Int /\ now' >= now
      BY <1>0, <1>1
    <3>3. \A e, w, m, n \in Int : e <= m - w /\ n >= m => e <= n - w
      OBVIOUS
    <3>4. d <= now - Window => d <= now' - Window
      BY <3>1, <3>2, <3>3
    <3> QED BY <2>2, <3>4 DEF Dated
  <2>3. CASE \E k \in counted : logged[k] = d
    BY <1>1, <2>3 DEF Dated
  <2> QED BY <2>1, <2>2, <2>3
<1>4. ASSUME NEW i \in first'..Len(logged'), logged'[i] <= d
      PROVE  \/ \E k \in counted' : logged'[k] = logged'[i]
             \/ logged'[i] <= now' - Window
  <2>1. i \in first..Len(logged') /\ i \in 1..Len(logged')
    BY <1>0, <1>1, <1>2
  <2>2. CASE i \in 1..Len(logged)
    <3>1. i \in first..Len(logged) /\ logged[i] <= d
      BY <1>1, <1>4, <2>1, <2>2
    <3>2. CASE \E k \in counted : logged[k] = logged[i]
      BY <1>1, <2>2, <3>2
    <3>3. CASE logged[i] <= now - Window
      BY <1>0, <1>1, <2>2, <3>3
    <3> QED BY <3>1, <3>2, <3>3 DEF Reached, Covered
  <2>3. CASE i = Len(logged) + 1 /\ logged'[i] = now /\ now' = now
    <3>1. now <= d
      BY <1>4, <2>3
    <3>2. CASE d <= 0 \/ d <= now - Window
      BY <1>0, <2>3, <3>1, <3>2
    <3>3. ASSUME NEW k \in counted, logged[k] = d
          PROVE  k \in counted' /\ logged'[k] = logged'[i]
      BY <1>0, <1>1, <2>3, <3>1, <3>3 DEF LogOrdered
    <3> QED BY <3>2, <3>3 DEF Reached, Dated
  <2> QED BY <1>1, <2>1, <2>2, <2>3
<1>5. Covered(d)'
  BY <1>4 DEF Covered
<1> QED BY <1>0, <1>3, <1>5 DEF Reached

\* The last line that a run counts is reached: the lines before it are counted too,
\* or were covered by the start date.
LEMMA ReadsReached ==
    ASSUME ParserInv, counted \subseteq 1..Len(logged),
           UNCHANGED <<now, logged, first>>, counted \subseteq counted',
           NEW p \in Pids, run[p].startdate \in Reached,
           Counted(p) # {}, Counted(p) \subseteq counted',
           NEW d \in Int, d = logged[Max(Counted(p))]
    PROVE  d \in Reached'
<1> DEFINE m == Max(Counted(p))
<1>0. /\ first \in Nat \ {0} /\ Len(logged) \in Nat /\ LogOrdered
      /\ \A i \in 1..Len(logged) : logged[i] \in Int
      /\ run[p].startdate \in Int
  BY ElementOfSeq, LenProperties, ParserAssumption DEF ParserInv, TypeOK
<1>1. /\ Counted(p) \subseteq first..Len(logged)
      /\ \A i \in first..Len(logged) :
            \A n \in Counted(p) : i <= n /\ logged[i] > run[p].startdate => i \in Counted(p)
  BY CountedLemma
<1>2. Counted(p) \in SUBSET (1..Len(logged))
  BY <1>0, <1>1
<1>3. m \in Counted(p) /\ m \in 1..Len(logged)
  BY <1>0, <1>2, MaxLemma
<1> HIDE DEF m
<1>4. ASSUME NEW i \in first..Len(logged), logged[i] <= d
      PROVE  \/ \E k \in counted' : logged[k] = logged[i]
             \/ logged[i] <= now - Window
  <2>1. i \in 1..Len(logged)
    BY <1>0
  <2>2. CASE i > m
    <3>1. logged[i] = logged[m]
      BY <1>0, <1>3, <1>4, <2>1, <2>2 DEF LogOrdered, m
    <3> QED BY <1>3, <3>1
  <2>3. CASE i <= m /\ logged[i] > run[p].startdate
    BY <1>1, <1>3, <2>3
  <2>4. CASE logged[i] <= run[p].startdate
    BY <2>4 DEF Reached, Covered
  <2> QED BY <1>0, <1>3, <2>1, <2>2, <2>3, <2>4
<1>5. Covered(d)'
  BY <1>4 DEF Covered
<1>6. Dated(d)'
  BY <1>3 DEF Dated, m
<1> QED BY <1>5, <1>6 DEF Reached

\* Dates that are reached by what they are.
LEMMA ReachedDates ==
    ASSUME ParserInv
    PROVE  0 \in Reached /\ now - Window \in Reached
<1>1. \A i \in first..Len(logged) : logged[i] \in 1..MaxTime
  BY ElementOfSeq, LenProperties, ParserAssumption DEF ParserInv, TypeOK
<1>2. now \in Int /\ Window \in Nat /\ MaxTime \in Nat
  BY ParserAssumption DEF ParserInv, TypeOK
<1>3. \A i \in first..Len(logged) : ~(logged[i] <= 0)
  BY <1>1, <1>2
<1> QED BY <1>2, <1>3 DEF Reached, Covered, Dated

\* The run's own record after a step.
LEMMA OwnRun ==
    ASSUME ParserInv, NEW p \in Pids, RunEffect(p)
    PROVE  /\ \A q \in Pids : q # p => run'[q] = run[q] /\ pc'[q] = pc[q]
           /\ Counted(p) \subseteq 1..Len(logged)
           /\ \/ run'[p].lines = {}
              \/ run'[p].lines = run[p].lines
              \/ Reads(p) /\ run'[p].lines = Counted(p)
           /\ \/ run'[p].startdate = 0
              \/ run'[p].startdate = run[p].startdate
              \/ run'[p].startdate \in {lastcount, now - Window}
           /\ \/ lastcount' = lastcount
              \/ lastcount' = 0
              \/ lastcount' = IF run[p].lines = {} THEN run[p].startdate
                                                  ELSE logged[Max(run[p].lines)]
<1>1. run \in [Pids -> RunType] /\ pc \in [Pids -> PCs]
  BY DEF ParserInv, TypeOK, RunType
<1>2. \A q \in Pids : q # p => run'[q] = run[q] /\ pc'[q] = pc[q]
  BY <1>1 DEF RunEffect, Ends, Moves, Dates, Reads
<1>3. Counted(p) \subseteq 1..Len(logged)
  <2>1. first \in Nat \ {0} /\ Len(logged) \in Nat
    BY LenProperties, ParserAssumption DEF ParserInv, TypeOK
  <2> QED BY <2>1, CountedLemma
<1>4. \/ run'[p].lines = {}
      \/ run'[p].lines = run[p].lines
      \/ Reads(p) /\ run'[p].lines = Counted(p)
  BY <1>1 DEF RunEffect, Ends, Moves, Dates, Reads, NoRun
<1>5. \/ run'[p].startdate = 0
      \/ run'[p].startdate = run[p].startdate
      \/ run'[p].startdate \in {lastcount, now - Window}
  BY <1>1 DEF RunEffect, Ends, Moves, Dates, Reads, NoRun
<1>6. \/ lastcount' = lastcount
      \/ lastcount' = 0
      \/ lastcount' = IF run[p].lines = {} THEN run[p].startdate
                                          ELSE logged[Max(run[p].lines)]
  BY DEF RunEffect, Ends, Dates, Reads
<1> QED BY <1>2, <1>3, <1>4, <1>5, <1>6

\* SkipInv holds initially.
LEMMA SkipInit == HistoryInit => SkipInv
<1> SUFFICES ASSUME HistoryInit PROVE SkipInv
  OBVIOUS
<1>1. ParserInv
  BY ParserInit DEF HistoryInit
<1>2. 0 \in Reached
  BY <1>1, ReachedDates
<1>3. lastcount = 0 /\ counted = {}
      /\ \A p \in Pids : run[p].startdate = 0 /\ run[p].lines = {}
  BY DEF HistoryInit, Init, NoRun
<1> QED BY <1>2, <1>3 DEF SkipInv

\* Every step preserves SkipInv: a run saves only dates that are reached.
LEMMA SkipStep ==
    ASSUME ParserInv, ParserInv', SkipInv, [HistoryNext]_<<vars, history>>
    PROVE  SkipInv'
<1>0. AnyEffect
  BY StepKinds DEF HistoryNext, AnyEffect, vars
<1>1. /\ counted \subseteq counted' /\ run \in [Pids -> RunType]
      /\ \A p \in Pids : run'[p].lines \subseteq counted'
      /\ counted' = counted \cup UNION {run'[p].lines : p \in Pids}
  <2>1. run \in [Pids -> RunType]
    BY DEF ParserInv, TypeOK, RunType
  <2>2. CASE HistoryNext
    BY <2>1, <2>2 DEF HistoryNext
  <2>3. CASE UNCHANGED <<vars, history>>
    BY <2>1, <2>3 DEF vars, history, SkipInv
  <2> QED BY <2>1, <2>2, <2>3
<1>2. /\ Len(logged) \in Nat /\ Len(logged') \in Nat /\ Len(logged) <= Len(logged')
      /\ \A i \in 1..Len(logged) : logged'[i] = logged[i]
  BY <1>0, LogGrows DEF AnyEffect
<1>3. counted' \subseteq 1..Len(logged')
  <2>1. 1..Len(logged) \subseteq 1..Len(logged')
    BY <1>2
  <2>2. \A p \in Pids : run'[p].lines \subseteq 1..Len(logged')
    BY DEF ParserInv, LinesLogged
  <2>3. counted \subseteq 1..Len(logged)
    BY DEF SkipInv
  <2> QED BY <1>1, <2>1, <2>2, <2>3
<1>4. counted \subseteq 1..Len(logged)
  BY DEF SkipInv
<1>5. Reached \subseteq Reached'
  BY <1>0, <1>1, <1>4, ReachedStays
<1>6. ASSUME NEW p \in Pids
      PROVE  /\ run[p].startdate \in Int
             /\ run[p].lines # {} => /\ Max(run[p].lines) \in 1..Len(logged)
                                     /\ logged[Max(run[p].lines)] \in Int
  <2>1. run[p].startdate \in Int
    BY <1>1 DEF RunType
  <2>2. ASSUME run[p].lines # {}
        PROVE  /\ Max(run[p].lines) \in 1..Len(logged)
               /\ logged[Max(run[p].lines)] \in Int
    <3>1. run[p].lines \in SUBSET (1..Len(logged))
      BY DEF ParserInv, LinesLogged
    <3>2. Max(run[p].lines) \in 1..Len(logged)
      BY <1>2, <2>2, <3>1, MaxLemma
    <3> QED BY <3>2, ElementOfSeq, ParserAssumption DEF ParserInv, TypeOK
  <2> QED BY <2>1, <2>2
<1>7. lastcount \in Int /\ now - Window \in Int
  BY ParserAssumption DEF ParserInv, TypeOK
<1>8. 0 \in Reached /\ now - Window \in Reached
  BY ReachedDates
<1>9. ASSUME NEW p \in Pids, run'[p] = run[p]
      PROVE  /\ run'[p].startdate \in Reached'
             /\ run'[p].lines # {} => logged'[Max(run'[p].lines)] \in Reached'
  BY <1>2, <1>5, <1>6, <1>9 DEF SkipInv
<1>10. CASE OutsideEffect
  <2>1. lastcount' = lastcount /\ run' = run
    BY <1>10 DEF OutsideEffect
  <2> QED BY <1>1, <1>3, <1>5, <1>7, <1>9, <2>1 DEF SkipInv
<1>11. ASSUME NEW p \in Pids, RunEffect(p) PROVE SkipInv'
  <2>0. UNCHANGED <<now, logged, first>>
    BY <1>11 DEF RunEffect
  <2>1. /\ \A q \in Pids : q # p => run'[q] = run[q]
        /\ Counted(p) \subseteq 1..Len(logged)
        /\ \/ run'[p].lines = {}
           \/ run'[p].lines = run[p].lines
           \/ Reads(p) /\ run'[p].lines = Counted(p)
        /\ \/ run'[p].startdate = 0
           \/ run'[p].startdate = run[p].startdate
           \/ run'[p].startdate \in {lastcount, now - Window}
        /\ \/ lastcount' = lastcount
           \/ lastcount' = 0
           \/ lastcount' = IF run[p].lines = {} THEN run[p].startdate
                                               ELSE logged[Max(run[p].lines)]
    BY <1>11, OwnRun
  <2>2. lastcount' \in Reached'
    BY <1>5, <1>8, <2>1 DEF SkipInv
  <2>3. run'[p].startdate \in Reached'
    BY <1>5, <1>8, <2>1 DEF SkipInv
  <2>4. ASSUME run'[p].lines # {} PROVE logged'[Max(run'[p].lines)] \in Reached'
    <3>1. CASE run'[p].lines = run[p].lines
      BY <1>5, <2>0, <2>4, <3>1 DEF SkipInv
    <3>2. CASE run'[p].lines = Counted(p)
      <4>1. Max(Counted(p)) \in 1..Len(logged)
        BY <1>2, <2>1, <2>4, <3>2, MaxLemma
      <4>2. PICK d \in Int : d = logged[Max(Counted(p))]
        BY <4>1, ElementOfSeq, ParserAssumption DEF ParserInv, TypeOK
      <4>3. d \in Reached'
        BY <1>1, <1>4, <2>0, <2>4, <3>2, <4>2, ReadsReached DEF SkipInv
      <4> QED BY <2>0, <3>2, <4>2, <4>3
    <3> QED BY <2>1, <2>4, <3>1, <3>2
  <2> QED BY <1>1, <1>3, <1>9, <2>1, <2>2, <2>3, <2>4 DEF SkipInv
<1> QED BY <1>0, <1>10, <1>11 DEF AnyEffect

\* The saved date never runs past a line that no run has counted, unless the line is
\* of the second of one that was, or too old: whichever runs overlap, stop at
\* maxlines or are killed.
THEOREM SkipsNone == HistorySpec => []NoneSkipped
<1>1. HistoryInit => ParserInv /\ SkipInv
  BY ParserInit, SkipInit DEF HistoryInit
<1>2. ParserInv /\ SkipInv /\ [HistoryNext]_<<vars, history>> => ParserInv' /\ SkipInv'
  <2>1. [HistoryNext]_<<vars, history>> => [Next]_vars
    BY DEF HistoryNext
  <2> QED BY <2>1, ParserStep, SkipStep
<1>3. SkipInv => NoneSkipped
  BY DEF SkipInv, Reached, Covered, NoneSkipped
<1> QED BY <1>1, <1>2, <1>3, PTL DEF HistorySpec

-----------------------------------------------------------------------------
(* No line is sent twice.                                                  *)

\* At most one run holds the pid file.
Alone == \A p, q \in Pids : pc[p] \in Inside /\ pc[q] \in Inside => p = q

\* What the backend has got is before the saved date, except while a run saves it.
Saved == (\A p \in Pids : pc[p] # "save") => \A k \in posted : logged[k] <= lastcount

\* What a run posts comes after its start date, and that after what the backend has.
Unsent(p) ==
    /\ pc[p] \in {"read", "empty", "save"} => \A k \in posted : logged[k] <= run[p].startdate
    /\ pc[p] \in {"empty", "save"} => \A k \in run[p].lines : logged[k] > run[p].startdate
    /\ pc[p] = "post" => \A k \in run[p].lines : k \notin posted /\ logged[k] <= lastcount

SentInv ==
    /\ posted \subseteq 1..Len(logged)
    /\ ~overlapped /\ ~torn =>
          twice = {} /\ Alone /\ Saved /\ \A p \in Pids : Unsent(p)

\* What a step of a run p adds to what the backend has: lines of that run, if its
\* post ends.
Delivers(p) ==
    \/ posted' = posted /\ twice' = twice
    \/ /\ pc[p] = "post"
       /\ \E S \in SUBSET run[p].lines :
             posted' = posted \cup S /\ twice' = twice \cup (posted \cap S)

\* The history variables in a step.
LEMMA HistoryEffect ==
    ASSUME ParserInv, [HistoryNext]_<<vars, history>>
    PROVE  /\ OutsideEffect => posted' = posted /\ twice' = twice
           /\ \A p \in Pids : RunEffect(p) => Delivers(p)
           /\ ~overlapped' /\ ~torn' => ~overlapped /\ ~torn
           /\ \A p \in Pids : ~torn' /\ pc[p] = "save" => pc'[p] # "idle"
           /\ ~overlapped' /\ Alone => Alone'
<1>0. pc \in [Pids -> PCs] /\ IsFiniteSet(Pids)
  BY ParserAssumption DEF ParserInv, TypeOK
<1>1. CASE UNCHANGED <<vars, history>>
  <2>1. pc' = pc /\ UNCHANGED history
    BY <1>1 DEF vars
  <2> QED BY <2>1 DEF history, Delivers, Alone
<1>2. CASE HistoryNext
  <2> DEFINE U == UNION {Logs(p) : p \in Posting}
  <2>1. PICK S \in {{}, U} : posted' = posted \cup S /\ twice' = twice \cup (posted \cap S)
    BY <1>2 DEF HistoryNext
  <2>2. ASSUME OutsideEffect PROVE posted' = posted /\ twice' = twice
    <3>1. Posting = {}
      BY <2>2 DEF OutsideEffect, Posting
    <3>2. S = {}
      BY <3>1
    <3> QED BY <2>1, <3>2
  <2>3. ASSUME NEW p \in Pids, RunEffect(p) PROVE Delivers(p)
    <3>1. \A q \in Pids : q # p => pc'[q] = pc[q]
      BY <2>3, OwnRun
    <3>2. Posting \subseteq {p} /\ (Posting # {} => pc[p] = "post")
      BY <3>1 DEF Posting
    <3>3. Logs(p) \subseteq run[p].lines
      BY DEF Logs
    <3>4. S = {} \/ (pc[p] = "post" /\ S \subseteq run[p].lines)
      BY <3>2, <3>3
    <3> QED BY <2>1, <3>4 DEF Delivers
  <2>4. /\ ~overlapped' /\ ~torn' => ~overlapped /\ ~torn
        /\ \A p \in Pids : ~torn' /\ pc[p] = "save" => pc'[p] # "idle"
    BY <1>2 DEF HistoryNext
  <2>5. ASSUME ~overlapped' PROVE Alone'
    <3> DEFINE A == {p \in Pids : pc'[p] \in Inside}
    <3>1. ~(Cardinality(A) > 1)
      BY <1>2, <2>5 DEF HistoryNext
    <3>2. IsFiniteSet(A)
      BY <1>0, FS_Subset
    <3> HIDE DEF A
    <3>3. \A p, q \in A : p = q
      BY <3>1, <3>2, AtMostOne
    <3> QED BY <3>3 DEF A, Alone
  <2> QED BY <2>2, <2>3, <2>4, <2>5
<1> QED BY <1>1, <1>2

\* SentInv holds initially.
LEMMA SentInit == HistoryInit => SentInv
BY DEF HistoryInit, Init, NoRun, SentInv, Alone, Saved, Unsent, Inside, PCs

\* A run that is alone saves a date that is not before what the backend has, and
\* posts what is after its start date.
LEMMA RunSends ==
    ASSUME ParserInv, SentInv, NEW p \in Pids, RunEffect(p), Delivers(p),
           ~overlapped, ~torn, ~(pc[p] = "save" /\ pc'[p] = "idle"), Alone'
    PROVE  /\ posted' \subseteq 1..Len(logged)
           /\ twice' = {} /\ Saved' /\ \A q \in Pids : Unsent(q)'
<1>0. /\ pc \in [Pids -> PCs] /\ run \in [Pids -> RunType] /\ run[p] \in RunType
      /\ \A k \in 1..Len(logged) : logged[k] \in Int
      /\ run[p].startdate \in Int /\ lastcount \in Int /\ now - Window \in Int
  BY ElementOfSeq, ParserAssumption DEF ParserInv, TypeOK, RunType
<1>1. /\ twice = {} /\ Alone /\ Saved /\ \A q \in Pids : Unsent(q)
      /\ posted \subseteq 1..Len(logged) /\ run[p].lines \subseteq 1..Len(logged)
  BY DEF SentInv, ParserInv, LinesLogged
<1>2. /\ logged' = logged
      /\ \A q \in Pids : q # p => run'[q] = run[q] /\ pc'[q] = pc[q]
  BY OwnRun DEF RunEffect
<1>3. twice' = {} /\ posted' \subseteq 1..Len(logged) /\ (posted' = posted \/ pc[p] = "post")
  BY <1>1 DEF Delivers, Unsent
<1>4. pc[p] = "post" => posted' \subseteq posted \cup run[p].lines
  BY DEF Delivers
<1>5. ASSUME pc[p] \in Inside, NEW q \in Pids, q # p
      PROVE  pc'[q] \notin Inside /\ pc[q] \notin Inside
  BY <1>1, <1>2, <1>5 DEF Alone
<1>6. {"read", "empty", "save", "post", "last", "unlock"} \subseteq Inside
  BY DEF Inside, PCs
<1>7. ASSUME pc[p] \in Inside, Unsent(p)' PROVE \A q \in Pids : Unsent(q)'
  BY <1>5, <1>6, <1>7 DEF Unsent
<1>8. ASSUME pc[p] \in Inside, pc[p] # "save" PROVE \A k \in posted : logged[k] <= lastcount
  BY <1>1, <1>5, <1>6, <1>8 DEF Saved
\* An early step, or the end of a run that does not post.
<1>9. CASE /\ pc[p] \notin {"save", "post"}
           /\ pc'[p] \notin {"read", "empty", "save", "post"}
           /\ lastcount' = lastcount
  <2>1. posted' = posted
    BY <1>3, <1>9
  <2>2. Saved'
    BY <1>1, <1>2, <1>9, <2>1 DEF Saved
  <2>3. \A q \in Pids : Unsent(q)'
    BY <1>1, <1>2, <1>9, <2>1 DEF Unsent
  <2> QED BY <1>3, <2>2, <2>3
<1>10. CASE pc[p] = "post" /\ pc'[p] \in {"idle", "unlock"} /\ lastcount' = lastcount
  <2>1. \A k \in run[p].lines : logged[k] <= lastcount
    BY <1>1, <1>10 DEF Unsent
  <2>2. \A k \in posted' : logged[k] <= lastcount
    BY <1>4, <1>6, <1>8, <1>10, <2>1
  <2>3. Saved' /\ Unsent(p)'
    BY <1>2, <1>10, <2>2 DEF Saved, Unsent
  <2> QED BY <1>3, <1>6, <1>7, <1>10, <2>3
<1>11. CASE Dates(p)
  <2>1. pc[p] = "last" /\ pc'[p] = "read" /\ lastcount' = lastcount /\ posted' = posted
    BY <1>0, <1>3, <1>11 DEF Dates
  <2>2. run'[p].startdate \in Int /\ lastcount <= run'[p].startdate
    BY <1>0, <1>11 DEF Dates
  <2>3. \A k \in posted : logged[k] <= lastcount /\ logged[k] \in Int
    BY <1>0, <1>1, <1>6, <1>8, <2>1
  <2>4. \A k \in posted : logged[k] <= run'[p].startdate
    BY <1>0, <2>2, <2>3
  <2>5. Saved' /\ Unsent(p)'
    BY <1>2, <2>1, <2>3, <2>4 DEF Saved, Unsent
  <2> QED BY <1>3, <1>6, <1>7, <2>1, <2>5
<1>12. CASE Reads(p)
  <2>1. /\ pc[p] = "read" /\ pc'[p] = "empty" /\ lastcount' = lastcount /\ posted' = posted
        /\ run'[p].startdate = run[p].startdate /\ run'[p].lines = Counted(p)
    BY <1>0, <1>3, <1>12 DEF Reads
  <2>2. \A k \in Counted(p) : logged[k] > run[p].startdate
    BY CountedLemma
  <2>3. Unsent(p)'
    BY <1>1, <1>2, <2>1, <2>2 DEF Unsent
  <2>4. Saved'
    BY <1>2, <1>6, <1>8, <2>1 DEF Saved
  <2> QED BY <1>3, <1>6, <1>7, <2>1, <2>3, <2>4
<1>13. CASE Moves(p, {"empty"}, {"save"})
  <2>1. /\ pc[p] = "empty" /\ pc'[p] = "save" /\ posted' = posted
        /\ run'[p].startdate = run[p].startdate /\ run'[p].lines = run[p].lines
    BY <1>0, <1>3, <1>13 DEF Moves
  <2>2. Saved' /\ Unsent(p)'
    BY <1>1, <1>2, <2>1 DEF Saved, Unsent
  <2> QED BY <1>3, <1>6, <1>7, <2>1, <2>2
<1>14. CASE /\ Moves(p, {"save"}, {"post"})
            /\ lastcount' = IF run[p].lines = {} THEN run[p].startdate
                                                 ELSE logged[Max(run[p].lines)]
  <2>1. /\ pc[p] = "save" /\ pc'[p] = "post" /\ posted' = posted
        /\ run'[p].startdate = run[p].startdate /\ run'[p].lines = run[p].lines
    BY <1>0, <1>3, <1>14 DEF Moves
  <2>2. /\ \A k \in posted : logged[k] <= run[p].startdate
        /\ \A k \in run[p].lines : logged[k] > run[p].startdate
    BY <1>1, <2>1 DEF Unsent
  <2>3. CASE run[p].lines = {}
    <3>1. lastcount' = run[p].startdate
      BY <1>14, <2>3
    <3> QED BY <1>2, <2>1, <2>2, <2>3, <3>1, <1>3, <1>6, <1>7 DEF Saved, Unsent
  <2>4. CASE run[p].lines # {}
    <3> DEFINE m == Max(run[p].lines)
    <3>1. lastcount' = logged[m]
      BY <1>14, <2>4
    <3>2. m \in run[p].lines /\ \A k \in run[p].lines : k <= m
      <4>1. run[p].lines \in SUBSET (1..Len(logged)) /\ Len(logged) \in Nat
        BY <1>1, LenProperties DEF ParserInv, TypeOK
      <4> QED BY <2>4, <4>1, MaxLemma
    <3> HIDE DEF m
    <3>3. PICK d \in Int : d = run[p].startdate
      BY <1>0
    <3>4. PICK e \in Int : e = logged[m]
      BY <1>0, <1>1, <3>2
    <3>5. \A k \in posted : logged[k] <= e
      <4> TAKE k \in posted
      <4>1. logged[k] \in Int /\ logged[k] <= d /\ e > d
        BY <1>0, <1>1, <2>2, <3>2, <3>3, <3>4
      <4> QED BY <4>1
    <3>6. \A k \in run[p].lines : k \notin posted /\ logged[k] <= e
      <4> TAKE k \in run[p].lines
      <4>1. logged[k] \in Int /\ logged[k] > d
        BY <1>0, <1>1, <2>2, <3>3
      <4>2. k \notin posted
        BY <2>2, <3>3, <4>1
      <4>3. logged[k] <= e
        BY <1>1, <3>2, <3>4 DEF ParserInv, LogOrdered
      <4> QED BY <4>2, <4>3
    <3>7. Saved' /\ Unsent(p)'
      BY <1>2, <2>1, <3>1, <3>4, <3>5, <3>6 DEF Saved, Unsent
    <3> QED BY <1>3, <1>6, <1>7, <2>1, <3>7
  <2> QED BY <2>3, <2>4
<1>15. CASE Ends(p)
  <2>1. pc'[p] = "idle" /\ lastcount' = lastcount /\ pc[p] # "save"
    BY <1>0, <1>15 DEF Ends
  <2> QED BY <1>9, <1>10, <2>1
<1>16. CASE Moves(p, Early, Early) /\ lastcount' = lastcount
  <2>1. pc[p] \in Early /\ pc'[p] \in Early
    BY <1>0, <1>16 DEF Moves
  <2> QED BY <1>9, <1>16, <2>1 DEF Early
<1>17. CASE Moves(p, {"post"}, {"unlock"}) /\ lastcount' = lastcount
  <2>1. pc[p] = "post" /\ pc'[p] = "unlock"
    BY <1>0, <1>17 DEF Moves
  <2> QED BY <1>10, <1>17, <2>1
<1> QED
  BY <1>11, <1>12, <1>13, <1>14, <1>15, <1>16, <1>17 DEF RunEffect

\* Every step preserves SentInv.
LEMMA SentStep ==
    ASSUME ParserInv, SentInv, [HistoryNext]_<<vars, history>>
    PROVE  SentInv'
<1>1. AnyEffect
  BY StepKinds DEF HistoryNext, AnyEffect, vars
<1>2. /\ OutsideEffect => posted' = posted /\ twice' = twice
      /\ \A p \in Pids : RunEffect(p) => Delivers(p)
      /\ ~overlapped' /\ ~torn' => ~overlapped /\ ~torn
      /\ \A p \in Pids : ~torn' /\ pc[p] = "save" => pc'[p] # "idle"
      /\ ~overlapped' /\ Alone => Alone'
  BY HistoryEffect
<1>3. /\ 1..Len(logged) \subseteq 1..Len(logged')
      /\ \A i \in 1..Len(logged) : logged'[i] = logged[i]
  BY <1>1, LogGrows DEF AnyEffect
<1>4. CASE OutsideEffect
  <2>1. /\ pc' = pc /\ run' = run /\ lastcount' = lastcount
        /\ posted' = posted /\ twice' = twice
    BY <1>2, <1>4 DEF OutsideEffect
  <2>2. posted' \subseteq 1..Len(logged')
    BY <1>3, <2>1 DEF SentInv
  <2>3. \A k \in posted : logged'[k] = logged[k]
    BY <1>3 DEF SentInv
  <2>4. \A p \in Pids : \A k \in run[p].lines : logged'[k] = logged[k]
    BY <1>3 DEF ParserInv, LinesLogged
  <2>5. Saved => Saved'
    BY <2>1, <2>3 DEF Saved
  <2>6. \A p \in Pids : Unsent(p) => Unsent(p)'
    BY <2>1, <2>3, <2>4 DEF Unsent
  <2> QED BY <1>2, <2>1, <2>2, <2>5, <2>6 DEF SentInv
<1>5. ASSUME NEW p \in Pids, RunEffect(p) PROVE SentInv'
  <2>1. posted' \subseteq 1..Len(logged') /\ logged' = logged
    BY <1>2, <1>3, <1>5 DEF SentInv, Delivers, ParserInv, LinesLogged, RunEffect
  <2>2. ASSUME ~overlapped', ~torn'
        PROVE  twice' = {} /\ Alone' /\ Saved' /\ \A q \in Pids : Unsent(q)'
    <3>1. /\ ~overlapped /\ ~torn /\ Delivers(p) /\ Alone'
          /\ ~(pc[p] = "save" /\ pc'[p] = "idle")
      BY <1>2, <1>5, <2>2 DEF SentInv
    <3> QED BY <1>5, <3>1, RunSends
  <2> QED BY <2>1, <2>2 DEF SentInv
<1> QED BY <1>1, <1>4, <1>5 DEF AnyEffect

\* The backend gets no line twice from runs of which each has the pid file to itself
\* and none is killed between emptying and writing the date: it is saved before the
\* post, and later runs read from there on, whether the post succeeds or not.
THEOREM SendsOnce == HistorySpec => []SentOnce
<1>1. HistoryInit => ParserInv /\ SentInv
  BY ParserInit, SentInit DEF HistoryInit
<1>2. /\ ParserInv /\ SentInv /\ [HistoryNext]_<<vars, history>>
      => ParserInv' /\ SentInv'
  <2>1. [HistoryNext]_<<vars, history>> => [Next]_vars
    BY DEF HistoryNext
  <2> QED BY <2>1, ParserStep, SentStep
<1>3. SentInv => SentOnce
  BY DEF SentInv, SentOnce
<1> QED BY <1>1, <1>2, <1>3, PTL DEF HistorySpec
=============================================================================
