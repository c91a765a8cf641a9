---------------------------- MODULE RulesProofs ----------------------------
(***************************************************************************)
(* What rules_lock guarantees, for any number of handlers, of hydrate      *)
(* timers and of SIGHUPs and any sequence of versions, well formed or not. *)
(* The lock is released before the second assignment in one way only: a    *)
(* SIGHUP comes while the main thread holds the lock for an earlier one,   *)
(* and its own request raises.  The theorems say so, and what holds before *)
(* a second SIGHUP has come.                                               *)
(***************************************************************************)
EXTENDS Rules, FiniteSetTheorems, WellFoundedInduction, TLAPS

\* The lock is held by the updater between its two assignments, and by nobody
\* else.
LockHeld == \A u \in Updaters : rules_lock = u <=> pc[u] = "swap"

\* The signatures are then those of the version that is being installed.
HalfInstalled ==
    \A u \in Updaters : pc[u] = "swap" => RULES_SIGNATURES = honeypot_data[u]

\* The main thread's stack has no gaps and is no deeper than the signals.
StackGrows == \E d \in 0..reloads : Stack = 1..d

\* A handler has chosen an id of the version that it has read.
ChosenFromRead ==
    \A h \in Handlers : pc[h] = "respond" =>
        request[h].id \in Referred[request[h].version] \cup {DefaultId}

RulesInv ==
    /\ TypeOK /\ LockHeld /\ HalfInstalled /\ StackGrows
    /\ ChosenFromRead

\* A reload runs on top of one that holds the lock.
Interrupted == \E f, g \in Stack : f < g /\ pc[f] = "swap"

-----------------------------------------------------------------------------

\* Who is what.
LEMMA Roles ==
    /\ \A u \in Updaters : u \in Threads /\ u \notin Handlers /\ u # NoOne
    /\ \A h \in Handlers : h \in Threads /\ h \notin Updaters
    /\ \A f \in Frames : f \in Updaters /\ f \notin Hydrators /\ f \in Nat \ {0}
    /\ \A y \in Hydrators : y \in Updaters /\ y \notin Frames
    /\ \A u \in Updaters : u \in Hydrators \/ u \in Frames
BY RulesAssumption DEF Threads, Updaters, Frames

\* What is left of a stack when frames go from its top is a stack.
LEMMA StackUnwinds ==
    ASSUME NEW d \in Nat, NEW S \in SUBSET (1..d),
           \A f \in S : \A g \in 1..d : g < f => g \in S
    PROVE  \E e \in 0..d : S = 1..e
<1> DEFINE Gone == (1..(d + 1)) \ S
           Less == {ss \in Nat \X Nat : ss[1] < ss[2]}
<1>1. IsWellFoundedOn(Less, Nat)
  BY NatLessThanWellFounded DEF OpToRel
<1>2. d + 1 \in Gone /\ Gone \subseteq Nat
  OBVIOUS
<1>3. PICK n \in Gone : \A m \in Gone : <<m, n>> \notin Less
  <2> HIDE DEF Gone, Less
  <2> QED
    BY <1>1, <1>2, WFMin
<1>4. \A m \in Gone : ~(m < n)
  <2> TAKE m \in Gone
  <2>1. <<m, n>> \in Nat \X Nat
    BY <1>2, <1>3
  <2>2. <<m, n>> \notin Less
    BY <1>3
  <2> QED
    BY <2>1, <2>2
<1>5. n - 1 \in 0..d
  BY <1>3
<1>6. \A m \in S : m < n
  <2> TAKE m \in S
  <2>1. CASE n = d + 1
    BY <2>1
  <2>2. CASE n # d + 1
    BY <1>3, <2>2
  <2> QED
    BY <2>1, <2>2
<1>7. \A m \in 1..(n - 1) : m \in S
  BY <1>3, <1>4
<1>8. S = 1..(n - 1)
  <2>1. \A m \in S : m \in 1..(n - 1)
    BY <1>5, <1>6
  <2> QED
    BY <1>7, <2>1
<1> QED
  BY <1>5, <1>8

\* A signal puts a frame on top of the stack that has been idle.
LEMMA SighupStartsFrame ==
    ASSUME RulesInv, Sighup
    PROVE  \E n \in Frames :
              /\ pc[n] = "idle"
              /\ pc' = [pc EXCEPT ![n] = "request"]
              /\ StackGrows'
<1>1. PICK d \in 0..reloads : Stack = 1..d
  BY DEF RulesInv, StackGrows
<1>2. reloads \in Nat /\ reloads < MaxReloads /\ MaxReloads \in Nat
      /\ reloads' = reloads + 1
  BY RulesAssumption DEF RulesInv, TypeOK, Sighup
<1>3. Cardinality(Stack) = d
  BY <1>1, <1>2, FS_Interval
<1>4. d + 1 \in Frames /\ d + 1 \notin Stack
  BY <1>1, <1>2 DEF Frames
<1>5. pc[d + 1] = "idle"
  BY <1>4 DEF Stack
<1>6. pc' = [pc EXCEPT ![d + 1] = "request"]
  BY <1>3 DEF Sighup, Goto
<1>7. \A f \in Frames : pc'[f] # "idle" <=> f = d + 1 \/ f \in Stack
  BY <1>4, <1>6, Roles DEF Stack, RulesInv, TypeOK
<1>8. Stack' = 1..(d + 1)
  <2>1. Stack' = {f \in Frames : f = d + 1 \/ f \in Stack}
    BY <1>7 DEF Stack
  <2> QED
    BY <1>1, <1>2, <1>4, <2>1 DEF Frames
<1>9. d + 1 \in 0..reloads'
  BY <1>2
<1>10. StackGrows'
  BY <1>8, <1>9 DEF StackGrows
<1> QED
  BY <1>4, <1>5, <1>6, <1>10

\* A thread that is running, and what it does to the stack when it stays on it or
\* leaves it.
LEMMA StackAfterStep ==
    ASSUME RulesInv, reloads' = reloads,
           NEW t \in Threads, NEW label \in PCs,
           pc' = [pc EXCEPT ![t] = label],
           t \in Frames => Active(t) /\ pc[t] # "idle"
    PROVE  StackGrows'
<1>1. PICK d \in 0..reloads : Stack = 1..d
  BY DEF RulesInv, StackGrows
<1>2. reloads \in Nat /\ pc \in [Threads -> PCs]
  BY DEF RulesInv, TypeOK
<1>3. \A f \in Frames : f # t => pc'[f] = pc[f]
  BY <1>2, Roles
<1>4. CASE t \notin Frames \/ label # "idle"
  <2>1. \A f \in Frames : pc'[f] # "idle" <=> pc[f] # "idle"
    BY <1>2, <1>3, <1>4
  <2>2. Stack' = Stack
    BY <2>1 DEF Stack
  <2> QED
    BY <1>1, <2>2 DEF StackGrows
<1>5. CASE t \in Frames /\ label = "idle"
  <2>1. pc'[t] = "idle" /\ t \in Stack /\ \A f \in Stack : f <= t
    BY <1>2, <1>5 DEF Active, Stack
  <2>2. t = d
    BY <1>1, <1>2, <2>1
  <2>3. Stack' = Stack \ {t}
    BY <1>3, <2>1 DEF Stack
  <2>4. Stack' = 1..(d - 1) /\ d - 1 \in 0..reloads
    BY <1>1, <1>2, <2>1, <2>2, <2>3
  <2> QED
    BY <2>4 DEF StackGrows
<1> QED
  BY <1>4, <1>5

\* An update that raises: frames leave the stack, and the lock with the frame that
\* holds it.
LEMMA RaiseStep ==
    ASSUME RulesInv, reloads' = reloads,
           NEW u \in Updaters, Active(u), pc[u] \in {"response", "swap"}, Raise(u)
    PROVE  /\ \E Ended \in SUBSET Updaters :
                 /\ u \in Ended
                 /\ \A v \in Ended \ {u} : u \in Frames /\ v \in Stack /\ v < u
                 /\ rules_lock' = IF rules_lock \in Ended THEN NoOne ELSE rules_lock
                 /\ pc' = [t \in Threads |-> IF t \in Ended THEN "idle" ELSE pc[t]]
           /\ serving' \in BOOLEAN
           /\ StackGrows'
<1>0. /\ pc \in [Threads -> PCs] /\ rules_lock \in Updaters \cup {NoOne}
      /\ serving \in BOOLEAN /\ reloads \in Nat /\ u \in Threads
  BY Roles DEF RulesInv, TypeOK
<1>1. CASE u \in Hydrators
  <2>1. /\ pc' = [pc EXCEPT ![u] = "idle"]
        /\ rules_lock' = IF rules_lock = u THEN NoOne ELSE rules_lock
        /\ serving' \in BOOLEAN
    BY <1>0, <1>1 DEF Raise, Goto
  <2>2. StackGrows'
    BY <1>0, <1>1, <2>1, Roles, StackAfterStep DEF PCs
  <2>3. pc' = [t \in Threads |-> IF t \in {u} THEN "idle" ELSE pc[t]]
    BY <1>0, <2>1
  <2>4. rules_lock' = IF rules_lock \in {u} THEN NoOne ELSE rules_lock
    BY <2>1
  <2> QED
    BY <2>1, <2>2, <2>3, <2>4
<1>2. CASE u \notin Hydrators
  <2> DEFINE catching == {f \in Stack \ {u} : pc[f] = "request"}
             unwound  == {f \in Stack : \A g \in catching : g <= f}
  <2>1. /\ pc' = [t \in Threads |-> IF t \in unwound THEN "idle" ELSE pc[t]]
        /\ rules_lock' = IF rules_lock \in unwound THEN NoOne ELSE rules_lock
        /\ serving' \in BOOLEAN
    BY <1>2 DEF Raise
  <2>2. u \in Stack /\ \A f \in Stack : f <= u
    BY <1>2, Roles DEF Stack, Active
  <2>3. Stack \subseteq Frames /\ Frames \subseteq Nat
    BY DEF Stack, Frames
  <2>4. u \in unwound /\ unwound \subseteq Stack
    BY <2>2
  <2>5. \A v \in unwound \ {u} : u \in Frames /\ v \in Stack /\ v < u
    BY <2>2, <2>3
  <2>6. PICK d \in 0..reloads : Stack = 1..d
    BY DEF RulesInv, StackGrows
  <2>7. Stack' = Stack \ unwound
    <3> HIDE DEF unwound
    <3>1. \A f \in Frames : pc'[f] # "idle" <=> pc[f] # "idle" /\ f \notin unwound
      BY <2>1, Roles
    <3> QED
      BY <3>1 DEF Stack
  <2>8. \A f \in Stack' : \A g \in 1..d : g < f => g \in Stack'
    BY <1>0, <2>3, <2>6, <2>7
  <2>9. \E e \in 0..d : Stack' = 1..e
    <3>1. Stack' \in SUBSET (1..d) /\ d \in Nat
      BY <1>0, <2>6, <2>7
    <3> QED
      BY <2>8, <3>1, StackUnwinds
  <2>10. StackGrows'
    <3>1. PICK e \in 0..d : Stack' = 1..e
      BY <2>9
    <3>2. e \in 0..reloads'
      BY <1>0, <2>6
    <3> QED
      BY <3>1, <3>2 DEF StackGrows
  <2>11. unwound \in SUBSET Updaters
    BY <2>3, <2>4, Roles
  <2> QED
    <3> HIDE DEF unwound, catching
    <3> QED
      BY <2>1, <2>4, <2>5, <2>10, <2>11
<1> QED
  BY <1>1, <1>2

\* RulesInv holds initially.
LEMMA RulesInit == Init => RulesInv
<1> SUFFICES ASSUME Init PROVE RulesInv
  OBVIOUS
<1>1. TypeOK
  BY RulesAssumption DEF Init, TypeOK, PCs, Versions, Threads
<1>2. LockHeld /\ HalfInstalled /\ ChosenFromRead
  BY RulesAssumption
  DEF Init, LockHeld, HalfInstalled, ChosenFromRead, Threads, Updaters
<1>3. Stack = {} /\ 0 \in 0..reloads /\ {} = 1..0
  BY Roles DEF Init, Stack
<1>4. StackGrows
  BY <1>3 DEF StackGrows
<1> QED
  BY <1>1, <1>2, <1>4 DEF RulesInv

\* A step that leaves the rules and the lock alone and moves one thread to a
\* place outside the critical section preserves the parts about the lock.
LEMMA Elsewhere ==
    ASSUME RulesInv,
           NEW t \in Threads, NEW label \in PCs \ {"swap"},
           pc[t] # "swap",
           pc' = [pc EXCEPT ![t] = label],
           UNCHANGED <<rules, rules_lock>>,
           \A u \in Updaters \ {t} : honeypot_data'[u] = honeypot_data[u]
    PROVE  /\ LockHeld'
           /\ HalfInstalled'
           /\ (RulesSwappedTogether' <=> RulesSwappedTogether)
<1>1. \A u \in Updaters : /\ pc'[u] = "swap" <=> pc[u] = "swap"
                          /\ pc[u] = "swap" => honeypot_data'[u] = honeypot_data[u]
  BY Roles DEF RulesInv, TypeOK
<1>2. LockHeld' /\ HalfInstalled'
  BY <1>1 DEF RulesInv, LockHeld, HalfInstalled, rules
<1>3. RulesSwappedTogether' <=> RulesSwappedTogether
  BY DEF RulesSwappedTogether, rules
<1> QED
  BY <1>2, <1>3

\* A step keeps signatures and responses together, or an updater's exception has
\* thrown an interrupted one off the stack.
Together == RulesSwappedTogether => RulesSwappedTogether' \/ Interrupted

\* An update ends with an exception.
LEMMA RaiseKeeps ==
    ASSUME RulesInv,
           NEW u \in Updaters, Active(u), pc[u] \in {"response", "swap"}, Raise(u),
           pc[u] = "swap" => honeypot_data[u] \in Malformed,
           UNCHANGED <<published, rules, honeypot_data, requests, reloads>>
    PROVE  LockHeld' /\ HalfInstalled' /\ StackGrows' /\ ChosenFromRead' /\ Together
<1>1. PICK Ended \in SUBSET Updaters :
         /\ u \in Ended
         /\ \A v \in Ended \ {u} : u \in Frames /\ v \in Stack /\ v < u
         /\ rules_lock' = IF rules_lock \in Ended THEN NoOne ELSE rules_lock
         /\ pc' = [t \in Threads |-> IF t \in Ended THEN "idle" ELSE pc[t]]
  BY RaiseStep
<1>2. /\ rules_lock \in Updaters \cup {NoOne} /\ pc \in [Threads -> PCs]
      /\ LockHeld /\ HalfInstalled /\ ChosenFromRead
  BY DEF RulesInv, TypeOK
<1>3. /\ \A v \in Updaters : pc'[v] = IF v \in Ended THEN "idle" ELSE pc[v]
      /\ \A h \in Handlers : pc'[h] = pc[h]
  BY <1>1, <1>2, Roles
<1>4. LockHeld'
  BY <1>1, <1>2, <1>3, Roles DEF LockHeld
<1>5. HalfInstalled'
  BY <1>2, <1>3 DEF HalfInstalled, rules
<1>6. StackGrows'
  BY RaiseStep
<1>7. ChosenFromRead'
  BY <1>2, <1>3 DEF ChosenFromRead, requests
<1>8. Together
  <2> SUFFICES ASSUME RulesSwappedTogether, ~RulesSwappedTogether' PROVE Interrupted
    BY DEF Together
  <2>1. rules_lock' = NoOne /\ rules_lock # NoOne /\ RULES_SIGNATURES \notin Malformed
    BY DEF RulesSwappedTogether, rules
  <2>2. rules_lock \in Ended /\ pc[rules_lock] = "swap"
    BY <1>1, <1>2, <2>1 DEF LockHeld
  <2>3. rules_lock # u
    BY <1>2, <2>1, <2>2 DEF HalfInstalled
  <2>4. u \in Stack /\ rules_lock \in Stack /\ rules_lock < u
    BY <1>1, <2>2, <2>3 DEF Stack
  <2> QED
    BY <2>2, <2>4 DEF Interrupted
<1> QED
  BY <1>4, <1>5, <1>6, <1>7, <1>8

\* Every step keeps the types.
LEMMA TypesStep == ASSUME TypeOK, [Next]_vars PROVE TypeOK'
<1>0. /\ \A t \in Threads, label \in PCs :
            Goto(t, label) => pc' \in [Threads -> PCs]
      /\ Hydrators \subseteq Updaters
      /\ Updaters \subseteq Threads
      /\ Handlers \subseteq Threads
  BY DEF Goto, TypeOK, Threads, Updaters
<1>1. CASE Publish
  <2>1. published' \in Versions \ {0}
    BY <1>1, RulesAssumption DEF Publish, TypeOK, Versions
  <2> QED
    BY <1>1, <2>1 DEF Publish, TypeOK, rules, requests
<1>2. CASE Sighup
  <2>1. reloads' \in 0..MaxReloads
    BY <1>2, RulesAssumption DEF Sighup, TypeOK
  <2>2. pc' \in [Threads -> PCs]
    BY <1>2 DEF Sighup, Goto, TypeOK, PCs
  <2> QED
    BY <1>2, <2>1, <2>2 DEF Sighup, TypeOK, rules, requests
<1>3. ASSUME NEW u \in Hydrators, Hydrate(u) PROVE TypeOK'
  BY <1>0, <1>3 DEF Hydrate, Goto, TypeOK, PCs, rules, requests
<1>4. ASSUME NEW u \in Updaters, SendRequest(u) \/ GetResponse(u) PROVE TypeOK'
  <2>1. pc' \in [Threads -> PCs]
    BY <1>0, <1>4 DEF SendRequest, GetResponse, PCs
  <2>2. honeypot_data' \in [Updaters -> Versions]
    BY <1>4 DEF SendRequest, GetResponse, TypeOK
  <2> QED
    BY <1>4, <2>1, <2>2
    DEF SendRequest, GetResponse, TypeOK, rules, requests
<1>5. ASSUME NEW u \in Updaters, ResponseFails(u) \/ SwapFails(u) PROVE TypeOK'
  <2>1. Raise(u)
    BY <1>5 DEF ResponseFails, SwapFails
  <2>2. /\ pc' \in [Threads -> PCs]
        /\ rules_lock' \in Updaters \cup {NoOne}
        /\ serving' \in BOOLEAN
    <3>1. CASE u \in Hydrators
      BY <1>0, <2>1, <3>1 DEF Raise, Goto, TypeOK, PCs
    <3>2. CASE u \notin Hydrators
      BY <2>1, <3>2 DEF Raise, TypeOK, PCs
    <3> QED
      BY <3>1, <3>2
  <2> QED
    BY <1>5, <2>2 DEF ResponseFails, SwapFails, TypeOK, rules, requests
<1>6. ASSUME NEW u \in Updaters, Install(u) \/ Swap(u) PROVE TypeOK'
  <2>1. pc' \in [Threads -> PCs]
    BY <1>0, <1>6 DEF Install, Swap, PCs
  <2> QED
    BY <1>6, <2>1 DEF Install, Swap, TypeOK, requests
<1>7. ASSUME NEW h \in Handlers, AcceptRequest(h) \/ HandlerStep(h) PROVE TypeOK'
  <2>1. pc' \in [Threads -> PCs]
    BY <1>0, <1>7 DEF AcceptRequest, HandlerStep, ReadSignatures, Respond, PCs
  <2>2. /\ request' \in [Handlers -> [version : Versions, id : Ids]]
        /\ answer' \in [Handlers -> {"none", "sent", "failed"}]
    BY <1>7, RulesAssumption
    DEF AcceptRequest, HandlerStep, ReadSignatures, Respond, TypeOK
  <2> QED
    BY <1>7, <2>1, <2>2
    DEF AcceptRequest, HandlerStep, ReadSignatures, Respond, TypeOK, rules
<1>8. CASE UNCHANGED vars
  BY <1>8 DEF vars, TypeOK
<1> QED
  BY <1>1, <1>2, <1>3, <1>4, <1>5, <1>6, <1>7, <1>8 DEF Next, UpdateStep

\* Signals are only counted up.
LEMMA ReloadsGrow == ASSUME TypeOK, [Next]_vars PROVE reloads' >= reloads
BY RulesAssumption DEF TypeOK, Next, vars, Publish, Sighup, Hydrate, UpdateStep,
   SendRequest, GetResponse, ResponseFails, Install, Swap, SwapFails,
   AcceptRequest, HandlerStep, ReadSignatures, Respond

\* The state is typed.
THEOREM RulesTypes == Spec => []TypeOK
<1>1. Init => TypeOK
  BY RulesInit DEF RulesInv
<1> QED
  BY <1>1, TypesStep, PTL DEF Spec

\* Every step preserves RulesInv and keeps the rules together.
LEMMA RulesStep ==
    ASSUME RulesInv, [Next]_vars
    PROVE  RulesInv' /\ Together
<1>0. TypeOK'
  BY TypesStep DEF RulesInv
<1> DEFINE Rest == LockHeld' /\ HalfInstalled' /\ StackGrows' /\ ChosenFromRead'
                   /\ Together
<1>1. ASSUME Publish PROVE Rest
  <2>1. UNCHANGED <<rules, rules_lock, pc, honeypot_data, requests, reloads>>
    BY <1>1 DEF Publish
  <2>2. Stack' = Stack
    BY <2>1 DEF Stack
  <2>3. LockHeld' /\ HalfInstalled' /\ StackGrows' /\ ChosenFromRead'
    BY <2>1, <2>2
    DEF RulesInv, LockHeld, HalfInstalled, StackGrows, ChosenFromRead, rules, requests
  <2>4. RulesSwappedTogether' <=> RulesSwappedTogether
    BY <2>1 DEF RulesSwappedTogether, rules
  <2> QED
    BY <2>3, <2>4 DEF Together
<1>2. ASSUME Sighup PROVE Rest
  <2>1. PICK n \in Frames : /\ pc[n] = "idle"
                            /\ pc' = [pc EXCEPT ![n] = "request"]
                            /\ StackGrows'
    BY <1>2, SighupStartsFrame
  <2>2. UNCHANGED <<rules, rules_lock, honeypot_data, requests>>
    BY <1>2 DEF Sighup
  <2>3. /\ LockHeld' /\ HalfInstalled'
        /\ (RulesSwappedTogether' <=> RulesSwappedTogether)
    BY <2>1, <2>2, Roles, Elsewhere DEF PCs
  <2>4. ChosenFromRead'
    BY <2>1, <2>2, Roles DEF ChosenFromRead, requests, RulesInv, TypeOK
  <2> QED
    BY <2>1, <2>3, <2>4 DEF Together
<1>3. ASSUME NEW u \in Updaters,
             \/ u \in Hydrators /\ Hydrate(u)
             \/ SendRequest(u)
             \/ GetResponse(u)
      PROVE  Rest
  <2>1. PICK label \in {"idle", "request", "response", "install"} :
           pc' = [pc EXCEPT ![u] = label]
    BY <1>3 DEF Hydrate, SendRequest, GetResponse, Goto
  <2>2. /\ UNCHANGED <<rules, rules_lock, requests, reloads>>
        /\ \A v \in Updaters \ {u} : honeypot_data'[v] = honeypot_data[v]
    BY <1>3 DEF Hydrate, SendRequest, GetResponse, RulesInv, TypeOK
  <2>3. pc[u] # "swap" /\ (u \in Frames => Active(u) /\ pc[u] # "idle")
    BY <1>3, Roles DEF Hydrate, SendRequest, GetResponse, At
  <2>4. /\ LockHeld' /\ HalfInstalled'
        /\ (RulesSwappedTogether' <=> RulesSwappedTogether)
    BY <2>1, <2>2, <2>3, Roles, Elsewhere DEF PCs
  <2>5. StackGrows'
    BY <2>1, <2>2, <2>3, Roles, StackAfterStep DEF PCs
  <2>6. ChosenFromRead'
    BY <2>1, <2>2, Roles DEF ChosenFromRead, requests, RulesInv, TypeOK
  <2> QED
    BY <2>4, <2>5, <2>6 DEF Together
<1>4. ASSUME NEW u \in Updaters, ResponseFails(u) \/ SwapFails(u) PROVE Rest
  <2>1. /\ Active(u) /\ pc[u] \in {"response", "swap"} /\ Raise(u)
        /\ pc[u] = "swap" => honeypot_data[u] \in Malformed
        /\ UNCHANGED <<published, rules, honeypot_data, requests, reloads>>
    BY <1>4 DEF ResponseFails, SwapFails, At
  <2> QED
    BY <2>1, RaiseKeeps
<1>5. ASSUME NEW u \in Updaters, Install(u) PROVE Rest
  <2>1. /\ pc' = [pc EXCEPT ![u] = "swap"] /\ pc[u] = "install"
        /\ rules_lock = NoOne /\ rules_lock' = u
        /\ RULES_SIGNATURES' = honeypot_data[u]
        /\ UNCHANGED <<honeypot_data, requests, reloads>>
        /\ Active(u)
    BY <1>5 DEF Install, Goto, At
  <2>2. pc \in [Threads -> PCs] /\ u \in Threads /\ \A v \in Updaters : pc[v] # "swap"
    BY <2>1, Roles DEF RulesInv, TypeOK, LockHeld
  <2>3. LockHeld' /\ HalfInstalled'
    BY <2>1, <2>2, Roles DEF LockHeld, HalfInstalled
  <2>4. RulesSwappedTogether'
    BY <2>1, Roles DEF RulesSwappedTogether
  <2>5. StackGrows'
    BY <2>1, <2>2, StackAfterStep DEF PCs
  <2>6. ChosenFromRead'
    BY <2>1, <2>2, Roles DEF ChosenFromRead, requests, RulesInv
  <2> QED
    BY <2>3, <2>4, <2>5, <2>6 DEF Together
<1>6. ASSUME NEW u \in Updaters, Swap(u) PROVE Rest
  <2>1. /\ pc' = [pc EXCEPT ![u] = "idle"] /\ pc[u] = "swap"
        /\ rules_lock' = NoOne
        /\ RULES_RESPONSES' = honeypot_data[u]
        /\ UNCHANGED <<RULES_SIGNATURES, honeypot_data, requests, reloads>>
        /\ Active(u)
    BY <1>6 DEF Swap, Goto, At
  <2>2. /\ rules_lock = u /\ RULES_SIGNATURES = honeypot_data[u]
        /\ pc \in [Threads -> PCs] /\ u \in Threads
        /\ \A v \in Updaters \ {u} : pc[v] # "swap"
    BY <2>1, Roles DEF RulesInv, TypeOK, LockHeld, HalfInstalled
  <2>3. LockHeld' /\ HalfInstalled'
    BY <2>1, <2>2, Roles DEF LockHeld, HalfInstalled
  <2>4. RulesSwappedTogether'
    BY <2>1, <2>2 DEF RulesSwappedTogether
  <2>5. StackGrows'
    BY <2>1, <2>2, StackAfterStep DEF PCs
  <2>6. ChosenFromRead'
    BY <2>1, <2>2, Roles DEF ChosenFromRead, requests, RulesInv
  <2> QED
    BY <2>3, <2>4, <2>5, <2>6 DEF Together
<1>7. ASSUME NEW h \in Handlers, AcceptRequest(h) \/ HandlerStep(h) PROVE Rest
  <2>1. PICK label \in {"idle", "request", "respond"} :
           pc' = [pc EXCEPT ![h] = label]
    BY <1>7 DEF AcceptRequest, HandlerStep, ReadSignatures, Respond, Goto
  <2>2. UNCHANGED <<rules, rules_lock, honeypot_data, reloads>> /\ pc[h] # "swap"
    BY <1>7 DEF AcceptRequest, HandlerStep, ReadSignatures, Respond
  <2>3. /\ LockHeld' /\ HalfInstalled'
        /\ (RulesSwappedTogether' <=> RulesSwappedTogether)
    BY <2>1, <2>2, Roles, Elsewhere DEF PCs
  <2>4. StackGrows'
    BY <2>1, <2>2, Roles, StackAfterStep DEF PCs
  <2>5. ChosenFromRead'
    BY <1>7, Roles
    DEF AcceptRequest, HandlerStep, ReadSignatures, Respond, Goto, ChosenFromRead,
        RulesInv, TypeOK
  <2> QED
    BY <2>3, <2>4, <2>5 DEF Together
<1>8. ASSUME UNCHANGED vars PROVE Rest
  <2>1. Stack' = Stack
    BY <1>8 DEF vars, Stack
  <2>2. LockHeld' /\ HalfInstalled' /\ StackGrows' /\ ChosenFromRead'
    BY <1>8, <2>1
    DEF RulesInv, vars, LockHeld, HalfInstalled, StackGrows, ChosenFromRead
  <2>3. RulesSwappedTogether' <=> RulesSwappedTogether
    BY <1>8 DEF RulesSwappedTogether, vars
  <2> QED
    BY <2>2, <2>3 DEF Together
<1>9. Rest
  BY <1>1, <1>2, <1>3, <1>4, <1>5, <1>6, <1>7, <1>8, Roles DEF Next, UpdateStep
<1> QED
  BY <1>0, <1>9 DEF RulesInv

\* RulesInv is an invariant.
THEOREM RulesInvariant == Spec => []RulesInv
<1>1. RulesInv /\ [Next]_vars => RulesInv'
  BY RulesStep
<1> QED
  BY <1>1, RulesInit, PTL DEF Spec

\* Signatures and responses come apart, with the lock free and the version well
\* formed, in a single way: a reload that runs on top of the one that holds the
\* lock raises.
THEOREM OnlyReloadsInterrupt ==
    Spec => [][RulesSwappedTogether => RulesSwappedTogether' \/ Interrupted]_vars
<1>1. RulesInv /\ [Next]_vars
        => [RulesSwappedTogether => RulesSwappedTogether' \/ Interrupted]_vars
  BY RulesStep DEF Together
<1> QED
  BY <1>1, RulesInvariant, PTL DEF Spec

\* Before a second SIGHUP no reload runs on top of another.
LEMMA OneReload == ASSUME RulesInv, reloads <= 1 PROVE ~Interrupted
<1>1. PICK d \in 0..reloads : Stack = 1..d
  BY DEF RulesInv, StackGrows
<1> QED
  BY <1>1 DEF Interrupted, RulesInv, TypeOK

\* Until a second SIGHUP, whoever gets rules_lock finds signatures and responses
\* of one version, or what is left of a malformed one.
THEOREM SwappedTogether == Spec => [](reloads <= 1 => RulesSwappedTogether)
<1> DEFINE J == reloads <= 1 => RulesSwappedTogether
<1>1. Init => J
  BY DEF Init, RulesSwappedTogether
<1>2. ASSUME RulesInv, J, [Next]_vars PROVE J'
  <2> SUFFICES ASSUME reloads' <= 1 PROVE RulesSwappedTogether'
    OBVIOUS
  <2>0. TypeOK /\ TypeOK'
    BY <1>2, TypesStep DEF RulesInv
  <2>1. reloads <= reloads' /\ reloads \in Nat /\ reloads' \in Nat
    BY <1>2, <2>0, ReloadsGrow DEF TypeOK
  <2>2. ~Interrupted
    BY <1>2, <2>1, OneReload
  <2> QED
    BY <1>2, <2>1, <2>2, RulesStep DEF Together
<1> QED
  BY <1>1, <1>2, RulesInvariant, PTL DEF Spec

\* With complete rules a request goes without its response only when an update
\* has come between the handler's two reads, if no second SIGHUP comes.
THEOREM MissesAreUpdates ==
    ASSUME MaxReloads <= 1 PROVE Spec => MissNeedsUpdate
<1> DEFINE Miss ==
      \A h \in Handlers :
          Respond(h) /\ answer'[h] = "failed" =>
             RULES_SIGNATURES # request[h].version \/ ~Complete(request[h].version)
<1>1. RulesInv /\ (reloads <= 1 => RulesSwappedTogether) => [Miss]_vars
  <2> SUFFICES ASSUME RulesInv, reloads <= 1 => RulesSwappedTogether,
                      NEW h \in Handlers, Respond(h),
                      answer'[h] = "failed",
                      RULES_SIGNATURES = request[h].version,
                      Complete(request[h].version)
               PROVE  FALSE
    OBVIOUS
  <2>0. reloads <= 1
    BY RulesAssumption DEF RulesInv, TypeOK
  <2>1. RULES_RESPONSES = request[h].version
    BY <2>0 DEF RulesSwappedTogether, Respond, Complete
  <2>2. request[h].id \in Present[RULES_RESPONSES]
    BY <2>1 DEF RulesInv, ChosenFromRead, Respond, Complete
  <2> QED
    BY <2>2 DEF Respond, RulesInv, TypeOK
<1> QED
  BY <1>1, RulesInvariant, SwappedTogether, PTL DEF MissNeedsUpdate
=============================================================================
