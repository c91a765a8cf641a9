-------------------------- MODULE TcpHoneypotProofs --------------------------
(***************************************************************************)
(* Threads and connections of the TCP honeypot, for any number of ports,   *)
(* threads and connections: a connection that is open has a thread of its  *)
(* own.  The invariant adds to OpenIsServed what a thread's variables are  *)
(* before it has accepted, and that it has a socket from its start.        *)
(***************************************************************************)
EXTENDS TcpHoneypot, TLAPS

\* A thread that has not accepted serves no connection.
IdleServesNone == \A t \in Threads : ~Busy(t) => served[t] = NoConnection

\* A thread has the socket that it was started for.
StartedForPort == \A t \in Threads : pc[t] # "none" => oSocket[t] \in Ports

TcpInv == TypeOK /\ IdleServesNone /\ StartedForPort /\ OpenIsServed

-----------------------------------------------------------------------------

\* TcpInv holds initially.
LEMMA TcpInit == Init => TcpInv
<1> SUFFICES ASSUME Init PROVE TcpInv
  OBVIOUS
<1>1. TypeOK
  BY TcpAssumption DEF Init, TypeOK, States, PCs
<1>2. IdleServesNone /\ StartedForPort
  BY DEF Init, IdleServesNone, StartedForPort
<1>3. OpenIsServed
  BY DEF Init, OpenIsServed, Busy
<1> QED BY <1>1, <1>2, <1>3 DEF TcpInv

\* Steps that leave connections and their threads alone keep the invariant, if
\* no thread gets busy or stops being so.
LEMMA SameServed ==
    ASSUME TcpInv, TypeOK', UNCHANGED <<kind, connection, port, served>>,
           \A t \in Threads : Busy(t)' <=> Busy(t),
           \A t \in Threads : Busy(t) => oSocket'[t] = oSocket[t],
           StartedForPort'
    PROVE  TcpInv'
<1>1. IdleServesNone'
  BY DEF TcpInv, IdleServesNone
<1>2. OpenIsServed'
  BY DEF TcpInv, OpenIsServed
<1> QED BY <1>1, <1>2 DEF TcpInv

\* A thread that goes on with its client keeps the invariant.
LEMMA Talking ==
    ASSUME TcpInv, TypeOK', NEW t \in Threads, NEW label \in PCs \ {"none", "accept"},
           UNCHANGED <<kind, connection, port, served, oSocket>>,
           Busy(t), Goto(t, label)
    PROVE  TcpInv'
<1>1. pc' = [pc EXCEPT ![t] = label] /\ pc \in [Threads -> PCs]
  BY DEF TcpInv, TypeOK, Goto
<1>2. \A u \in Threads : Busy(u)' <=> Busy(u)
  BY <1>1 DEF Busy
<1>3. StartedForPort'
  BY <1>1 DEF TcpInv, StartedForPort, Busy
<1> QED BY <1>2, <1>3, SameServed DEF TcpInv

\* The end of a busy thread keeps the invariant: its connection is closed, or is
\* that of an SSH session.
LEMMA Ending ==
    ASSUME TcpInv, NEW t \in Threads, NEW label \in {"open", "closed"},
           Busy(t), End(t, label),
           label = "open" => kind[oSocket[t]] = "ssh"
    PROVE  TcpInv'
<1> DEFINE c == served[t]
<1>1. /\ c \in Connections /\ connection[c] = "open" /\ port[c] = oSocket[t]
      /\ \A u \in Threads \ {t} : served[u] # c
  BY DEF TcpInv, OpenIsServed
<1>2. TypeOK'
  BY <1>1, TcpAssumption DEF TcpInv, TypeOK, End, Goto, server, PCs, States
<1> HIDE DEF c
<1>3. /\ pc'[t] = "none" /\ served'[t] = NoConnection /\ ~Busy(t)'
      /\ \A u \in Threads \ {t} : /\ pc'[u] = pc[u] /\ served'[u] = served[u]
                                  /\ oSocket'[u] = oSocket[u] /\ (Busy(u)' <=> Busy(u))
      /\ connection'[c] = label
      /\ \A d \in Connections \ {c} : connection'[d] = connection[d]
      /\ kind' = kind /\ port' = port
  <2>1. /\ pc' = [pc EXCEPT ![t] = "none"]
        /\ connection' = [connection EXCEPT ![c] = label]
        /\ oSocket' = [oSocket EXCEPT ![t] = NoPort]
        /\ served' = [served EXCEPT ![t] = NoConnection]
        /\ kind' = kind /\ port' = port
    BY DEF End, Goto, server, c
  <2>2. /\ pc'[t] = "none" /\ served'[t] = NoConnection
        /\ \A u \in Threads \ {t} : /\ pc'[u] = pc[u] /\ served'[u] = served[u]
                                    /\ oSocket'[u] = oSocket[u]
    BY <2>1 DEF TcpInv, TypeOK
  <2>3. /\ connection'[c] = label
        /\ \A d \in Connections \ {c} : connection'[d] = connection[d]
    BY <1>1, <2>1 DEF TcpInv, TypeOK
  <2> QED BY <2>1, <2>2, <2>3 DEF Busy
<1>4. IdleServesNone' /\ StartedForPort'
  BY <1>3 DEF TcpInv, IdleServesNone, StartedForPort
<1>5. ASSUME NEW u \in Threads, Busy(u)'
      PROVE  /\ served'[u] \in Connections
             /\ connection'[served'[u]] = "open"
             /\ port'[served'[u]] = oSocket'[u]
             /\ \A v \in Threads \ {u} : served'[v] # served'[u]
  <2>1. u # t /\ Busy(u) /\ served'[u] = served[u]
    BY <1>3, <1>5
  <2>2. /\ served[u] \in Connections \ {c} /\ connection[served[u]] = "open"
        /\ port[served[u]] = oSocket[u]
        /\ \A v \in Threads \ {u} : served[v] # served[u]
    BY <1>1, <2>1 DEF TcpInv, OpenIsServed
  <2>3. served'[t] # served'[u]
    BY <1>3, <2>1, <2>2, TcpAssumption
  <2> QED BY <1>3, <2>1, <2>2, <2>3
<1>6. ASSUME NEW d \in Connections, connection'[d] = "open"
      PROVE  \/ \E u \in Threads : Busy(u)' /\ served'[u] = d
             \/ kind'[port'[d]] = "ssh"
  <2>1. CASE d = c
    BY <1>1, <1>3, <1>6, <2>1
  <2>2. CASE d # c
    <3>1. connection[d] = "open"
      BY <1>3, <1>6, <2>2
    <3>2. CASE kind[port[d]] = "ssh"
      BY <1>3, <3>2
    <3>3. CASE kind[port[d]] # "ssh"
      <4>1. PICK u \in Threads : Busy(u) /\ served[u] = d
        BY <3>1, <3>3 DEF TcpInv, OpenIsServed
      <4>2. u # t
        BY <2>2, <4>1 DEF c
      <4> QED BY <1>3, <4>1, <4>2
    <3> QED BY <3>2, <3>3
  <2> QED BY <2>1, <2>2
<1>7. OpenIsServed'
  BY <1>5, <1>6 DEF OpenIsServed
<1> QED BY <1>2, <1>4, <1>7 DEF TcpInv

\* Accepting a pending connection keeps the invariant.
LEMMA Accepting ==
    ASSUME TcpInv, NEW t \in Threads, Accept(t)
    PROVE  TcpInv'
<1>1. PICK c \in Pending(oSocket[t]) :
          /\ connection' = [connection EXCEPT ![c] = "open"]
          /\ served' = [served EXCEPT ![t] = c]
  BY DEF Accept
<1>2. c \in Connections /\ connection[c] = "pending" /\ port[c] = oSocket[t]
  BY <1>1 DEF Pending
<1>3. TypeOK'
  BY <1>1, <1>2 DEF TcpInv, TypeOK, Accept, Goto, server, PCs, States
<1>4. /\ pc'[t] = "setup" /\ served'[t] = c /\ Busy(t)' /\ ~Busy(t)
      /\ \A u \in Threads \ {t} : /\ pc'[u] = pc[u] /\ served'[u] = served[u]
                                  /\ Busy(u)' = Busy(u)
      /\ connection'[c] = "open"
      /\ \A d \in Connections \ {c} : connection'[d] = connection[d]
      /\ kind' = kind /\ port' = port /\ oSocket' = oSocket
  BY <1>1, <1>2 DEF TcpInv, TypeOK, Accept, Goto, Busy, server
<1>5. pc[t] = "accept"
  BY DEF Accept
<1>6. IdleServesNone' /\ StartedForPort'
  BY <1>4, <1>5 DEF TcpInv, IdleServesNone, StartedForPort
<1>7. \A u \in Threads : served[u] # c
  BY <1>2, TcpAssumption DEF TcpInv, OpenIsServed, IdleServesNone
<1>8. ASSUME NEW u \in Threads, Busy(u)'
      PROVE  /\ served'[u] \in Connections
             /\ connection'[served'[u]] = "open"
             /\ port'[served'[u]] = oSocket'[u]
             /\ \A v \in Threads \ {u} : served'[v] # served'[u]
  <2>1. CASE u = t
    BY <1>2, <1>4, <1>7, <2>1
  <2>2. CASE u # t
    <3>1. /\ served[u] \in Connections \ {c} /\ connection[served[u]] = "open"
          /\ port[served[u]] = oSocket[u]
          /\ \A v \in Threads \ {u} : served[v] # served[u]
      BY <1>4, <1>7, <1>8, <2>2 DEF TcpInv, OpenIsServed
    <3> QED BY <1>4, <2>2, <3>1
  <2> QED BY <2>1, <2>2
<1>9. ASSUME NEW d \in Connections, connection'[d] = "open"
      PROVE  \/ \E u \in Threads : Busy(u)' /\ served'[u] = d
             \/ kind'[port'[d]] = "ssh"
  <2>1. CASE d = c
    BY <1>4, <2>1
  <2>2. CASE d # c
    <3>1. \/ \E u \in Threads : Busy(u) /\ served[u] = d
          \/ kind[port[d]] = "ssh"
      BY <1>4, <1>9, <2>2 DEF TcpInv, OpenIsServed
    <3> QED BY <1>4, <3>1
  <2> QED BY <2>1, <2>2
<1>10. OpenIsServed'
  BY <1>8, <1>9 DEF OpenIsServed
<1> QED BY <1>3, <1>6, <1>10 DEF TcpInv

\* A client that connects keeps the invariant.
LEMMA Connecting ==
    ASSUME TcpInv, NEW c \in Connections, NEW p \in Ports, Connect(c, p)
    PROVE  TcpInv'
<1>1. TypeOK'
  BY DEF TcpInv, TypeOK, Connect, server, thread, States
<1>2. /\ connection[c] = "new" /\ connection'[c] = "pending"
      /\ \A d \in Connections \ {c} : connection'[d] = connection[d] /\ port'[d] = port[d]
      /\ kind' = kind /\ served' = served /\ pc' = pc /\ oSocket' = oSocket
  BY DEF TcpInv, TypeOK, Connect, server, thread
<1>3. \A t \in Threads : Busy(t)' = Busy(t)
  BY <1>2 DEF Busy
<1>4. IdleServesNone' /\ StartedForPort'
  BY <1>2, <1>3 DEF TcpInv, IdleServesNone, StartedForPort
<1>5. OpenIsServed'
  <2>1. ASSUME NEW t \in Threads, Busy(t)'
        PROVE  /\ served'[t] \in Connections
               /\ connection'[served'[t]] = "open"
               /\ port'[served'[t]] = oSocket'[t]
               /\ \A u \in Threads \ {t} : served'[u] # served'[t]
    <3>1. served[t] # c
      BY <1>2, <1>3, <2>1 DEF TcpInv, OpenIsServed
    <3> QED BY <1>2, <1>3, <2>1, <3>1 DEF TcpInv, OpenIsServed
  <2>2. ASSUME NEW d \in Connections, connection'[d] = "open"
        PROVE  \/ \E t \in Threads : Busy(t)' /\ served'[t] = d
               \/ kind'[port'[d]] = "ssh"
    BY <1>2, <1>3, <2>2 DEF TcpInv, OpenIsServed
  <2> QED BY <2>1, <2>2 DEF OpenIsServed
<1> QED BY <1>1, <1>4, <1>5 DEF TcpInv

\* Starting a thread, or failing to, keeps the invariant.
LEMMA Starting ==
    ASSUME TcpInv, MainStep
    PROVE  TcpInv'
<1>1. CASE Select
  <2>1. TypeOK'
    BY <1>1 DEF TcpInv, TypeOK, Select, server, clients, thread
  <2>2. StartedForPort' /\ \A t \in Threads : Busy(t)' <=> Busy(t)
    BY <1>1 DEF TcpInv, StartedForPort, Busy, Select, thread
  <2> QED BY <1>1, <2>1, <2>2, SameServed DEF Select, server, clients, thread
<1>2. ASSUME NEW p \in readables, ThreadFails(p)
      PROVE  TcpInv'
  <2>1. TypeOK'
    BY <1>2 DEF TcpInv, TypeOK, ThreadFails, server, clients, thread
  <2>2. StartedForPort' /\ \A t \in Threads : Busy(t)' <=> Busy(t)
    BY <1>2 DEF TcpInv, StartedForPort, Busy, ThreadFails, thread
  <2> QED BY <1>2, <2>1, <2>2, SameServed DEF ThreadFails, server, clients, thread
<1>3. ASSUME NEW p \in readables, StartThread(p)
      PROVE  TcpInv'
  <2>1. PICK t \in Threads :
            /\ pc[t] = "none"
            /\ Goto(t, "accept")
            /\ oSocket' = [oSocket EXCEPT ![t] = p]
    BY <1>3 DEF StartThread
  <2>2. p \in Ports
    BY <1>3 DEF TcpInv, TypeOK
  <2>3. TypeOK'
    BY <1>3, <2>1, <2>2 DEF TcpInv, TypeOK, StartThread, Goto, server, clients, PCs
  <2>4. /\ \A u \in Threads : Busy(u)' <=> Busy(u)
        /\ \A u \in Threads : Busy(u) => oSocket'[u] = oSocket[u]
    BY <2>1 DEF TcpInv, TypeOK, Goto, Busy
  <2>5. StartedForPort'
    BY <2>1, <2>2 DEF TcpInv, TypeOK, StartedForPort, Goto
  <2> QED BY <1>3, <2>3, <2>4, <2>5, SameServed DEF StartThread, server, clients
<1> QED BY <1>1, <1>2, <1>3 DEF MainStep

\* What a thread does once it has accepted keeps the invariant.
LEMMA Serving ==
    ASSUME TcpInv, NEW t \in Threads, ThreadStep(t) \/ Read(t) \/ Fails(t)
    PROVE  TcpInv'
<1>1. CASE SetUp(t)
  <2>1. TypeOK'
    BY <1>1 DEF TcpInv, TypeOK, SetUp, Goto, server, clients, PCs
  <2> QED BY <1>1, <2>1, Talking DEF SetUp, Busy, server, clients, PCs
<1>2. CASE SendBanner(t)
  <2>1. TypeOK'
    BY <1>2 DEF TcpInv, TypeOK, SendBanner, Goto, server, clients, PCs
  <2> QED BY <1>2, <2>1, Talking DEF SendBanner, Busy, server, clients, PCs
<1>3. CASE NextRead(t)
  <2>1. TypeOK'
    BY <1>3 DEF TcpInv, TypeOK, NextRead, Goto, server, clients, PCs
  <2>2. PICK label \in {"read", "close"} : Goto(t, label)
    BY <1>3 DEF NextRead
  <2> QED BY <1>3, <2>1, <2>2, Talking DEF NextRead, Busy, server, clients, PCs
<1>4. CASE Read(t)
  <2>1. TypeOK'
    BY <1>4 DEF TcpInv, TypeOK, Read, Goto, server, clients, PCs
  <2> QED BY <1>4, <2>1, Talking DEF Read, Busy, server, clients, PCs
<1>5. CASE AnswerPart(t)
  <2>1. parts[t] - 1 \in 0..MaxParts /\ 0 \in 0..MaxParts
    BY <1>5, TcpAssumption DEF TcpInv, TypeOK, AnswerPart
  <2>2. TypeOK'
    BY <1>5, <2>1 DEF TcpInv, TypeOK, AnswerPart, server, clients
  <2>3. StartedForPort' /\ \A u \in Threads : Busy(u)' <=> Busy(u)
    BY <1>5 DEF TcpInv, StartedForPort, Busy, AnswerPart
  <2> QED BY <1>5, <2>2, <2>3, SameServed DEF AnswerPart, server, clients
<1>6. CASE AllAnswered(t)
  <2>1. TypeOK'
    BY <1>6 DEF TcpInv, TypeOK, AllAnswered, Goto, server, clients, PCs
  <2> QED BY <1>6, <2>1, Talking DEF AllAnswered, Busy, server, clients, PCs
<1>7. CASE Close(t)
  BY <1>7, Ending DEF Close, Busy
<1>8. CASE TimesOut(t)
  <2>1. AfterException(t) \in {"open", "closed"}
    BY DEF AfterException
  <2> QED BY <1>8, <2>1, Ending DEF TimesOut, AfterException, Busy
<1>9. CASE Fails(t)
  <2>1. AfterException(t) \in {"open", "closed"}
    BY DEF AfterException
  <2> QED BY <1>9, <2>1, Ending DEF Fails, AfterException, Busy
<1> QED BY <1>1, <1>2, <1>3, <1>4, <1>5, <1>6, <1>7, <1>8, <1>9 DEF ThreadStep

\* Every step preserves TcpInv.
LEMMA TcpStep == TcpInv /\ [Next]_vars => TcpInv'
<1> SUFFICES ASSUME TcpInv, [Next]_vars
             PROVE  TcpInv'
  OBVIOUS
<1>1. CASE UNCHANGED vars
  BY <1>1 DEF vars, server, clients, thread, TcpInv, TypeOK, IdleServesNone,
              StartedForPort, OpenIsServed, Busy
<1> QED BY <1>1, Connecting, Starting, Accepting, Serving DEF Next

-----------------------------------------------------------------------------

\* The invariant of threads and connections.
THEOREM TcpInvariant == Spec => []TcpInv
BY TcpInit, TcpStep, PTL DEF Spec

\* Type correctness of the TCP honeypot.
THEOREM TcpTypes == Spec => []TypeOK
<1>1. TcpInv => TypeOK
  BY DEF TcpInv
<1> QED BY <1>1, TcpInvariant, PTL

\* No thread shares its connection, and none is left open without one, whatever
\* fails, over TCP and SSL.
THEOREM ConnectionsAreServed == Spec => []OpenIsServed
<1>1. TcpInv => OpenIsServed
  BY DEF TcpInv
<1> QED BY <1>1, TcpInvariant, PTL
=============================================================================
