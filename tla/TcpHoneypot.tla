----------------------------- MODULE TcpHoneypot -----------------------------
(***************************************************************************)
(* The old TCP honeypot (bin/tcp-honeypot.py): a main loop that selects    *)
(* over the listening sockets and starts a thread for each that is         *)
(* readable, and threads that accept a connection and talk to its client.  *)
(*                                                                         *)
(* The main loop does not wait for the thread to accept.  It may find the  *)
(* same connection pending again and start further threads for it, which   *)
(* then block in accept until the port gets other connections.             *)
(***************************************************************************)
EXTENDS Naturals, FiniteSets

CONSTANTS
    Ports,          \* keys of dListeners
    Configured,     \* what each port's listener asks for: "tcp", "ssl" or "ssh"
    Loop,           \* THP_LOOP of each port, the reads of a connection
    Threads,        \* the threads that the process can have
    Connections,    \* bound: connections that clients make
    MaxParts,       \* bound: parts into which THP_SPLIT divides a read
    NoPort,
    NoConnection

Kinds == {"tcp", "ssl", "ssh"}

ASSUME TcpAssumption ==
    /\ Configured \in [Ports -> Kinds]
    /\ Loop \in [Ports -> Nat]
    /\ MaxParts \in Nat \ {0}
    /\ NoPort \notin Ports
    /\ NoConnection \notin Connections

VARIABLES
    kind,           \* how each port is served, or "none"
    sockets,        \* the ports that listen
    readables,      \* what is left of select's result, or {} in select
    serving,        \* the main loop goes on
    connection,     \* the state of each connection
    port,           \* the port it is made to
    pc,             \* where each thread is
    oSocket,        \* the listening socket of each thread
    served,         \* the connection that it has accepted
    reads,          \* turns that its loop has made
    parts           \* parts of the last read that are left

server == <<kind, sockets>>
clients == <<connection, port>>
thread == <<pc, oSocket, served, reads, parts>>
vars == <<server, readables, serving, clients, thread>>

States == {"new", "pending", "open", "closed"}

PCs == {"none", "accept", "setup", "banner", "loop", "read", "answer", "close"}

\* A listener whose certificate cannot be loaded, or without paramiko, falls
\* back to TCP; a port that is taken is left out.
Init ==
    /\ kind \in [Ports -> Kinds \cup {"none"}]
    /\ \A p \in Ports : kind[p] \in {Configured[p], "tcp", "none"}
    /\ sockets = {p \in Ports : kind[p] # "none"}
    /\ sockets # {}
    /\ readables = {}
    /\ serving = TRUE
    /\ connection = [c \in Connections |-> "new"]
    /\ port = [c \in Connections |-> NoPort]
    /\ pc = [t \in Threads |-> "none"]
    /\ oSocket = [t \in Threads |-> NoPort]
    /\ served = [t \in Threads |-> NoConnection]
    /\ reads = [t \in Threads |-> 0]
    /\ parts = [t \in Threads |-> 0]

Goto(t, label) == pc' = [pc EXCEPT ![t] = label]

Pending(p) == {c \in Connections : connection[c] = "pending" /\ port[c] = p}

-----------------------------------------------------------------------------
(* Clients and the main loop.                                              *)

\* A client connects: the kernel queues the connection.
Connect(c, p) ==
    /\ connection[c] = "new"
    /\ p \in sockets
    /\ connection' = [connection EXCEPT ![c] = "pending"]
    /\ port' = [port EXCEPT ![c] = p]
    /\ UNCHANGED <<server, readables, serving, thread>>

\* select.select(sockets, [], [])
Select ==
    /\ serving
    /\ readables = {}
    /\ readables' = {p \in sockets : Pending(p) # {}}
    /\ readables' # {}
    /\ UNCHANGED <<server, serving, clients, thread>>

\* Mutant: the exception of a thread that cannot be started is not caught.
ThreadFails_NotCaught(p) ==
    /\ \A t \in Threads : pc[t] # "none"
    /\ serving' = FALSE
    /\ readables' = readables \ {p}
    /\ UNCHANGED <<server, clients, thread>>

\* There is no room for another thread: the exception is logged.
ThreadFails(p) ==
    /\ \A t \in Threads : pc[t] # "none"
    /\ readables' = readables \ {p}
    /\ UNCHANGED <<server, serving, clients, thread>>

\* ConnectionThread(oSocket, oOutput, options).start()
StartThread(p) ==
    /\ \E t \in Threads :
          /\ pc[t] = "none"
          /\ Goto(t, "accept")
          /\ oSocket' = [oSocket EXCEPT ![t] = p]
    /\ readables' = readables \ {p}
    /\ UNCHANGED <<server, serving, clients, served, reads, parts>>

-----------------------------------------------------------------------------
(* ConnectionThread.run.                                                   *)

\* Mutant: a socket without a timeout, as it was created.
HasTimeout_Never(p) == FALSE

\* settimeout; an SSH session is read through paramiko's channel, which has none.
HasTimeout(p) == kind[p] # "ssh"

\* self.oSocket.accept(): some connection of the port, not for sure the one for
\* which the thread was started.
Accept(t) ==
    /\ pc[t] = "accept"
    /\ \E c \in Pending(oSocket[t]) :
          /\ connection' = [connection EXCEPT ![c] = "open"]
          /\ served' = [served EXCEPT ![t] = c]
    /\ Goto(t, "setup")
    /\ UNCHANGED <<server, readables, serving, port, oSocket, reads, parts>>

\* The handshake of SSL or SSH; over TCP there is none.
SetUp(t) ==
    /\ pc[t] = "setup"
    /\ Goto(t, "banner")
    /\ UNCHANGED <<server, readables, serving, clients, oSocket, served, reads, parts>>

\* The banner, if there is one.
SendBanner(t) ==
    /\ pc[t] = "banner"
    /\ Goto(t, "loop")
    /\ UNCHANGED <<server, readables, serving, clients, oSocket, served, reads, parts>>

\* for i in range(0, dListener.get(THP_LOOP, 1))
NextRead(t) ==
    /\ pc[t] = "loop"
    /\ IF reads[t] < Loop[oSocket[t]]
       THEN reads' = [reads EXCEPT ![t] = @ + 1] /\ Goto(t, "read")
       ELSE Goto(t, "close") /\ UNCHANGED reads
    /\ UNCHANGED <<server, readables, serving, clients, oSocket, served, parts>>

\* recv or readline; also the end of the client's data is a read, of one part,
\* or with THP_SPLIT of none.
Read(t) ==
    /\ pc[t] = "read"
    /\ \E n \in 0..MaxParts : parts' = [parts EXCEPT ![t] = n]
    /\ Goto(t, "answer")
    /\ UNCHANGED <<server, readables, serving, clients, oSocket, served, reads>>

\* What a part calls for has been sent: echo, reply, and the reply of the longest
\* match.  A match whose action is to disconnect leaves the loop over the parts,
\* not the one over the reads.
AnswerPart(t) ==
    /\ pc[t] = "answer"
    /\ parts[t] > 0
    /\ \E n \in {parts[t] - 1, 0} : parts' = [parts EXCEPT ![t] = n]
    /\ UNCHANGED <<server, readables, serving, clients, pc, oSocket, served, reads>>

AllAnswered(t) ==
    /\ pc[t] = "answer"
    /\ parts[t] = 0
    /\ Goto(t, "loop")
    /\ UNCHANGED <<server, readables, serving, clients, oSocket, served, reads, parts>>

\* The thread ends and its object goes; label is what the connection is then.
End(t, label) ==
    /\ Goto(t, "none")
    /\ connection' = [connection EXCEPT ![served[t]] = label]
    /\ oSocket' = [oSocket EXCEPT ![t] = NoPort]
    /\ served' = [served EXCEPT ![t] = NoConnection]
    /\ reads' = [reads EXCEPT ![t] = 0]
    /\ parts' = [parts EXCEPT ![t] = 0]
    /\ UNCHANGED <<server, readables, serving, port>>

\* Mutant: the exception's traceback keeps the thread's locals, and the socket.
AfterException_Open(t) == "open"

\* With its last reference a socket is closed; paramiko's transport is a thread of
\* its own and keeps it.
AfterException(t) == IF kind[oSocket[t]] = "ssh" THEN "open" ELSE "closed"

\* shutdown and close.
Close(t) ==
    /\ pc[t] = "close"
    /\ End(t, "closed")

\* except socket.timeout
TimesOut(t) ==
    /\ pc[t] = "read"
    /\ HasTimeout(oSocket[t])
    /\ End(t, AfterException(t))

\* except Exception: the handshake or a send fails, also for its timeout, the
\* client has reset the connection, or it is shut down already.
Fails(t) ==
    /\ pc[t] \in {"setup", "banner", "read", "answer", "close"}
    /\ End(t, AfterException(t))

-----------------------------------------------------------------------------

MainStep == Select \/ \E p \in readables : ThreadFails(p) \/ StartThread(p)

\* What a thread does without waiting for its client for ever.
ThreadStep(t) ==
    \/ SetUp(t) \/ SendBanner(t) \/ NextRead(t) \/ AnswerPart(t) \/ AllAnswered(t)
    \/ Close(t) \/ TimesOut(t)

Next ==
    \/ \E c \in Connections, p \in Ports : Connect(c, p)
    \/ MainStep
    \/ \E t \in Threads : Accept(t) \/ ThreadStep(t) \/ Read(t) \/ Fails(t)

Spec == Init /\ [][Next]_vars

\* The main loop and the threads run.  A thread in accept that others deprive of
\* every connection may wait for ever, and so may one that reads from a client,
\* but for its timeout.
Fairness ==
    /\ WF_vars(MainStep)
    /\ \A t \in Threads : WF_vars(Accept(t)) /\ WF_vars(ThreadStep(t))

FairSpec == Spec /\ Fairness

-----------------------------------------------------------------------------
(* Properties.                                                             *)

\* Every variable has the type that its comment gives it.
TypeOK ==
    /\ kind \in [Ports -> Kinds \cup {"none"}]
    /\ sockets \subseteq Ports
    /\ readables \subseteq sockets
    /\ serving \in BOOLEAN
    /\ connection \in [Connections -> States]
    /\ port \in [Connections -> Ports \cup {NoPort}]
    /\ pc \in [Threads -> PCs]
    /\ oSocket \in [Threads -> Ports \cup {NoPort}]
    /\ served \in [Threads -> Connections \cup {NoConnection}]
    /\ reads \in [Threads -> Nat]
    /\ parts \in [Threads -> 0..MaxParts]

Busy(t) == pc[t] \notin {"none", "accept"}

\* Whatever fails, a thread that talks to a client has an open connection of its
\* port for itself, and no open connection is left without a thread: only an SSH
\* session may outlive its own.
OpenIsServed ==
    /\ \A t \in Threads : Busy(t) =>
          /\ served[t] \in Connections
          /\ connection[served[t]] = "open"
          /\ port[served[t]] = oSocket[t]
          /\ \A u \in Threads \ {t} : served[u] # served[t]
    /\ \A c \in Connections : connection[c] = "open" =>
          \/ \E t \in Threads : Busy(t) /\ served[t] = c
          \/ kind[port[c]] = "ssh"

\* No thread is left for the port: each waits in accept for connections of
\* another one, or for the client of an SSH session.
Starved(p) ==
    \A t \in Threads :
        \/ pc[t] = "accept" /\ oSocket[t] # p
        \/ pc[t] = "read" /\ ~HasTimeout(oSocket[t])

\* "the honeypot will accept TCP connections on the configured port": a pending
\* connection is accepted, also when threads could not be started for a while,
\* unless threads that were started once too often, or SSH sessions, have used up
\* all there can be.
PendingIsAccepted ==
    \A p \in Ports : Pending(p) # {} ~> Pending(p) = {} \/ []Starved(p)

\* However long a client stays quiet, its connection ends, over TCP and SSL.
ConnectionsEnd ==
    \A c \in Connections :
        connection[c] = "open" /\ kind[port[c]] # "ssh" ~> connection[c] = "closed"
=============================================================================
