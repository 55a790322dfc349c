----------------------------- MODULE IocpServer -----------------------------
(***************************************************************************)
(* cmake/iocp/server.c: an echo server whose main thread accepts and whose *)
(* worker threads serve the completion port.  SIGINT sets IsExit.          *)
(***************************************************************************)
EXTENDS IocpPort

VARIABLES
  live,     \* the IoData objects that are allocated
  opCode,   \* data->opCode
  cliSock,  \* data->cliSock
  IsExit,   \* IsExit
  mpc,      \* main: "accept", "serve", "read", "post", "cleanup", "done"
  msock,    \* main's local cliSock
  mio,      \* main's local data
  wpc,      \* a worker: "get", "work", "exited"
  wio,      \* its local ctx
  wsize     \* its local dwIoSize

mainVars == <<IsExit, mpc, msock, mio>>
heapVars == <<live, opCode, cliSock>>
workVars == <<wpc, wio, wsize>>
vars == <<portVars, heapVars, mainVars, workVars>>

Init ==
  /\ PortInit
  /\ live = {}
  /\ opCode = [d \in Io |-> "read"] /\ cliSock = [d \in Io |-> Invalid]
  /\ IsExit = FALSE /\ mpc = "accept" /\ msock = Invalid /\ mio = Null
  /\ wpc = [w \in Worker |-> "get"]
  /\ wio = [w \in Worker |-> Null] /\ wsize = [w \in Worker |-> 0]

\* The process runs until main returns.
Alive == mpc # "done"

-----------------------------------------------------------------------------
(***************************************************************************)
(* CloseConn, PostRead and PostWrite, called by main and by the workers.   *)
(***************************************************************************)

\* Mutant: the IoData is not freed.
CloseConnLeaks(d) ==
  /\ CloseSocket(cliSock[d])
  /\ UNCHANGED <<live, opCode, cliSock, queue>>

CloseConn(d) ==
  /\ CloseSocket(cliSock[d])
  /\ live' = live \ {d}
  /\ UNCHANGED <<opCode, cliSock, queue>>

\* Mutant: PostRead reports the failure and leaves the closing to its caller.
PostReadNoClose(d) ==
  /\ opCode' = [opCode EXCEPT ![d] = "read"]
  /\ \/ Issue(d, "recv", cliSock[d]) /\ UNCHANGED <<sock, bound, queue, live, cliSock>>
     \/ UNCHANGED <<portVars, live, cliSock>>

PostRead(d) ==
  \/ /\ opCode' = [opCode EXCEPT ![d] = "read"]
     /\ Issue(d, "recv", cliSock[d])
     /\ UNCHANGED <<sock, bound, queue, live, cliSock>>
  \/ CloseConn(d)

PostWrite(d) ==
  \/ /\ opCode' = [opCode EXCEPT ![d] = "write"]
     /\ Issue(d, "send", cliSock[d])
     /\ UNCHANGED <<sock, bound, queue, live, cliSock>>
  \/ CloseConn(d)

-----------------------------------------------------------------------------
(***************************************************************************)
(* WorkerThread.                                                           *)
(***************************************************************************)

\* GetQueuedCompletionStatus returns the oldest packet, for a failed
\* operation too; a packet without bytes and without IoData ends the thread.
Get(w) ==
  /\ Alive /\ wpc[w] = "get" /\ queue # <<>>
  /\ queue' = Tail(queue)
  /\ LET pkt == Head(queue) IN
     /\ wio' = [wio EXCEPT ![w] = pkt.io]
     /\ wsize' = [wsize EXCEPT ![w] = pkt.size]
     /\ wpc' = [wpc EXCEPT ![w] = IF pkt.io = Null THEN "exited" ELSE "work"]
  /\ UNCHANGED <<sock, bound, pend, heapVars, mainVars>>

Handle(w) ==
  /\ Alive /\ wpc[w] = "work"
  /\ LET d == wio[w] IN
     \/ wsize[w] = 0 /\ CloseConn(d)
     \/ wsize[w] = 1 /\ opCode[d] = "read" /\ PostWrite(d)
     \/ wsize[w] = 1 /\ opCode[d] = "write" /\ PostRead(d)
  /\ wpc' = [wpc EXCEPT ![w] = "get"]
  /\ wio' = [wio EXCEPT ![w] = Null] /\ UNCHANGED wsize
  /\ UNCHANGED mainVars

-----------------------------------------------------------------------------
(***************************************************************************)
(* OnSignal and the accept loop of NetWork.                                *)
(***************************************************************************)

OnSignal ==
  /\ Alive /\ ~IsExit /\ IsExit' = TRUE
  /\ UNCHANGED <<portVars, heapVars, mpc, msock, mio, workVars>>

\* The listening socket does not block: accept fails, and the loop turns,
\* when no connection is waiting.
Accept ==
  /\ mpc = "accept" /\ ~IsExit /\ mpc' = "serve"
  /\ \E s \in Sock :
       /\ sock[s] = "free"
       /\ sock' = [sock EXCEPT ![s] = "up"]
       /\ msock' = s
  /\ UNCHANGED <<bound, pend, queue, heapVars, IsExit, mio, workVars>>

\* CreateIoCompletionPort or the allocation of the IoData fails.
ServeFails ==
  /\ mpc = "serve" /\ mpc' = "accept"
  /\ CloseSocket(msock) /\ msock' = Invalid
  /\ UNCHANGED <<queue, heapVars, IsExit, mio, workVars>>

\* Mutant: the connection is not associated with the completion port.
ServeUnbound ==
  /\ mpc = "serve" /\ mpc' = "read"
  /\ \E d \in Io \ live :
       /\ live' = live \cup {d} /\ mio' = d
       /\ cliSock' = [cliSock EXCEPT ![d] = msock]
       /\ opCode' = [opCode EXCEPT ![d] = "read"]
  /\ msock' = Invalid
  /\ UNCHANGED <<portVars, IsExit, workVars>>

\* The connection is bound to the port and gets a zeroed IoData.
Serve ==
  /\ mpc = "serve" /\ mpc' = "read"
  /\ bound' = bound \cup {msock}
  /\ \E d \in Io \ live :
       /\ live' = live \cup {d} /\ mio' = d
       /\ cliSock' = [cliSock EXCEPT ![d] = msock]
       /\ opCode' = [opCode EXCEPT ![d] = "read"]
  /\ msock' = Invalid
  /\ UNCHANGED <<sock, pend, queue, IsExit, workVars>>

\* The first read.  When the buffer could not be allocated WSARecv fails.
FirstRead ==
  /\ mpc = "read" /\ mpc' = "accept"
  /\ PostRead(mio) /\ mio' = Null
  /\ UNCHANGED <<IsExit, msock, workVars>>

\* Mutant: IsExit is looked at only when a connection has been accepted.
LeaveLate ==
  /\ mpc = "serve" /\ IsExit /\ mpc' = "post"
  /\ CloseSocket(msock) /\ msock' = Invalid
  /\ UNCHANGED <<queue, heapVars, IsExit, mio, workVars>>

Leave ==
  /\ mpc = "accept" /\ IsExit /\ mpc' = "post"
  /\ UNCHANGED <<portVars, heapVars, IsExit, msock, mio, workVars>>

Post ==
  /\ mpc = "post" /\ mpc' = "cleanup"
  /\ queue' = Append(queue, [io |-> Null, size |-> 0])
  /\ UNCHANGED <<sock, bound, pend, heapVars, IsExit, msock, mio, workVars>>

\* WSACleanup, and main returns: the process ends with all its threads.
Return ==
  /\ mpc = "cleanup" /\ mpc' = "done"
  /\ UNCHANGED <<portVars, heapVars, IsExit, msock, mio, workVars>>

Kernel == Alive /\ KernelStep /\ UNCHANGED <<heapVars, mainVars, workVars>>

MainWork == ServeFails \/ Serve \/ FirstRead \/ Leave \/ Post \/ Return

Ended == mpc = "done" /\ UNCHANGED vars

Next ==
  \/ Accept \/ MainWork \/ OnSignal \/ Kernel \/ Ended
  \/ \E w \in Worker : Get(w) \/ Handle(w)

Spec == Init /\ [][Next]_vars

\* Every thread keeps running; an operation on a connection whose peer is
\* gone, or that was cancelled, completes.  Nothing makes clients connect,
\* send, leave, or the user press Ctrl-C.
Fairness ==
  /\ WF_vars(MainWork)
  /\ \A w \in Worker : WF_vars(Get(w) \/ Handle(w))
  /\ \A d \in Io :
       WF_vars(Kernel /\ \E p \in pend : p.io = d /\ Complete(p, 0))

FairSpec == Spec /\ Fairness

-----------------------------------------------------------------------------
(***************************************************************************)
(* Properties.                                                             *)
(***************************************************************************)

\* The values the variables may take.
TypeOK ==
  /\ PortTypeOK
  /\ live \subseteq Io
  /\ opCode \in [Io -> {"read", "write"}]
  /\ cliSock \in [Io -> Sock \cup {Invalid}]
  /\ IsExit \in BOOLEAN
  /\ mpc \in {"accept", "serve", "read", "post", "cleanup", "done"}
  /\ msock \in Sock \cup {Invalid} /\ mio \in Io \cup {Null}
  /\ wpc \in [Worker -> {"get", "work", "exited"}]
  /\ wio \in [Worker -> Io \cup {Null}]
  /\ wsize \in [Worker -> {0, 1}]

MainIo == {mio} \ {Null}
WorkerIo == {wio[w] : w \in Worker} \ {Null}

\* Ownership of IoData (CloseConn frees it, server.c:33): every allocated
\* IoData is in exactly one place - main's hands, one worker's hands, one
\* outstanding operation or one packet - and nothing else refers to one.  So
\* none is used after it was freed, freed twice, or lost.
Owned ==
  /\ OnePerIo
  /\ \A v, w \in Worker : wio[v] = wio[w] /\ wio[v] # Null => v = w
  /\ MainIo \cap (WorkerIo \cup PendingIo \cup QueuedIo) = {}
  /\ WorkerIo \cap (PendingIo \cup QueuedIo) = {}
  /\ live = MainIo \cup WorkerIo \cup PendingIo \cup QueuedIo

\* Ownership of handles (closesocket in CloseConn, server.c:31): the handle in
\* an allocated IoData is open, and no other IoData, nor main, has the same
\* value.  So no thread ever closes the socket of another connection, though
\* handle values are reused.
HandleOwned ==
  /\ \A d \in live : Open(cliSock[d]) /\ cliSock[d] # msock
  /\ \A d, e \in live : cliSock[d] = cliSock[e] => d = e

\* A peer that goes away is noticed (server.c:76): its connection is closed
\* and its IoData freed, unless the server is shutting down.
PeerGoneIsClosed ==
  \A d \in Io :
    (d \in live /\ cliSock[d] \in Sock /\ sock[cliSock[d]] = "down")
      ~> (d \notin live \/ mpc \in {"post", "cleanup", "done"})

\* SIGINT ends the server (server.c:181): once IsExit is set main returns,
\* whatever the clients and the workers do.
SignalStops == IsExit ~> (mpc = "done")
=============================================================================
