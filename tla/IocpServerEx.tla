---------------------------- MODULE IocpServerEx ----------------------------
(***************************************************************************)
(* cmake/iocp/server_ex.c: the echo server whose main thread uses AcceptEx.*)
(* There is no exit flag: the SIGINT handler closes the socket AcceptEx    *)
(* waits on, found in the global curAcceptSock, which main sets for every  *)
(* new connection and every CloseConn, of any thread, resets.              *)
(*                                                                         *)
(* The C runtime runs the handler in a thread of its own and restores the  *)
(* default action first, so it runs at most once.                          *)
(***************************************************************************)
EXTENDS IocpPort

VARIABLES
  live,           \* the IoData objects that are allocated
  opCode,         \* data->opCode
  cliSock,        \* data->cliSock
  curAcceptSock,  \* curAcceptSock
  accept,         \* main's AcceptEx: "none", "pending", "failed", "data"
                  \* (connected, bytes received), "empty" (connected, closed)
  mpc,            \* main: "open", "accept", "wait", "bind", "send", "post",
                  \* "cleanup", "done"
  mio,            \* main's local data
  hpc,            \* OnSignal: "idle", "close", "closed", "skipped"
  wpc,            \* a worker: "get", "work", "exited"
  wio,            \* its local ctx
  wsize           \* its local dwIoSize

heapVars == <<live, opCode, cliSock>>
mainVars == <<accept, mpc, mio>>
workVars == <<wpc, wio, wsize>>
vars == <<portVars, heapVars, curAcceptSock, mainVars, hpc, workVars>>

Init ==
  /\ PortInit
  /\ live = {}
  /\ opCode = [d \in Io |-> "read"] /\ cliSock = [d \in Io |-> Invalid]
  /\ curAcceptSock = Invalid
  /\ accept = "none" /\ mpc = "open" /\ mio = Null
  /\ hpc = "idle"
  /\ wpc = [w \in Worker |-> "get"]
  /\ wio = [w \in Worker |-> Null] /\ wsize = [w \in Worker |-> 0]

\* The process runs until main returns.
Alive == mpc # "done"

\* Closing the socket AcceptEx waits on makes AcceptEx fail.
Close(s) ==
  /\ CloseSocket(s)
  /\ accept' = IF accept = "pending" /\ s = cliSock[mio] THEN "failed" ELSE accept

-----------------------------------------------------------------------------
(***************************************************************************)
(* CloseConn, PostRead and PostWrite, called by main and by the workers.   *)
(***************************************************************************)

\* Mutant: the IoData is not freed.
CloseConnLeaks(d) ==
  /\ Close(cliSock[d])
  /\ curAcceptSock' = Invalid
  /\ UNCHANGED <<opCode, cliSock, live, queue>>

CloseConn(d) ==
  /\ Close(cliSock[d])
  /\ live' = live \ {d}
  /\ curAcceptSock' = Invalid
  /\ UNCHANGED <<opCode, cliSock, queue>>

\* Mutant: ERROR_IO_PENDING is taken for a failure.
PostReadPendingFails(d) ==
  /\ Connected(cliSock[d])
  /\ sock' = [sock EXCEPT ![cliSock[d]] = "free"]
  /\ bound' = bound \ {cliSock[d]}
  /\ pend' = pend \cup {[io |-> d, op |-> "recv", sock |-> Invalid, port |-> TRUE]}
  /\ live' = live \ {d}
  /\ curAcceptSock' = Invalid
  /\ UNCHANGED <<opCode, cliSock, queue, accept>>

PostRead(d) ==
  \/ /\ opCode' = [opCode EXCEPT ![d] = "read"]
     /\ Issue(d, "recv", cliSock[d])
     /\ UNCHANGED <<sock, bound, queue, live, cliSock, curAcceptSock, accept>>
  \/ CloseConn(d)

PostWrite(d) ==
  \/ /\ opCode' = [opCode EXCEPT ![d] = "write"]
     /\ Issue(d, "send", cliSock[d])
     /\ UNCHANGED <<sock, bound, queue, live, cliSock, curAcceptSock, accept>>
  \/ CloseConn(d)

-----------------------------------------------------------------------------
(***************************************************************************)
(* WorkerThread.                                                           *)
(***************************************************************************)

\* GetQueuedCompletionStatus returns the oldest packet, for a failed
\* operation too; a packet without bytes and without IoData ends the thread.
Get(w) ==
  /\ Alive /\ wpc[w] = "get" /\ queue # <<>>
  /\ queue' = Tail(queue)
  /\ LET pkt == Head(queue) IN
     /\ wio' = [wio EXCEPT ![w] = pkt.io]
     /\ wsize' = [wsize EXCEPT ![w] = pkt.size]
     /\ wpc' = [wpc EXCEPT ![w] = IF pkt.io = Null THEN "exited" ELSE "work"]
  /\ UNCHANGED <<sock, bound, pend, heapVars, curAcceptSock, mainVars, hpc>>

Handle(w) ==
  /\ Alive /\ wpc[w] = "work"
  /\ LET d == wio[w] IN
     \/ wsize[w] = 0 /\ CloseConn(d)
     \/ wsize[w] = 1 /\ opCode[d] = "read" /\ PostWrite(d)
     \/ wsize[w] = 1 /\ opCode[d] = "write" /\ PostRead(d)
  /\ wpc' = [wpc EXCEPT ![w] = "get"]
  /\ wio' = [wio EXCEPT ![w] = Null] /\ UNCHANGED wsize
  /\ UNCHANGED <<mpc, mio, hpc>>

-----------------------------------------------------------------------------
(***************************************************************************)
(* OnSignal: the test and the closesocket read curAcceptSock separately.   *)
(***************************************************************************)

SignalTest ==
  /\ Alive /\ hpc = "idle"
  /\ hpc' = IF curAcceptSock # Invalid THEN "close" ELSE "skipped"
  /\ UNCHANGED <<portVars, heapVars, curAcceptSock, mainVars, workVars>>

SignalClose ==
  /\ Alive /\ hpc = "close" /\ hpc' = "closed"
  /\ Close(curAcceptSock)
  /\ UNCHANGED <<queue, heapVars, curAcceptSock, mpc, mio, workVars>>

-----------------------------------------------------------------------------
(***************************************************************************)
(* The accept loop of NetWork.                                             *)
(***************************************************************************)

\* malloc and WSASocket; the result of WSASocket is not tested.
OpenSocket ==
  /\ mpc = "open" /\ mpc' = "accept"
  /\ \E d \in Io \ live, s \in {x \in Sock : sock[x] = "free"} \cup {Invalid} :
       /\ live' = live \cup {d} /\ mio' = d
       /\ sock' = [x \in Sock |-> IF x = s THEN "idle" ELSE sock[x]]
       /\ curAcceptSock' = s
       /\ cliSock' = [cliSock EXCEPT ![d] = s]
       /\ opCode' = [opCode EXCEPT ![d] = "read"]
  /\ UNCHANGED <<bound, pend, queue, accept, hpc, workVars>>

OutOfMemory ==
  /\ mpc = "open" /\ mpc' = "post"
  /\ UNCHANGED <<portVars, heapVars, curAcceptSock, accept, mio, hpc, workVars>>

\* The buffer, the event and AcceptEx; the first two fail like AcceptEx does.
StartAccept ==
  /\ mpc = "accept" /\ UNCHANGED <<hpc, workVars>>
  /\ \/ /\ Open(cliSock[mio]) /\ accept' = "pending" /\ mpc' = "wait"
        /\ UNCHANGED <<portVars, heapVars, curAcceptSock, mio>>
     \/ CloseConn(mio) /\ mio' = Null /\ mpc' = "post"

\* AcceptEx completes when a client has connected and has sent its first
\* bytes, or has closed the connection without sending any.
Accepted ==
  /\ Alive /\ accept = "pending"
  /\ \/ accept' = "data" /\ sock' = [sock EXCEPT ![cliSock[mio]] = "up"]
     \/ accept' = "empty" /\ sock' = [sock EXCEPT ![cliSock[mio]] = "down"]
  /\ UNCHANGED <<bound, pend, queue, heapVars, curAcceptSock, mpc, mio, hpc, workVars>>

\* Mutant: an AcceptEx that failed is tried again.
AcceptFailedRetries ==
  /\ mpc = "wait" /\ accept = "failed" /\ mpc' = "open"
  /\ CloseConn(mio) /\ mio' = Null
  /\ UNCHANGED <<hpc, workVars>>

\* The event is signalled, or the 100 ms are over and WSAGetOverlappedResult
\* waits for the result: AcceptEx failed.
AcceptFailed ==
  /\ mpc = "wait" /\ accept = "failed" /\ mpc' = "post"
  /\ CloseConn(mio) /\ mio' = Null
  /\ UNCHANGED <<hpc, workVars>>

\* WSAWaitForMultipleEvents itself fails.  AcceptEx is still outstanding when
\* its IoData is freed; it reports to an event and is not among pend, so this
\* is not a use after free in the sense of Owned.
WaitFails ==
  /\ mpc = "wait" /\ accept = "pending" /\ mpc' = "post"
  /\ CloseConn(mio) /\ mio' = Null
  /\ UNCHANGED <<hpc, workVars>>

AcceptEmpty ==
  /\ mpc = "wait" /\ accept = "empty" /\ mpc' = "open"
  /\ CloseConn(mio) /\ mio' = Null
  /\ UNCHANGED <<hpc, workVars>>

AcceptData ==
  /\ mpc = "wait" /\ accept = "data" /\ mpc' = "bind"
  /\ UNCHANGED <<portVars, heapVars, curAcceptSock, accept, mio, hpc, workVars>>

\* Mutant: the connection is not associated with the completion port.
BindSkipped ==
  /\ mpc = "bind" /\ mpc' = "send"
  /\ UNCHANGED <<portVars, heapVars, curAcceptSock, accept, mio, hpc, workVars>>

\* CreateIoCompletionPort; it fails for a handle that is not open.
Bind ==
  /\ mpc = "bind" /\ UNCHANGED <<hpc, workVars>>
  /\ \/ /\ Open(cliSock[mio]) /\ mpc' = "send"
        /\ bound' = bound \cup {cliSock[mio]}
        /\ UNCHANGED <<sock, pend, queue, heapVars, curAcceptSock, accept, mio>>
     \/ CloseConn(mio) /\ mio' = Null /\ mpc' = "open"

\* The first bytes are sent back.
FirstWrite ==
  /\ mpc = "send" /\ mpc' = "open"
  /\ PostWrite(mio) /\ mio' = Null
  /\ UNCHANGED <<hpc, workVars>>

ExitPackets(n) == [i \in 1..n |-> [io |-> Null, size |-> 0]]

\* Mutant: one packet for all the workers, as in server.c.
PostOne ==
  /\ mpc = "post" /\ mpc' = "cleanup"
  /\ queue' = queue \o ExitPackets(1)
  /\ UNCHANGED <<sock, bound, pend, heapVars, curAcceptSock, accept, mio, hpc, workVars>>

Post ==
  /\ mpc = "post" /\ mpc' = "cleanup"
  /\ queue' = queue \o ExitPackets(Cardinality(Worker))
  /\ UNCHANGED <<sock, bound, pend, heapVars, curAcceptSock, accept, mio, hpc, workVars>>

\* WSACleanup, and main returns: the process ends with all its threads.
Return ==
  /\ mpc = "cleanup" /\ mpc' = "done"
  /\ UNCHANGED <<portVars, heapVars, curAcceptSock, accept, mio, hpc, workVars>>

Kernel ==
  /\ Alive /\ KernelStep
  /\ UNCHANGED <<heapVars, curAcceptSock, mainVars, hpc, workVars>>

MainStep ==
  \/ OpenSocket \/ OutOfMemory \/ StartAccept \/ AcceptFailed \/ AcceptEmpty
  \/ AcceptData \/ Bind \/ FirstWrite \/ Post \/ Return

Ended == mpc = "done" /\ UNCHANGED vars

Next ==
  \/ MainStep \/ WaitFails \/ Accepted \/ Kernel \/ Ended
  \/ SignalTest \/ SignalClose
  \/ \E w \in Worker : Get(w) \/ Handle(w)

Spec == Init /\ [][Next]_vars

\* Every thread keeps running; an operation on a connection whose peer is
\* gone, or that was cancelled, completes.  Nothing makes clients connect,
\* send, leave, or the user press Ctrl-C.
Fairness ==
  /\ WF_vars(MainStep) /\ WF_vars(SignalClose)
  /\ \A w \in Worker : WF_vars(Get(w) \/ Handle(w))
  /\ \A d \in Io :
       WF_vars(Kernel /\ \E p \in pend : p.io = d /\ Complete(p, 0))

FairSpec == Spec /\ Fairness

-----------------------------------------------------------------------------
(***************************************************************************)
(* Properties.                                                             *)
(***************************************************************************)

\* The values the variables may take, a part of Owned.
TypeOK ==
  /\ PortTypeOK
  /\ live \subseteq Io
  /\ opCode \in [Io -> {"read", "write"}]
  /\ cliSock \in [Io -> Sock \cup {Invalid}]
  /\ curAcceptSock \in Sock \cup {Invalid}
  /\ accept \in {"none", "pending", "failed", "data", "empty"}
  /\ mpc \in {"open", "accept", "wait", "bind", "send", "post", "cleanup", "done"}
  /\ mio \in Io \cup {Null}
  /\ hpc \in {"idle", "close", "closed", "skipped"}
  /\ wpc \in [Worker -> {"get", "work", "exited"}]
  /\ wio \in [Worker -> Io \cup {Null}]
  /\ wsize \in [Worker -> {0, 1}]

MainIo == {mio} \ {Null}
WorkerIo == {wio[w] : w \in Worker} \ {Null}

\* Ownership of IoData (CloseConn frees it, server_ex.c:114): main, a worker,
\* an outstanding operation or a packet that refers to an IoData is the only
\* one that does, and the IoData is allocated.  So none is used after it was
\* freed or freed twice, even when the signal handler closes a socket under
\* the thread that uses it and its handle value comes back.
Owned ==
  /\ TypeOK
  /\ OnePerIo
  /\ \A v, w \in Worker : wio[v] = wio[w] /\ wio[v] # Null => v = w
  /\ MainIo \cap (WorkerIo \cup PendingIo \cup QueuedIo) = {}
  /\ WorkerIo \cap (PendingIo \cup QueuedIo) = {}
  /\ MainIo \cup WorkerIo \cup PendingIo \cup QueuedIo \subseteq live

\* No IoData is lost and no handle is shared (CloseConn, server_ex.c:113):
\* until the signal handler has closed a socket, some thread, operation or
\* packet refers to every allocated IoData, the handle in it is open and in no
\* other IoData, so no thread closes the socket of another connection.  After
\* the handler ran neither holds: a worker may close once more a connection
\* the handler has closed, when its handle value may be in use, or post its
\* read on a handle value that main got for a new socket, not yet bound to the
\* port, whose completion reaches nobody.
HandleOwned ==
  hpc # "closed" =>
    /\ live \subseteq MainIo \cup WorkerIo \cup PendingIo \cup QueuedIo
    /\ \A d \in live : cliSock[d] # Invalid => Open(cliSock[d])
    /\ \A d, e \in live : cliSock[d] = cliSock[e] /\ cliSock[d] # Invalid => d = e

\* Shutdown (server_ex.c:274): once main has posted its packets there is one
\* in the queue for every worker that has not ended, so none waits for ever.
WorkersReleased ==
  mpc = "cleanup" =>
    Cardinality({i \in 1..Len(queue) : queue[i].io = Null})
      = Cardinality({w \in Worker : wpc[w] # "exited"})

\* A peer that goes away is noticed (server_ex.c:84): its connection is closed
\* and its IoData freed, unless the server is shutting down or the signal
\* handler has closed a socket.
PeerGoneIsClosed ==
  \A d \in Io :
    (d \in live /\ cliSock[d] \in Sock /\ sock[cliSock[d]] = "down")
      ~> \/ d \notin live
         \/ mpc \in {"post", "cleanup", "done"}
         \/ hpc = "closed"

\* SIGINT ends the server when the handler meets main in AcceptEx and finds
\* its socket (server_ex.c:122): the aborted AcceptEx leads to main's return.
AbortedAcceptExits == (mpc = "wait" /\ accept = "failed") ~> (mpc = "done")
=============================================================================
