------------------------------- MODULE IocpGo -------------------------------
(***************************************************************************)
(* go/iocp/main.go: the AcceptEx echo server in Go.  The workers are       *)
(* goroutines.  IOData is garbage collected, and the only references to    *)
(* one while its operation is outstanding are in the Windows kernel, which *)
(* the collector does not see: it may collect that IOData, whatever the    *)
(* comment in postWrite says.  The program goes on: the address is handed  *)
(* out again or gets other contents, a worker receives it with the packet  *)
(* of the old operation and reads whatever is there, and the runtime may   *)
(* stop the program when it meets the stray pointer.                       *)
(***************************************************************************)
EXTENDS IocpPort

VARIABLES
  live,     \* the IOData objects that are not collected
  astray,   \* whether the collector has taken an IOData in flight
  isRead,   \* data.isRead
  cliSock,  \* data.cliSock
  accept,   \* main's AcceptEx: "none", "pending", "data" (connected, bytes
            \* received), "empty" (connected, closed)
  mpc,      \* main: "open", "accept", "wait", "send", "post", "cleanup",
            \* "done", or "panic": some goroutine has panicked
  mdata,    \* main's local data while it is in use
  wpc,      \* a worker: "get", "work", "returned"
  wio,      \* its pOverlapped, which keeps its value until the next packet
  wsize     \* its ioSize

heapVars == <<live, astray, isRead, cliSock>>
mainVars == <<accept, mpc, mdata>>
workVars == <<wpc, wio, wsize>>
goVars == <<portVars, heapVars, mainVars, workVars>>

GoInit ==
  /\ PortInit
  /\ live = {} /\ astray = FALSE
  /\ isRead = [d \in Io |-> TRUE] /\ cliSock = [d \in Io |-> Invalid]
  /\ accept = "none" /\ mpc = "open" /\ mdata = Null
  /\ wpc = [w \in Worker |-> "get"]
  /\ wio = [w \in Worker |-> Null] /\ wsize = [w \in Worker |-> 0]

\* The process runs until main returns or a goroutine panics.
Alive == mpc \notin {"done", "panic"}

\* The IOData that the kernel or the port refers to.
InFlight == PendingIo \cup QueuedIo

\* The workers that handle a packet, and the IOData main and they work on.
Busy == {w \in Worker : wpc[w] = "work" /\ wio[w] # Null}
InHand == {wio[w] : w \in Busy} \cup ({mdata} \ {Null})

-----------------------------------------------------------------------------
(***************************************************************************)
(* closeIO, postRead and postWrite, called by main and by the workers.     *)
(***************************************************************************)

closeIO(d) ==
  /\ CloseSocket(cliSock[d])
  /\ UNCHANGED <<queue, heapVars>>

postRead(d) ==
  \/ /\ isRead' = [isRead EXCEPT ![d] = TRUE]
     /\ Issue(d, "recv", cliSock[d])
     /\ UNCHANGED <<sock, bound, queue, live, astray, cliSock>>
  \/ closeIO(d)

postWrite(d) ==
  \/ /\ isRead' = [isRead EXCEPT ![d] = FALSE]
     /\ Issue(d, "send", cliSock[d])
     /\ UNCHANGED <<sock, bound, queue, live, astray, cliSock>>
  \/ closeIO(d)

-----------------------------------------------------------------------------
(***************************************************************************)
(* The garbage collector.  The roots are main's data and the workers'      *)
(* pOverlapped.                                                            *)
(***************************************************************************)

Roots == {mdata} \cup {wio[w] : w \in {v \in Worker : wpc[v] # "returned"}}

Collect(d) ==
  /\ d \in live \ Roots
  /\ live' = live \ {d}
  /\ astray' = (astray \/ d \in InFlight)
  /\ UNCHANGED <<portVars, isRead, cliSock, mainVars, workVars>>

\* The memory of an IOData that was collected too early gets other contents.
Reuse(d) ==
  /\ d \in (InHand \cup InFlight) \ live
  /\ \E b \in BOOLEAN, s \in Sock \cup {Invalid} :
       /\ isRead' = [isRead EXCEPT ![d] = b]
       /\ cliSock' = [cliSock EXCEPT ![d] = s]
  /\ UNCHANGED <<portVars, live, astray, mainVars, workVars>>

\* The runtime meets the stray pointer, or what was written through it.
Crash ==
  /\ astray /\ mpc' = "panic"
  /\ UNCHANGED <<portVars, heapVars, accept, mdata, workVars>>

-----------------------------------------------------------------------------
(***************************************************************************)
(* workThread.                                                             *)
(***************************************************************************)

\* GetQueuedCompletionStatus returns an error for an operation that failed,
\* and the goroutine returns.
Get(w) ==
  /\ wpc[w] = "get" /\ queue # <<>>
  /\ queue' = Tail(queue)
  /\ LET pkt == Head(queue) IN
     /\ wio' = [wio EXCEPT ![w] = pkt.io]
     /\ wsize' = [wsize EXCEPT ![w] = pkt.size]
     /\ \/ wpc' = [wpc EXCEPT ![w] = "work"]
        \/ pkt.size = 0 /\ pkt.io # Null /\ wpc' = [wpc EXCEPT ![w] = "returned"]
  /\ UNCHANGED <<sock, bound, pend, heapVars, mainVars>>

\* A packet without bytes ends the goroutine too, after closeIO.
Disconnect(w) ==
  /\ wpc[w] = "work" /\ wsize[w] = 0 /\ wio[w] # Null
  /\ closeIO(wio[w])
  /\ wpc' = [wpc EXCEPT ![w] = "returned"]
  /\ UNCHANGED <<wio, wsize, mainVars>>

\* The packets posted when main returns have no IOData: closeIO dereferences
\* nil and the program panics.
DisconnectNil(w) ==
  /\ wpc[w] = "work" /\ wio[w] = Null
  /\ mpc' = "panic"
  /\ UNCHANGED <<portVars, heapVars, accept, mdata, workVars>>

\* Mutant: the read and the write branch both run.
EchoBoth(w) ==
  /\ wpc[w] = "work" /\ wsize[w] = 1
  /\ LET d == wio[w] IN
     /\ pend' = pend \cup {[io |-> d, op |-> o, sock |-> cliSock[d], port |-> TRUE] :
                            o \in {"send", "recv"}}
     /\ UNCHANGED <<sock, bound, queue, heapVars>>
  /\ wpc' = [wpc EXCEPT ![w] = "get"]
  /\ UNCHANGED <<wio, wsize, mainVars>>

Echo(w) ==
  /\ wpc[w] = "work" /\ wsize[w] = 1
  /\ LET d == wio[w] IN IF isRead[d] THEN postWrite(d) ELSE postRead(d)
  /\ wpc' = [wpc EXCEPT ![w] = "get"]
  /\ UNCHANGED <<wio, wsize, mainVars>>

-----------------------------------------------------------------------------
(***************************************************************************)
(* The accept loop of main.                                                *)
(***************************************************************************)

OpenSocket ==
  /\ mpc = "open" /\ mpc' = "accept"
  /\ \E d \in Io \ live, s \in {x \in Sock : sock[x] = "free"} :
       /\ live' = live \cup {d} /\ mdata' = d
       /\ sock' = [sock EXCEPT ![s] = "idle"]
       /\ cliSock' = [cliSock EXCEPT ![d] = s]
       /\ isRead' = [isRead EXCEPT ![d] = TRUE]
  /\ UNCHANGED <<bound, pend, queue, astray, accept, workVars>>

SocketFails ==
  /\ mpc = "open" /\ mpc' = "post"
  /\ UNCHANGED <<portVars, heapVars, accept, mdata, workVars>>

\* The event and AcceptEx.
StartAccept ==
  /\ mpc = "accept" /\ mpc' = "wait" /\ accept' = "pending"
  /\ UNCHANGED <<portVars, heapVars, mdata, workVars>>

\* The event, AcceptEx, the wait, its result or CreateIoCompletionPort fails:
\* the loop ends.
GiveUp ==
  /\ mpc \in {"accept", "wait"} /\ mpc' = "post"
  /\ closeIO(mdata) /\ mdata' = Null /\ accept' = "none"
  /\ UNCHANGED workVars

\* AcceptEx completes when a client has connected and has sent its first
\* bytes, or has closed the connection without sending any.
Accepted ==
  /\ accept = "pending" /\ Open(cliSock[mdata])
  /\ \/ accept' = "data" /\ sock' = [sock EXCEPT ![cliSock[mdata]] = "up"]
     \/ accept' = "empty" /\ sock' = [sock EXCEPT ![cliSock[mdata]] = "down"]
  /\ UNCHANGED <<bound, pend, queue, heapVars, mpc, mdata, workVars>>

AcceptEmpty ==
  /\ mpc = "wait" /\ accept = "empty" /\ mpc' = "open"
  /\ closeIO(mdata) /\ mdata' = Null /\ accept' = "none"
  /\ UNCHANGED workVars

\* CreateIoCompletionPort.
Bind ==
  /\ mpc = "wait" /\ accept = "data" /\ Open(cliSock[mdata])
  /\ mpc' = "send" /\ accept' = "none"
  /\ bound' = bound \cup {cliSock[mdata]}
  /\ UNCHANGED <<sock, pend, queue, heapVars, mdata, workVars>>

\* The first bytes are sent back; main does not use data any more.
FirstWrite ==
  /\ mpc = "send" /\ mpc' = "open"
  /\ postWrite(mdata) /\ mdata' = Null
  /\ UNCHANGED <<accept, workVars>>

\* The deferred functions of main: one packet per worker, then the cleanup.
Post ==
  /\ mpc = "post" /\ mpc' = "cleanup"
  /\ queue' = queue \o [w \in 1..Cardinality(Worker) |-> [io |-> Null, size |-> 0]]
  /\ UNCHANGED <<sock, bound, pend, heapVars, accept, mdata, workVars>>

Return ==
  /\ mpc = "cleanup" /\ mpc' = "done"
  /\ UNCHANGED <<portVars, heapVars, accept, mdata, workVars>>

Kernel == KernelStep /\ UNCHANGED <<heapVars, mainVars, workVars>>

Ended == ~Alive /\ UNCHANGED goVars

Step ==
  \/ OpenSocket \/ SocketFails \/ StartAccept \/ GiveUp \/ Accepted
  \/ AcceptEmpty \/ Bind \/ FirstWrite \/ Post \/ Return \/ Kernel
  \/ \E w \in Worker : Get(w) \/ Disconnect(w) \/ DisconnectNil(w) \/ Echo(w)
  \/ \E d \in Io : Collect(d) \/ Reuse(d)
  \/ Crash

GoNext == (Alive /\ Step) \/ Ended

GoSpec == GoInit /\ [][GoNext]_goVars

-----------------------------------------------------------------------------
(***************************************************************************)
(* Properties.                                                             *)
(***************************************************************************)

\* The values the variables may take, a part of Owned.
GoTypeOK ==
  /\ PortTypeOK
  /\ live \subseteq Io /\ astray \in BOOLEAN
  /\ isRead \in [Io -> BOOLEAN]
  /\ cliSock \in [Io -> Sock \cup {Invalid}]
  /\ accept \in {"none", "pending", "data", "empty"}
  /\ mpc \in {"open", "accept", "wait", "send", "post", "cleanup", "done", "panic"}
  /\ mdata \in Io \cup {Null}
  /\ wpc \in [Worker -> {"get", "work", "returned"}]
  /\ wio \in [Worker -> Io \cup {Null}]
  /\ wsize \in [Worker -> {0, 1}]

\* No IOData the kernel or the port refers to has been collected, which is
\* what postWrite prints the pointer for (main.go:216).
Intact == InFlight \subseteq live

\* Ownership of IOData and sockets (postWrite and postRead hand the IOData to
\* the kernel, main.go:218, 231; closeIO closes its socket, main.go:112).  As
\* long as the collector has never taken an IOData in flight, what a goroutine
\* works on is not collected, an IOData is in one goroutine's hands or in
\* flight once, never both, its socket is open, and no other one has the same
\* socket, so closeIO closes nobody else's connection.  Nothing but the type
\* of the variables is claimed of what follows such a collection.
Owned ==
  /\ GoTypeOK
  /\ ~astray =>
       /\ InHand \cup InFlight \subseteq live
       /\ \A v, w \in Busy : wio[v] = wio[w] => v = w
       /\ mdata \notin {wio[w] : w \in Busy}
       /\ OnePerIo
       /\ InHand \cap InFlight = {}
       /\ \A d \in InHand \cup InFlight : Open(cliSock[d])
       /\ \A d, e \in InHand \cup InFlight : cliSock[d] = cliSock[e] => d = e
=============================================================================
