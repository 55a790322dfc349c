-------------------------- MODULE IocpServerProofs --------------------------
(***************************************************************************)
(* Proofs about the echo server of cmake/iocp/server.c, for any number of  *)
(* connections, IoData addresses and worker threads.                       *)
(*                                                                         *)
(* Owned and HandleOwned are proved together with the type invariant and   *)
(* with Hands, which says what main and the workers hold at each of their  *)
(* program locations.                                                      *)
(***************************************************************************)
EXTENDS IocpServer, IocpPortProofs

\* What a thread holds, by where it is.
Hands ==
  /\ mpc = "serve" => Open(msock)
  /\ mpc # "serve" => msock = Invalid
  /\ mpc = "read" <=> mio # Null
  /\ \A w \in Worker : wpc[w] = "work" <=> wio[w] # Null

\* Every connection that is served, and every operation on one, reports to
\* the completion port.
Ported == (\A d \in live : cliSock[d] \in bound) /\ (\A p \in pend : p.port)

IndInv == TypeOK /\ Owned /\ HandleOwned /\ Hands /\ Ported

USE PortAssumption

-----------------------------------------------------------------------------
(***************************************************************************)
(* CloseConn, PostRead and PostWrite on an IoData in a thread's hands: the *)
(* kernel takes it over, or it is freed with its socket.                   *)
(***************************************************************************)

\* What is known of the state after one of them.
Handed(d) ==
  /\ PortTypeOK' /\ PendUnique' /\ queue' = queue
  /\ opCode' \in [Io -> {"read", "write"}] /\ cliSock' = cliSock
  /\ live' \subseteq live /\ live \subseteq live' \cup {d}
  /\ PendingIo' = PendingIo \cup (live' \cap {d})
  /\ \A e \in live' : Open(cliSock[e])'
  /\ Ported'
  /\ \A x \in Sock : Open(x) /\ x # cliSock[d] => Open(x)'

\* Closing a connection leaves the sockets of all others open.
LEMMA OthersStayOpen ==
  ASSUME IndInv, NEW d \in live, CloseConn(d)
  PROVE  /\ \A e \in live \ {d} : Open(cliSock[e])'
         /\ \A x \in Sock : Open(x) /\ x # cliSock[d] => Open(x)'
<1>1. \A x \in Sock \ {cliSock[d]} : sock'[x] = sock[x]
  BY DEF CloseConn, CloseSocket
<1>2. \A x \in Sock : Open(x) /\ x # cliSock[d] => Open(x)'
  BY <1>1 DEF Open
<1>3. \A e \in live \ {d} : /\ cliSock[e] \in Sock /\ Open(cliSock[e])
                           /\ cliSock[e] # cliSock[d]
  BY DEF IndInv, HandleOwned, Open
<1>4. \A e \in live \ {d} : Open(cliSock[e])'
  BY <1>1, <1>3 DEF Open, CloseConn
<1> QED
  BY <1>2, <1>4

\* The IoData goes to the kernel or is gone, and no other is touched.
LEMMA PostKeeps ==
  ASSUME IndInv, NEW d \in live, d \notin PendingIo,
         CloseConn(d) \/ PostRead(d) \/ PostWrite(d)
  PROVE  Handed(d)
<1>0. PortTypeOK /\ PendUnique /\ d \in Io /\ opCode \in [Io -> {"read", "write"}]
  BY DEF IndInv, TypeOK, Owned, OnePerIo, PendUnique
<1>1. CASE CloseConn(d)
  <2>1. PendUnique' /\ PendingIo' = PendingIo /\ PortTypeOK'
    <3>1. CloseSocket(cliSock[d]) /\ queue' = queue
      BY <1>1 DEF CloseConn
    <3> QED
      BY <1>0, <3>1, CloseKeeps DEF PortTypeOK
  <2>2. live' = live \ {d} /\ queue' = queue /\ opCode' = opCode /\ cliSock' = cliSock
    BY <1>1 DEF CloseConn
  <2>3. Ported'
    <3>1. \A p \in pend' : p.port
      BY <1>0, <1>1, CloseKeeps DEF CloseConn, IndInv, Ported
    <3>2. \A e \in live' : cliSock[e] \in bound /\ cliSock[e] # cliSock[d]
      BY <2>2 DEF IndInv, Ported, HandleOwned
    <3> QED
      BY <1>1, <2>2, <3>1, <3>2 DEF Ported, CloseConn, CloseSocket
  <2> QED
    BY <1>0, <1>1, <2>1, <2>2, <2>3, OthersStayOpen DEF Handed
<1>2. ASSUME NEW what \in {"recv", "send"}, NEW code \in {"read", "write"},
             opCode' = [opCode EXCEPT ![d] = code],
             Issue(d, what, cliSock[d]),
             UNCHANGED <<sock, bound, queue, live, cliSock>>
      PROVE  Handed(d)
  <2>1. PortTypeOK' /\ PendUnique' /\ PendingIo' = PendingIo \cup {d}
    BY <1>0, <1>2, IssueKeeps
  <2>2. \A x : Open(x)' <=> Open(x)
    BY <1>2 DEF Open
  <2>3. \A e \in live : Open(cliSock[e])
    BY DEF IndInv, HandleOwned
  <2>4. \A e \in live' : Open(cliSock[e])'
    BY <1>2, <2>3 DEF Open
  <2>5. Ported'
    BY <1>0, <1>2, IssueKeeps DEF IndInv, Ported
  <2> QED
    BY <1>0, <1>2, <2>1, <2>2, <2>4, <2>5 DEF Handed
<1> QED
  BY <1>1, <1>2 DEF PostRead, PostWrite

-----------------------------------------------------------------------------
(***************************************************************************)
(* One lemma per group of actions.                                         *)
(***************************************************************************)

\* Ownership is about who holds what, nothing else.
LEMMA OwnedKept ==
  ASSUME Owned, UNCHANGED <<pend, queue, live, wio, mio>>
  PROVE  Owned'
<1>1. MainIo' = MainIo /\ WorkerIo' = WorkerIo
  BY DEF MainIo, WorkerIo
<1>2. PendingIo' = PendingIo /\ QueuedIo' = QueuedIo
  BY DEF PendingIo, QueuedIo
<1>3. OnePerIo'
  BY <1>2 DEF Owned, OnePerIo
<1> QED
  BY <1>1, <1>2, <1>3 DEF Owned

\* Nothing is allocated and nobody holds anything in the initial state.
LEMMA InitInv == Init => IndInv
<1> SUFFICES ASSUME Init PROVE IndInv
  OBVIOUS
<1>1. Len(queue) = 0 /\ 1..Len(queue) = {}
  BY DEF Init, PortInit
<1>2. PendingIo = {} /\ QueuedIo = {} /\ MainIo = {} /\ WorkerIo = {}
  BY <1>1 DEF Init, PortInit, PendingIo, QueuedIo, MainIo, WorkerIo
<1>3. TypeOK
  <2>1. PortTypeOK
    BY DEF Init, PortInit, PortTypeOK
  <2> QED
    BY <2>1 DEF Init, TypeOK
<1>4. Owned
  BY <1>1, <1>2 DEF Init, PortInit, Owned, OnePerIo
<1>5. HandleOwned /\ Hands /\ Ported
  BY DEF Init, PortInit, HandleOwned, Hands, Ported
<1> QED
  BY <1>3, <1>4, <1>5 DEF IndInv

\* A worker takes a packet, and the IoData it is about, from the queue.
LEMMA GetInv == ASSUME NEW w \in Worker, IndInv, Get(w) PROVE IndInv'
<1> DEFINE d == Head(queue).io
<1>1. /\ Head(queue) \in Packet /\ queue' \in Seq(Packet) /\ QueueUnique'
      /\ QueuedIo = QueuedIo' \cup ({d} \ {Null}) /\ d \notin QueuedIo'
  BY QueueTail DEF Get, IndInv, TypeOK, PortTypeOK, Owned, OnePerIo, QueueUnique
<1>2. /\ d \in Io \cup {Null} /\ Head(queue).size \in {0, 1}
      /\ wio' = [wio EXCEPT ![w] = d]
      /\ wsize' = [wsize EXCEPT ![w] = Head(queue).size]
      /\ wpc' = [wpc EXCEPT ![w] = IF d = Null THEN "exited" ELSE "work"]
      /\ UNCHANGED <<sock, bound, pend, heapVars, mainVars>>
  BY <1>1 DEF Get, Packet
<1> HIDE DEF d
<1>3. wio[w] = Null
  BY DEF Get, IndInv, Hands
<1>4. /\ wio \in [Worker -> Io \cup {Null}] /\ wsize \in [Worker -> {0, 1}]
      /\ wpc \in [Worker -> {"get", "work", "exited"}]
  BY DEF IndInv, TypeOK
<1>5. WorkerIo' = WorkerIo \cup ({d} \ {Null})
  <2>1. WorkerIo' = {wio'[v] : v \in Worker} \ {Null}
    BY DEF WorkerIo
  <2>2. wio'[w] = d /\ \A v \in Worker \ {w} : wio'[v] = wio[v]
    BY <1>2, <1>4
  <2> QED
    BY <1>3, <2>1, <2>2 DEF WorkerIo
<1>6. MainIo' = MainIo /\ PendingIo' = PendingIo
  BY <1>2 DEF MainIo, PendingIo, mainVars
<1>7. TypeOK'
  BY <1>1, <1>2 DEF IndInv, TypeOK, PortTypeOK, heapVars, mainVars
<1>8. Owned'
  <2>1. OnePerIo'
    <3>1. (\A p, q \in pend : p.io = q.io => p = q)'
      BY <1>2 DEF IndInv, Owned, OnePerIo
    <3>2. PendingIo' \cap QueuedIo' = {}
      BY <1>1, <1>6 DEF IndInv, Owned, OnePerIo
    <3> QED
      BY <1>1, <3>1, <3>2 DEF OnePerIo, QueueUnique
  <2>2. \A u, v \in Worker : wio'[u] = wio'[v] /\ wio'[u] # Null => u = v
    <3>1. \A v \in Worker : wio[v] # Null => wio[v] \in WorkerIo
      BY DEF WorkerIo
    <3>2. d # Null => d \notin WorkerIo
      BY <1>1 DEF IndInv, Owned
    <3> QED
      BY <1>2, <1>4, <3>1, <3>2 DEF IndInv, Owned
  <2>3. live' = MainIo' \cup WorkerIo' \cup PendingIo' \cup QueuedIo'
    <3>1. live' = live
      BY <1>2 DEF heapVars
    <3> QED
      BY <1>1, <1>5, <1>6, <3>1 DEF IndInv, Owned
  <2>4. MainIo' \cap (WorkerIo' \cup PendingIo' \cup QueuedIo') = {}
    BY <1>1, <1>5, <1>6 DEF IndInv, Owned
  <2>5. WorkerIo' \cap (PendingIo' \cup QueuedIo') = {}
    BY <1>1, <1>5, <1>6 DEF IndInv, Owned, OnePerIo
  <2> QED
    BY <2>1, <2>2, <2>3, <2>4, <2>5 DEF Owned
<1>9. HandleOwned' /\ Ported'
  BY <1>2 DEF IndInv, HandleOwned, Ported, Open, heapVars, mainVars
<1>10. Hands'
  BY <1>2, <1>4 DEF IndInv, Hands, Open, mainVars
<1> QED
  BY <1>7, <1>8, <1>9, <1>10 DEF IndInv

\* A worker answers, reads on, or closes, and lets go of the IoData.
LEMMA HandleInv == ASSUME NEW w \in Worker, IndInv, Handle(w) PROVE IndInv'
<1> DEFINE d == wio[w]
<1>1. d # Null /\ d \in WorkerIo
  BY DEF Handle, IndInv, Hands, WorkerIo
<1>2. d \in live /\ d \notin PendingIo /\ d \notin QueuedIo /\ d \notin MainIo
  BY <1>1 DEF IndInv, Owned
<1>3. Handed(d)
  BY <1>2, PostKeeps DEF Handle
<1>4. /\ wpc' = [wpc EXCEPT ![w] = "get"] /\ wio' = [wio EXCEPT ![w] = Null]
      /\ wsize' = wsize /\ UNCHANGED mainVars
  BY DEF Handle
<1>5. /\ wio \in [Worker -> Io \cup {Null}] /\ wsize \in [Worker -> {0, 1}]
      /\ wpc \in [Worker -> {"get", "work", "exited"}]
  BY DEF IndInv, TypeOK
<1>6. WorkerIo' = WorkerIo \ {d}
  <2>1. WorkerIo' = {wio'[v] : v \in Worker} \ {Null}
    BY DEF WorkerIo
  <2>2. wio'[w] = Null /\ \A v \in Worker \ {w} : wio'[v] = wio[v] /\ wio[v] # d
    BY <1>1, <1>4, <1>5 DEF IndInv, Owned
  <2> QED
    BY <2>1, <2>2 DEF WorkerIo
<1> HIDE DEF d
<1>7. MainIo' = MainIo /\ QueuedIo' = QueuedIo
  BY <1>3, <1>4 DEF MainIo, QueuedIo, mainVars, Handed
<1>8. TypeOK'
  <2>1. live' \subseteq Io /\ cliSock' \in [Io -> Sock \cup {Invalid}]
    BY <1>3 DEF IndInv, TypeOK, Handed
  <2> QED
    BY <1>3, <1>4, <1>5, <2>1 DEF IndInv, TypeOK, mainVars, Handed
<1>9. Owned'
  <2>1. OnePerIo'
    <3>1. PendingIo' \cap QueuedIo' = {}
      BY <1>2, <1>3, <1>7 DEF IndInv, Owned, OnePerIo, Handed
    <3> QED
      BY <1>3, <3>1 DEF IndInv, Owned, OnePerIo, PendUnique, Handed
  <2>2. \A u, v \in Worker : wio'[u] = wio'[v] /\ wio'[u] # Null => u = v
    BY <1>4, <1>5 DEF IndInv, Owned
  <2> QED
    BY <1>1, <1>2, <1>3, <1>6, <1>7, <2>1, <2>2 DEF IndInv, Owned, Handed
<1>10. HandleOwned' /\ Ported'
  BY <1>3, <1>4 DEF IndInv, HandleOwned, Handed, mainVars
<1>11. Hands'
  <2>1. mpc' = "serve" => Open(msock)'
    <3>1. mpc = "serve" => msock \in Sock /\ Open(msock) /\ msock # cliSock[d]
      BY <1>2 DEF IndInv, Hands, HandleOwned, Open
    <3> QED
      BY <1>3, <1>4, <3>1 DEF Handed, mainVars, Open
  <2> QED
    BY <1>4, <1>5, <2>1 DEF IndInv, Hands, mainVars
<1> QED
  BY <1>8, <1>9, <1>10, <1>11 DEF IndInv

\* main accepts a connection, whose handle value was free until now.
LEMMA AcceptInv == ASSUME IndInv, Accept PROVE IndInv'
<1>1. PICK s \in Sock : /\ sock[s] = "free" /\ sock' = [sock EXCEPT ![s] = "up"]
                        /\ msock' = s
  BY DEF Accept
<1>2. /\ mpc = "accept" /\ mpc' = "serve"
      /\ UNCHANGED <<bound, pend, queue, heapVars, IsExit, mio, workVars>>
  BY DEF Accept
<1>3. sock \in [Sock -> {"free", "idle", "up", "down"}]
  BY DEF IndInv, TypeOK, PortTypeOK
<1>4. TypeOK'
  <2>1. PortTypeOK'
    BY <1>1, <1>2, <1>3 DEF IndInv, TypeOK, PortTypeOK
  <2> QED
    BY <1>1, <1>2, <2>1 DEF IndInv, TypeOK, heapVars, workVars
<1>5. Owned'
  BY <1>2, OwnedKept DEF IndInv, heapVars, workVars
<1>6. HandleOwned'
  <2>1. \A d \in live : Open(cliSock[d]) /\ cliSock[d] # s
    BY <1>1 DEF IndInv, HandleOwned, Open
  <2>2. \A d \in live : Open(cliSock[d])'
    BY <1>1, <1>2, <1>3, <2>1 DEF Open, heapVars
  <2> QED
    BY <1>1, <1>2, <2>1, <2>2 DEF IndInv, HandleOwned, heapVars
<1>7. Hands' /\ Ported'
  BY <1>1, <1>2, <1>3 DEF IndInv, Hands, Ported, Open, heapVars, workVars
<1> QED
  BY <1>4, <1>5, <1>6, <1>7 DEF IndInv

\* main gives up a connection it has not made an IoData for.
LEMMA ServeFailsInv == ASSUME IndInv, ServeFails PROVE IndInv'
<1>1. /\ mpc = "serve" /\ mpc' = "accept" /\ msock' = Invalid
      /\ CloseSocket(msock)
      /\ UNCHANGED <<queue, heapVars, IsExit, mio, workVars>>
  BY DEF ServeFails
<1>2. PortTypeOK /\ PendUnique /\ \A p \in pend : p.port
  BY DEF IndInv, TypeOK, Owned, OnePerIo, PendUnique, Ported
<1>3. /\ PendUnique' /\ PendingIo' = PendingIo /\ PortTypeOK'
      /\ \A p \in pend' : p.port
      /\ \A x \in Sock \ {msock} : sock'[x] = sock[x]
  BY <1>1, <1>2, CloseKeeps DEF PortTypeOK
<1>4. TypeOK'
  BY <1>1, <1>3 DEF IndInv, TypeOK, heapVars, workVars
<1>5. Owned'
  <2>1. MainIo' = MainIo /\ WorkerIo' = WorkerIo /\ QueuedIo' = QueuedIo
    BY <1>1 DEF MainIo, WorkerIo, QueuedIo, workVars
  <2>2. OnePerIo'
    BY <1>1, <1>3, <2>1 DEF IndInv, Owned, OnePerIo, PendUnique
  <2> QED
    BY <1>1, <1>3, <2>1, <2>2 DEF IndInv, Owned, heapVars, workVars
<1>6. HandleOwned' /\ Ported'
  <2>1. \A d \in live : /\ cliSock[d] \in Sock \ {msock} /\ Open(cliSock[d])
                        /\ cliSock[d] \in bound
    BY DEF IndInv, HandleOwned, Ported, Open
  <2>2. \A d \in live : Open(cliSock[d])'
    BY <1>1, <1>3, <2>1 DEF Open, heapVars
  <2>3. \A d \in live : cliSock[d] \in bound' /\ cliSock[d] # Invalid
    BY <1>1, <2>1 DEF CloseSocket
  <2> QED
    BY <1>1, <1>3, <2>2, <2>3 DEF IndInv, HandleOwned, Ported, heapVars
<1>7. Hands'
  BY <1>1 DEF IndInv, Hands, workVars
<1> QED
  BY <1>4, <1>5, <1>6, <1>7 DEF IndInv

\* main makes an IoData for the connection it has accepted.
LEMMA ServeInv == ASSUME IndInv, Serve PROVE IndInv'
<1>1. /\ mpc = "serve" /\ mpc' = "read" /\ bound' = bound \cup {msock}
      /\ msock' = Invalid
      /\ UNCHANGED <<sock, pend, queue, IsExit, workVars>>
  BY DEF Serve
<1>2. PICK d \in Io \ live :
        /\ live' = live \cup {d} /\ mio' = d
        /\ cliSock' = [cliSock EXCEPT ![d] = msock]
        /\ opCode' = [opCode EXCEPT ![d] = "read"]
  BY DEF Serve
<1>3. msock \in Sock /\ Open(msock) /\ mio = Null
  BY <1>1 DEF IndInv, Hands, Open
<1>4. cliSock \in [Io -> Sock \cup {Invalid}] /\ live \subseteq Io
  BY DEF IndInv, TypeOK
<1>5. cliSock'[d] = msock /\ \A e \in live : cliSock'[e] = cliSock[e]
  BY <1>2, <1>4
<1>6. TypeOK'
  <2>1. PortTypeOK'
    BY <1>1, <1>3 DEF IndInv, TypeOK, PortTypeOK
  <2> QED
    BY <1>1, <1>2, <1>3, <2>1 DEF IndInv, TypeOK, workVars
<1>7. Owned'
  <2>1. WorkerIo' = WorkerIo /\ QueuedIo' = QueuedIo /\ PendingIo' = PendingIo
    BY <1>1 DEF WorkerIo, QueuedIo, PendingIo, workVars
  <2>2. MainIo = {} /\ MainIo' = {d}
    BY <1>2, <1>3 DEF MainIo
  <2>3. OnePerIo'
    BY <1>1, <2>1 DEF IndInv, Owned, OnePerIo
  <2> QED
    BY <1>1, <1>2, <2>1, <2>2, <2>3 DEF IndInv, Owned, workVars
<1>8. HandleOwned' /\ Ported'
  <2>1. \A e \in live : Open(cliSock[e]) /\ cliSock[e] # msock /\ cliSock[e] \in bound
    BY DEF IndInv, HandleOwned, Ported
  <2>2. \A e \in live' : Open(cliSock[e])'
    BY <1>1, <1>2, <1>3, <1>5, <2>1 DEF Open
  <2>3. \A e, f \in live' : cliSock'[e] = cliSock'[f] => e = f
    BY <1>2, <1>5, <2>1 DEF IndInv, HandleOwned
  <2>4. \A e \in live' : cliSock'[e] # msock' /\ cliSock'[e] \in bound'
    BY <1>1, <1>2, <1>3, <1>5, <2>1 DEF Open
  <2> QED
    BY <1>1, <2>2, <2>3, <2>4 DEF IndInv, HandleOwned, Ported
<1>9. Hands'
  BY <1>1, <1>2 DEF IndInv, Hands, workVars
<1> QED
  BY <1>6, <1>7, <1>8, <1>9 DEF IndInv

\* main posts the first read on the new connection and forgets its IoData.
LEMMA FirstReadInv == ASSUME IndInv, FirstRead PROVE IndInv'
<1> DEFINE d == mio
<1>1. /\ mpc = "read" /\ mpc' = "accept" /\ PostRead(d) /\ mio' = Null
      /\ UNCHANGED <<IsExit, msock, workVars>>
  BY DEF FirstRead
<1>2. d # Null /\ MainIo = {d} /\ MainIo' = {}
  BY <1>1 DEF IndInv, Hands, MainIo
<1>3. d \in live /\ d \notin PendingIo /\ d \notin QueuedIo /\ d \notin WorkerIo
  BY <1>2 DEF IndInv, Owned
<1>4. Handed(d)
  BY <1>1, <1>3, PostKeeps
<1> HIDE DEF d
<1>5. WorkerIo' = WorkerIo /\ QueuedIo' = QueuedIo
  BY <1>1, <1>4 DEF WorkerIo, QueuedIo, workVars, Handed
<1>6. TypeOK'
  <2>1. live' \subseteq Io /\ cliSock' \in [Io -> Sock \cup {Invalid}]
    BY <1>4 DEF IndInv, TypeOK, Handed
  <2> QED
    BY <1>1, <1>4, <2>1 DEF IndInv, TypeOK, workVars, Handed
<1>7. Owned'
  <2>1. OnePerIo'
    <3>1. PendingIo' \cap QueuedIo' = {}
      BY <1>3, <1>4, <1>5 DEF IndInv, Owned, OnePerIo, Handed
    <3> QED
      BY <1>4, <3>1 DEF IndInv, Owned, OnePerIo, PendUnique, Handed
  <2>2. live' = MainIo' \cup WorkerIo' \cup PendingIo' \cup QueuedIo'
    BY <1>2, <1>3, <1>4, <1>5 DEF IndInv, Owned, Handed
  <2>3. WorkerIo' \cap (PendingIo' \cup QueuedIo') = {}
    BY <1>3, <1>4, <1>5 DEF IndInv, Owned, Handed
  <2> QED
    BY <1>1, <1>2, <2>1, <2>2, <2>3 DEF IndInv, Owned, workVars
<1>8. HandleOwned' /\ Ported'
  BY <1>1, <1>4 DEF IndInv, HandleOwned, Handed
<1>9. Hands'
  BY <1>1 DEF IndInv, Hands, workVars
<1> QED
  BY <1>6, <1>7, <1>8, <1>9 DEF IndInv

\* An operation completes: its IoData moves from the kernel to the queue.
LEMMA CompleteInv ==
  ASSUME IndInv, NEW p \in pend, NEW n \in {0, 1}, Complete(p, n),
         UNCHANGED <<heapVars, mainVars, workVars>>
  PROVE  IndInv'
<1> DEFINE pkt == [io |-> p.io, size |-> n]
<1>1. p \in Op /\ p.port
  BY DEF IndInv, TypeOK, PortTypeOK, Ported
<1>2. /\ pend' = pend \ {p} /\ queue' = Append(queue, pkt)
      /\ UNCHANGED <<sock, bound>>
  BY <1>1 DEF Complete
<1>3. pkt \in Packet /\ pkt.io = p.io /\ p.io \in Io /\ p.io # Null
  BY <1>1 DEF Packet, Op
<1>4. p.io \in PendingIo /\ p.io \notin QueuedIo
  BY DEF PendingIo, IndInv, Owned, OnePerIo
<1> HIDE DEF pkt
<1>5. queue' \in Seq(Packet) /\ QueueUnique' /\ QueuedIo' = QueuedIo \cup {p.io}
  BY <1>2, <1>3, <1>4, QueueAppend DEF IndInv, TypeOK, PortTypeOK, Owned,
     OnePerIo, QueueUnique
<1>6. PendingIo' = PendingIo \ {p.io}
  BY <1>2 DEF PendingIo, IndInv, Owned, OnePerIo
<1>7. MainIo' = MainIo /\ WorkerIo' = WorkerIo
  BY DEF MainIo, WorkerIo, mainVars, workVars
<1>8. TypeOK'
  <2>1. PortTypeOK'
    BY <1>2, <1>5 DEF IndInv, TypeOK, PortTypeOK
  <2> QED
    BY <2>1 DEF IndInv, TypeOK, heapVars, mainVars, workVars
<1>9. Owned'
  <2>1. OnePerIo'
    <3>1. PendingIo' \cap QueuedIo' = {}
      BY <1>5, <1>6 DEF IndInv, Owned, OnePerIo
    <3>2. \A q, r \in pend' : q.io = r.io => q = r
      BY <1>2 DEF IndInv, Owned, OnePerIo
    <3> QED
      BY <1>5, <3>1, <3>2 DEF OnePerIo, QueueUnique
  <2>2. PendingIo' \cup QueuedIo' = PendingIo \cup QueuedIo
    BY <1>4, <1>5, <1>6
  <2>3. live' = live /\ wio' = wio
    BY DEF heapVars, workVars
  <2>4. live' = MainIo' \cup WorkerIo' \cup PendingIo' \cup QueuedIo'
    BY <1>7, <2>2, <2>3 DEF IndInv, Owned
  <2>5. /\ MainIo' \cap (WorkerIo' \cup PendingIo' \cup QueuedIo') = {}
        /\ WorkerIo' \cap (PendingIo' \cup QueuedIo') = {}
    BY <1>7, <2>2 DEF IndInv, Owned
  <2> QED
    BY <2>1, <2>3, <2>4, <2>5 DEF IndInv, Owned
<1>10. HandleOwned' /\ Hands' /\ Ported'
  BY <1>2 DEF IndInv, HandleOwned, Hands, Ported, Open, heapVars, mainVars, workVars
<1> QED
  BY <1>8, <1>9, <1>10 DEF IndInv

\* A peer that leaves changes no handle and no IoData.
LEMMA PeerLeavesInv ==
  ASSUME IndInv, NEW s \in Sock, PeerLeaves(s),
         UNCHANGED <<heapVars, mainVars, workVars>>
  PROVE  IndInv'
<1>1. /\ sock \in [Sock -> {"free", "idle", "up", "down"}]
      /\ sock[s] = "up" /\ sock' = [sock EXCEPT ![s] = "down"]
      /\ UNCHANGED <<bound, pend, queue>>
  BY DEF PeerLeaves, IndInv, TypeOK, PortTypeOK
<1>2. \A x : Open(x)' <=> Open(x)
  BY <1>1 DEF Open
<1>3. TypeOK'
  <2>1. PortTypeOK'
    BY <1>1 DEF IndInv, TypeOK, PortTypeOK
  <2> QED
    BY <2>1 DEF IndInv, TypeOK, heapVars, mainVars, workVars
<1>4. Owned'
  BY <1>1, OwnedKept DEF IndInv, heapVars, mainVars, workVars
<1>5. HandleOwned' /\ Hands' /\ Ported'
  <2>1. \A d \in live : Open(cliSock[d])' <=> Open(cliSock[d])
    BY <1>1 DEF Open, heapVars
  <2>2. Open(msock)' <=> Open(msock)
    BY <1>1 DEF Open, mainVars
  <2> QED
    BY <1>1, <2>1, <2>2 DEF IndInv, HandleOwned, Hands, Ported, heapVars,
                            mainVars, workVars
<1> QED
  BY <1>3, <1>4, <1>5 DEF IndInv

\* main posts the packet that ends a worker.
LEMMA PostInv == ASSUME IndInv, Post PROVE IndInv'
<1> DEFINE pkt == [io |-> Null, size |-> 0]
<1>1. /\ mpc = "post" /\ mpc' = "cleanup" /\ queue' = Append(queue, pkt)
      /\ UNCHANGED <<sock, bound, pend, heapVars, IsExit, msock, mio, workVars>>
  BY DEF Post
<1>2. pkt \in Packet /\ pkt.io = Null /\ Null \notin QueuedIo
  BY DEF Packet, QueuedIo
<1> HIDE DEF pkt
<1>3. queue' \in Seq(Packet) /\ QueueUnique' /\ QueuedIo' = QueuedIo
  <2>1. queue \in Seq(Packet) /\ QueueUnique
    BY DEF IndInv, TypeOK, PortTypeOK, Owned, OnePerIo, QueueUnique
  <2>2. /\ queue' \in Seq(Packet) /\ QueueUnique'
        /\ QueuedIo' = QueuedIo \cup ({pkt.io} \ {Null})
    BY <1>1, <1>2, <2>1, QueueAppend
  <2> QED
    BY <1>2, <2>2
<1>4. TypeOK'
  <2>1. PortTypeOK'
    BY <1>1, <1>3 DEF IndInv, TypeOK, PortTypeOK
  <2> QED
    BY <1>1, <2>1 DEF IndInv, TypeOK, heapVars, workVars
<1>5. Owned'
  <2>1. MainIo' = MainIo /\ WorkerIo' = WorkerIo /\ PendingIo' = PendingIo
    BY <1>1 DEF MainIo, WorkerIo, PendingIo, workVars
  <2>2. OnePerIo'
    BY <1>1, <1>3, <2>1 DEF IndInv, Owned, OnePerIo, QueueUnique
  <2> QED
    BY <1>1, <1>3, <2>1, <2>2 DEF IndInv, Owned, heapVars, workVars
<1>6. HandleOwned' /\ Hands' /\ Ported'
  BY <1>1 DEF IndInv, HandleOwned, Hands, Ported, Open, heapVars, workVars
<1> QED
  BY <1>4, <1>5, <1>6 DEF IndInv

\* A signal, main leaving its loop, main returning, and steps of others.
LEMMA QuietInv ==
  ASSUME IndInv, OnSignal \/ Leave \/ Return \/ UNCHANGED vars
  PROVE  IndInv'
<1>1. UNCHANGED <<portVars, heapVars, msock, mio, workVars>>
  BY DEF OnSignal, Leave, Return, vars, mainVars
<1>2. /\ IsExit' \in BOOLEAN
      /\ \/ mpc' = mpc
         \/ mpc = "accept" /\ mpc' = "post"
         \/ mpc = "cleanup" /\ mpc' = "done"
  BY DEF OnSignal, Leave, Return, vars, mainVars, IndInv, TypeOK
<1>3. TypeOK'
  BY <1>1, <1>2 DEF IndInv, TypeOK, PortTypeOK, portVars, heapVars, workVars
<1>4. Owned'
  BY <1>1, OwnedKept DEF IndInv, portVars, heapVars, workVars
<1>5. HandleOwned' /\ Ported'
  BY <1>1 DEF IndInv, HandleOwned, Ported, Open, portVars, heapVars
<1>6. Hands'
  BY <1>1, <1>2 DEF IndInv, Hands, Open, portVars, workVars
<1> QED
  BY <1>3, <1>4, <1>5, <1>6 DEF IndInv

-----------------------------------------------------------------------------
\* IndInv is inductive.
THEOREM Invariance == Spec => []IndInv
<1>1. IndInv /\ [Next]_vars => IndInv'
  <2> SUFFICES ASSUME IndInv, [Next]_vars PROVE IndInv'
    OBVIOUS
  <2>1. CASE \E w \in Worker : Get(w) \/ Handle(w)
    BY <2>1, GetInv, HandleInv
  <2>2. CASE MainWork
    BY <2>2, ServeFailsInv, ServeInv, FirstReadInv, PostInv, QuietInv DEF MainWork
  <2>3. CASE Kernel
    BY <2>3, CompleteInv, PeerLeavesInv DEF Kernel, KernelStep
  <2>4. CASE Accept
    BY <2>4, AcceptInv
  <2>5. CASE OnSignal \/ Ended \/ UNCHANGED vars
    BY <2>5, QuietInv DEF Ended
  <2> QED
    BY <2>1, <2>2, <2>3, <2>4, <2>5 DEF Next
<1> QED
  BY <1>1, InitInv, PTL DEF Spec

\* The variables of server.c keep their types, for any number of connections
\* and workers.
THEOREM TypeCorrect == Spec => []TypeOK
<1>1. IndInv => TypeOK
  BY DEF IndInv
<1> QED
  BY <1>1, Invariance, PTL

\* Ownership of IoData, for any number of connections and workers: in every
\* reachable state of server.c an allocated IoData is in exactly one place,
\* so CloseConn never frees one that somebody else still uses.
THEOREM IoDataIsOwned == Spec => []Owned
<1>1. IndInv => Owned
  BY DEF IndInv
<1> QED
  BY <1>1, Invariance, PTL

\* Ownership of handles, for any number of connections and workers: the
\* handle in an allocated IoData is open and nobody else has it, so
\* closesocket in CloseConn never closes another connection.
THEOREM HandleIsOwned == Spec => []HandleOwned
<1>1. IndInv => HandleOwned
  BY DEF IndInv
<1> QED
  BY <1>1, Invariance, PTL
=============================================================================
