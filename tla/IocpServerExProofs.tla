------------------------- MODULE IocpServerExProofs -------------------------
(***************************************************************************)
(* Proofs about the AcceptEx echo server of cmake/iocp/server_ex.c, for    *)
(* any number of connections, IoData addresses and worker threads.         *)
(*                                                                         *)
(* Ownership of the IoData holds whatever the signal handler closes;       *)
(* ownership of the handles, and that every completion reaches the port,   *)
(* hold until it has closed one.                                           *)
(***************************************************************************)
EXTENDS IocpServerEx, IocpPortProofs

\* What a thread holds, by where it is.
Hands ==
  /\ mpc \in {"accept", "wait", "bind", "send"} <=> mio # Null
  /\ \A w \in Worker : wpc[w] = "work" <=> wio[w] # Null

\* The handle of d reports to the completion port, but for the connection that
\* main has not yet bound.
Reports(d) == (d # mio \/ mpc = "send") => cliSock[d] \in bound

\* Until the handler has closed a socket, so does every operation.
Ported == hpc # "closed" => (\A d \in live : Reports(d)) /\ (\A p \in pend : p.port)

\* No worker is asked to end, and none ends, before main leaves its loop.
Unposted ==
  mpc \notin {"cleanup", "done"} =>
    NullAt = {} /\ \A w \in Worker : wpc[w] # "exited"

Ownership == Owned /\ HandleOwned /\ Hands /\ Ported

IndInv == Ownership /\ Unposted /\ WorkersReleased

USE PortAssumption

-----------------------------------------------------------------------------
(***************************************************************************)
(* CloseConn, PostRead and PostWrite on an IoData in a thread's hands: the *)
(* kernel takes it over, or it is freed with its socket.                   *)
(***************************************************************************)

\* What is known of the state after one of them.
Handed(d) ==
  /\ PortTypeOK' /\ PendUnique' /\ queue' = queue
  /\ opCode' \in [Io -> {"read", "write"}] /\ cliSock' = cliSock
  /\ curAcceptSock' \in Sock \cup {Invalid}
  /\ accept' \in {"none", "pending", "failed", "data", "empty"}
  /\ live' \subseteq live /\ live \subseteq live' \cup {d}
  /\ PendingIo' = PendingIo \cup (live' \cap {d})
  /\ hpc # "closed" =>
       /\ \A e \in live' : cliSock[e] # Invalid => Open(cliSock[e])'
       /\ \A e \in live' : e = d \/ e # mio \/ mpc = "send" => cliSock[e] \in bound'
       /\ \A p \in pend' : p.port

\* The IoData goes to the kernel or is gone, and no other is touched.
LEMMA PostKeeps ==
  ASSUME Ownership, NEW d \in live, d \notin PendingIo,
         \/ CloseConn(d)
         \/ (d # mio \/ mpc = "send") /\ (PostRead(d) \/ PostWrite(d))
  PROVE  Handed(d)
<1>0. /\ PortTypeOK /\ PendUnique /\ d \in Io /\ opCode \in [Io -> {"read", "write"}]
      /\ cliSock \in [Io -> Sock \cup {Invalid}] /\ live \subseteq Io
      /\ curAcceptSock \in Sock \cup {Invalid}
      /\ accept \in {"none", "pending", "failed", "data", "empty"}
  BY DEF Ownership, TypeOK, Owned, OnePerIo, PendUnique
<1>1. CASE CloseConn(d)
  <2>1. CloseSocket(cliSock[d]) /\ queue' = queue
        /\ live' = live \ {d} /\ opCode' = opCode /\ cliSock' = cliSock
        /\ curAcceptSock' = Invalid
        /\ accept' \in {"none", "pending", "failed", "data", "empty"}
    BY <1>0, <1>1 DEF CloseConn, Close
  <2>2. /\ PendUnique' /\ PendingIo' = PendingIo /\ PortTypeOK'
        /\ (\A p \in pend : p.port) => \A p \in pend' : p.port
        /\ \A x \in Sock \ {cliSock[d]} : sock'[x] = sock[x]
    BY <1>0, <2>1, CloseKeeps DEF PortTypeOK
  <2>3. ASSUME hpc # "closed", NEW e \in live'
        PROVE  /\ cliSock[e] # Invalid => Open(cliSock[e])'
               /\ e # mio \/ mpc = "send" => cliSock[e] \in bound'
    <3>1. e \in live /\ e # d /\ cliSock[e] \in Sock \cup {Invalid}
      BY <1>0, <2>1
    <3>2. /\ cliSock[e] # Invalid => Open(cliSock[e]) /\ cliSock[e] # cliSock[d]
          /\ e # mio \/ mpc = "send" => cliSock[e] \in bound
      BY <2>3, <3>1 DEF Ownership, HandleOwned, Ported, Reports
    <3>3. e # mio \/ mpc = "send" => cliSock[e] # cliSock[d]
      BY <1>0, <3>2 DEF PortTypeOK
    <3>4. cliSock'[e] = cliSock[e] /\ bound' = bound \ {cliSock[d]}
      BY <2>1 DEF CloseSocket
    <3> QED
      BY <2>1, <2>2, <3>1, <3>2, <3>3, <3>4 DEF Open
  <2> QED
    BY <1>0, <2>1, <2>2, <2>3 DEF Handed, Ownership, Ported
<1>2. ASSUME NEW what \in {"recv", "send"}, NEW code \in {"read", "write"},
             d # mio \/ mpc = "send",
             opCode' = [opCode EXCEPT ![d] = code],
             Issue(d, what, cliSock[d]),
             UNCHANGED <<sock, bound, queue, live, cliSock, curAcceptSock, accept>>
      PROVE  Handed(d)
  <2>1. /\ PortTypeOK' /\ PendUnique' /\ PendingIo' = PendingIo \cup {d}
        /\ cliSock[d] \in bound /\ (\A p \in pend : p.port) => \A p \in pend' : p.port
    BY <1>0, <1>2, IssueKeeps
  <2>2. ASSUME hpc # "closed"
        PROVE  /\ \A e \in live : cliSock[e] # Invalid => Open(cliSock[e])
               /\ \A e \in live : e = d \/ e # mio \/ mpc = "send" => cliSock[e] \in bound
               /\ \A p \in pend : p.port
    BY <1>2, <2>2 DEF Ownership, HandleOwned, Ported, Reports
  <2>3. hpc # "closed" => \A e \in live' : cliSock[e] # Invalid => Open(cliSock[e])'
    BY <1>2, <2>2 DEF Open
  <2> QED
    BY <1>0, <1>2, <2>1, <2>2, <2>3 DEF Handed
<1> QED
  BY <1>1, <1>2 DEF PostRead, PostWrite

-----------------------------------------------------------------------------
(***************************************************************************)
(* Ownership: one lemma per group of actions.                              *)
(***************************************************************************)

\* Nothing is allocated and nobody holds anything in the initial state.
LEMMA InitOwn == Init => Ownership
<1> SUFFICES ASSUME Init PROVE Ownership
  OBVIOUS
<1>1. Len(queue) = 0 /\ 1..Len(queue) = {}
  BY DEF Init, PortInit
<1>2. PendingIo = {} /\ QueuedIo = {} /\ MainIo = {} /\ WorkerIo = {}
  BY <1>1 DEF Init, PortInit, PendingIo, QueuedIo, MainIo, WorkerIo
<1>3. TypeOK
  <2>1. PortTypeOK
    BY DEF Init, PortInit, PortTypeOK
  <2> QED
    BY <2>1 DEF Init, TypeOK
<1>4. Owned
  BY <1>1, <1>2, <1>3 DEF Init, PortInit, Owned, OnePerIo
<1>5. HandleOwned /\ Hands /\ Ported
  BY DEF Init, PortInit, HandleOwned, Hands, Ported
<1> QED
  BY <1>4, <1>5 DEF Ownership

\* A step that moves no IoData, allocates nothing and closes nothing.
LEMMA QuietOwn ==
  ASSUME Ownership, TypeOK', UNCHANGED <<bound, pend, queue, live, cliSock, mio, wpc, wio>>,
         \A x \in Sock : Open(x) => Open(x)',
         mpc' \in {"accept", "wait", "bind", "send"} <=> mpc \in {"accept", "wait", "bind", "send"},
         mpc' = "send" <=> mpc = "send", hpc' # "closed" => hpc # "closed"
  PROVE  Ownership'
<1>1. MainIo' = MainIo /\ WorkerIo' = WorkerIo
  BY DEF MainIo, WorkerIo
<1>2. PendingIo' = PendingIo /\ QueuedIo' = QueuedIo
  BY DEF PendingIo, QueuedIo
<1>3. OnePerIo'
  BY <1>2 DEF Ownership, Owned, OnePerIo
<1>4. Owned'
  BY <1>1, <1>2, <1>3 DEF Ownership, Owned
<1>5. HandleOwned'
  <2> SUFFICES ASSUME hpc' # "closed" PROVE HandleOwned'
    BY DEF HandleOwned
  <2>1. \A d \in live : cliSock[d] # Invalid => Open(cliSock[d]) /\ cliSock[d] \in Sock
    BY DEF Ownership, HandleOwned, Open
  <2>2. \A d \in live' : cliSock'[d] # Invalid => Open(cliSock[d])'
    BY <2>1 DEF Open
  <2> QED
    BY <1>1, <1>2, <2>2 DEF Ownership, HandleOwned
<1>6. Hands' /\ Ported'
  BY DEF Ownership, Hands, Ported, Reports
<1> QED
  BY <1>4, <1>5, <1>6 DEF Ownership

\* A worker takes a packet, and the IoData it is about, from the queue.
LEMMA GetOwn == ASSUME NEW w \in Worker, Ownership, Get(w) PROVE Ownership'
<1> DEFINE d == Head(queue).io
<1>1. /\ Head(queue) \in Packet /\ queue' \in Seq(Packet) /\ QueueUnique'
      /\ QueuedIo = QueuedIo' \cup ({d} \ {Null}) /\ d \notin QueuedIo'
  BY QueueTail DEF Get, Ownership, TypeOK, PortTypeOK, Owned, OnePerIo, QueueUnique
<1>2. /\ d \in Io \cup {Null} /\ Head(queue).size \in {0, 1}
      /\ wio' = [wio EXCEPT ![w] = d]
      /\ wsize' = [wsize EXCEPT ![w] = Head(queue).size]
      /\ wpc' = [wpc EXCEPT ![w] = IF d = Null THEN "exited" ELSE "work"]
      /\ UNCHANGED <<sock, bound, pend, heapVars, curAcceptSock, mainVars, hpc>>
  BY <1>1 DEF Get, Packet
<1> HIDE DEF d
<1>3. wio[w] = Null
  BY DEF Get, Ownership, Hands
<1>4. /\ wio \in [Worker -> Io \cup {Null}] /\ wsize \in [Worker -> {0, 1}]
      /\ wpc \in [Worker -> {"get", "work", "exited"}]
  BY DEF Ownership, Owned, TypeOK
<1>5. WorkerIo' = WorkerIo \cup ({d} \ {Null})
  <2>1. WorkerIo' = {wio'[v] : v \in Worker} \ {Null}
    BY DEF WorkerIo
  <2>2. wio'[w] = d /\ \A v \in Worker \ {w} : wio'[v] = wio[v]
    BY <1>2, <1>4
  <2> QED
    BY <1>3, <2>1, <2>2 DEF WorkerIo
<1>6. MainIo' = MainIo /\ PendingIo' = PendingIo /\ live' = live
  BY <1>2 DEF MainIo, PendingIo, mainVars, heapVars
<1>7. TypeOK'
  BY <1>1, <1>2, <1>4 DEF Ownership, Owned, TypeOK, PortTypeOK, heapVars, mainVars
<1>8. Owned'
  <2>1. OnePerIo'
    <3>1. (\A p, q \in pend : p.io = q.io => p = q)'
      BY <1>2 DEF Ownership, Owned, OnePerIo
    <3>2. PendingIo' \cap QueuedIo' = {}
      BY <1>1, <1>6 DEF Ownership, Owned, OnePerIo
    <3> QED
      BY <1>1, <3>1, <3>2 DEF OnePerIo, QueueUnique
  <2>2. \A u, v \in Worker : wio'[u] = wio'[v] /\ wio'[u] # Null => u = v
    <3>1. \A v \in Worker : wio[v] # Null => wio[v] \in WorkerIo
      BY DEF WorkerIo
    <3>2. d # Null => d \notin WorkerIo
      BY <1>1 DEF Ownership, Owned
    <3> QED
      BY <1>2, <1>4, <3>1, <3>2 DEF Ownership, Owned
  <2>3. MainIo' \cap (WorkerIo' \cup PendingIo' \cup QueuedIo') = {}
    BY <1>1, <1>5, <1>6 DEF Ownership, Owned
  <2>4. WorkerIo' \cap (PendingIo' \cup QueuedIo') = {}
    BY <1>1, <1>5, <1>6 DEF Ownership, Owned, OnePerIo
  <2>5. MainIo' \cup WorkerIo' \cup PendingIo' \cup QueuedIo' \subseteq live'
    BY <1>1, <1>5, <1>6 DEF Ownership, Owned
  <2> QED
    BY <1>7, <2>1, <2>2, <2>3, <2>4, <2>5 DEF Owned
<1>9. HandleOwned'
  <2>1. MainIo' \cup WorkerIo' \cup PendingIo' \cup QueuedIo'
          = MainIo \cup WorkerIo \cup PendingIo \cup QueuedIo
    BY <1>1, <1>5, <1>6
  <2> QED
    BY <1>2, <2>1 DEF Ownership, HandleOwned, Open, heapVars
<1>10. Hands' /\ Ported'
  BY <1>2, <1>4 DEF Ownership, Hands, Ported, Reports, heapVars, mainVars
<1> QED
  BY <1>8, <1>9, <1>10 DEF Ownership

\* A worker answers or closes the connection of its packet.
LEMMA HandleOwn == ASSUME NEW w \in Worker, Ownership, Handle(w) PROVE Ownership'
<1> DEFINE d == wio[w]
<1>1. d # Null /\ d \in WorkerIo /\ wpc[w] = "work"
  BY DEF Handle, Ownership, Hands, WorkerIo
<1>2. d \in live /\ d \notin PendingIo /\ d \notin QueuedIo /\ d \notin MainIo /\ d # mio
  BY <1>1 DEF Ownership, Owned, MainIo
<1>3. Handed(d)
  BY <1>2, PostKeeps DEF Handle
<1>4. /\ wpc' = [wpc EXCEPT ![w] = "get"] /\ wio' = [wio EXCEPT ![w] = Null]
      /\ wsize' = wsize /\ mpc' = mpc /\ mio' = mio /\ hpc' = hpc
  BY DEF Handle
<1>5. /\ wio \in [Worker -> Io \cup {Null}] /\ wsize \in [Worker -> {0, 1}]
      /\ wpc \in [Worker -> {"get", "work", "exited"}]
  BY DEF Ownership, Owned, TypeOK
<1>6. WorkerIo' = WorkerIo \ {d}
  <2>1. WorkerIo' = {wio'[v] : v \in Worker} \ {Null}
    BY DEF WorkerIo
  <2>2. wio'[w] = Null /\ \A v \in Worker \ {w} : wio'[v] = wio[v] /\ wio[v] # d
    BY <1>1, <1>4, <1>5 DEF Ownership, Owned
  <2> QED
    BY <2>1, <2>2 DEF WorkerIo
<1> HIDE DEF d
<1>7. MainIo' = MainIo /\ QueuedIo' = QueuedIo
  BY <1>3, <1>4 DEF MainIo, QueuedIo, Handed
<1>8. TypeOK'
  <2>1. live' \subseteq Io /\ cliSock' \in [Io -> Sock \cup {Invalid}]
    BY <1>3 DEF Ownership, Owned, TypeOK, Handed
  <2> QED
    BY <1>3, <1>4, <1>5, <2>1 DEF Ownership, Owned, TypeOK, Handed
<1>9. Owned'
  <2>1. OnePerIo'
    <3>1. PendingIo' \cap QueuedIo' = {}
      BY <1>2, <1>3, <1>7 DEF Ownership, Owned, OnePerIo, Handed
    <3> QED
      BY <1>3, <3>1 DEF Ownership, Owned, OnePerIo, PendUnique, Handed
  <2>2. \A u, v \in Worker : wio'[u] = wio'[v] /\ wio'[u] # Null => u = v
    BY <1>4, <1>5 DEF Ownership, Owned
  <2>3. PendingIo' \subseteq PendingIo \cup {d} /\ (d \in PendingIo' => d \in live')
        /\ live \ {d} \subseteq live'
    BY <1>2, <1>3 DEF Handed
  <2>4. MainIo' \cup WorkerIo' \cup PendingIo' \cup QueuedIo' \subseteq live'
    BY <1>2, <1>6, <1>7, <2>3 DEF Ownership, Owned
  <2>5. /\ MainIo' \cap (WorkerIo' \cup PendingIo' \cup QueuedIo') = {}
        /\ WorkerIo' \cap (PendingIo' \cup QueuedIo') = {}
    BY <1>1, <1>2, <1>6, <1>7, <2>3 DEF Ownership, Owned
  <2> QED
    BY <1>8, <2>1, <2>2, <2>4, <2>5 DEF Owned
<1>10. HandleOwned' /\ Ported'
  <2> SUFFICES ASSUME hpc' # "closed" PROVE HandleOwned' /\ Ported'
    BY DEF HandleOwned, Ported
  <2>1. live' \subseteq MainIo' \cup WorkerIo' \cup PendingIo' \cup QueuedIo'
    BY <1>3, <1>4, <1>6, <1>7 DEF Ownership, HandleOwned, Handed
  <2>2. \A e, f \in live' : cliSock'[e] = cliSock'[f] /\ cliSock'[e] # Invalid => e = f
    BY <1>3, <1>4 DEF Ownership, HandleOwned, Handed
  <2>3. /\ \A e \in live' : cliSock'[e] # Invalid => Open(cliSock[e])'
        /\ \A p \in pend' : p.port
    BY <1>3, <1>4 DEF Handed
  <2>4. \A e \in live' : Reports(e)'
    BY <1>3, <1>4 DEF Handed, Reports
  <2> QED
    BY <2>1, <2>2, <2>3, <2>4 DEF HandleOwned, Ported
<1>11. Hands'
  BY <1>4, <1>5 DEF Ownership, Hands
<1> QED
  BY <1>9, <1>10, <1>11 DEF Ownership

\* main is done with its IoData: it closes the connection, or sends the first
\* bytes back on one that is bound.
LEMMA DropOwn ==
  ASSUME Ownership, mpc \in {"accept", "wait", "bind", "send"},
         CloseConn(mio) \/ (mpc = "send" /\ PostWrite(mio)),
         mio' = Null, mpc' \in {"open", "post"}, UNCHANGED <<hpc, workVars>>
  PROVE  Ownership'
<1> DEFINE d == mio
<1>1. d # Null /\ MainIo = {d} /\ MainIo' = {}
  BY DEF Ownership, Hands, MainIo
<1>2. d \in live /\ d \notin PendingIo /\ d \notin QueuedIo /\ d \notin WorkerIo
  BY <1>1 DEF Ownership, Owned
<1>3. Handed(d)
  BY <1>2, PostKeeps
<1>4. \A e \in live' : hpc # "closed" => cliSock[e] \in bound'
  BY <1>3 DEF Handed
<1> HIDE DEF d
<1>5. WorkerIo' = WorkerIo /\ QueuedIo' = QueuedIo
  BY <1>3 DEF WorkerIo, QueuedIo, workVars, Handed
<1>6. TypeOK'
  <2>1. live' \subseteq Io /\ cliSock' \in [Io -> Sock \cup {Invalid}]
    BY <1>3 DEF Ownership, Owned, TypeOK, Handed
  <2> QED
    BY <1>3, <2>1 DEF Ownership, Owned, TypeOK, workVars, Handed
<1>7. Owned'
  <2>1. OnePerIo'
    <3>1. PendingIo' \cap QueuedIo' = {}
      BY <1>2, <1>3, <1>5 DEF Ownership, Owned, OnePerIo, Handed
    <3> QED
      BY <1>3, <3>1 DEF Ownership, Owned, OnePerIo, PendUnique, Handed
  <2>2. PendingIo' \subseteq PendingIo \cup {d} /\ (d \in PendingIo' => d \in live')
        /\ live \ {d} \subseteq live'
    BY <1>2, <1>3 DEF Handed
  <2>3. /\ MainIo' \cup WorkerIo' \cup PendingIo' \cup QueuedIo' \subseteq live'
        /\ WorkerIo' \cap (PendingIo' \cup QueuedIo') = {}
    BY <1>1, <1>2, <1>5, <2>2 DEF Ownership, Owned
  <2> QED
    BY <1>1, <1>6, <2>1, <2>3 DEF Ownership, Owned, workVars
<1>8. HandleOwned' /\ Ported'
  <2> SUFFICES ASSUME hpc # "closed" PROVE HandleOwned' /\ Ported'
    BY DEF HandleOwned, Ported
  <2>1. live' \subseteq MainIo' \cup WorkerIo' \cup PendingIo' \cup QueuedIo'
    BY <1>1, <1>3, <1>5 DEF Ownership, HandleOwned, Handed
  <2>2. \A e, f \in live' : cliSock'[e] = cliSock'[f] /\ cliSock'[e] # Invalid => e = f
    BY <1>3 DEF Ownership, HandleOwned, Handed
  <2>3. /\ \A e \in live' : cliSock'[e] # Invalid => Open(cliSock[e])'
        /\ \A p \in pend' : p.port
    BY <1>3 DEF Handed
  <2>4. \A e \in live' : Reports(e)'
    BY <1>3, <1>4 DEF Handed, Reports
  <2> QED
    BY <2>1, <2>2, <2>3, <2>4 DEF HandleOwned, Ported
<1>9. Hands'
  BY DEF Ownership, Hands, workVars
<1> QED
  BY <1>7, <1>8, <1>9 DEF Ownership

\* main makes an IoData and a socket whose handle value was free until now, or
\* finds no socket.
LEMMA OpenSocketOwn == ASSUME Ownership, OpenSocket PROVE Ownership'
<1>1. /\ mpc = "open" /\ mpc' = "accept"
      /\ UNCHANGED <<bound, pend, queue, accept, hpc, workVars>>
  BY DEF OpenSocket
<1>2. PICK d \in Io \ live, s \in {x \in Sock : sock[x] = "free"} \cup {Invalid} :
        /\ live' = live \cup {d} /\ mio' = d
        /\ sock' = [x \in Sock |-> IF x = s THEN "idle" ELSE sock[x]]
        /\ curAcceptSock' = s
        /\ cliSock' = [cliSock EXCEPT ![d] = s]
        /\ opCode' = [opCode EXCEPT ![d] = "read"]
  BY DEF OpenSocket
<1>3. mio = Null /\ MainIo = {} /\ MainIo' = {d}
  BY <1>1, <1>2 DEF Ownership, Hands, MainIo
<1>4. cliSock \in [Io -> Sock \cup {Invalid}] /\ live \subseteq Io
      /\ sock \in [Sock -> {"free", "idle", "up", "down"}]
  BY DEF Ownership, Owned, TypeOK, PortTypeOK
<1>5. cliSock'[d] = s /\ \A e \in live : cliSock'[e] = cliSock[e]
  BY <1>2, <1>4
<1>6. TypeOK'
  <2>1. PortTypeOK'
    BY <1>1, <1>2, <1>4 DEF Ownership, Owned, TypeOK, PortTypeOK
  <2> QED
    BY <1>1, <1>2, <2>1 DEF Ownership, Owned, TypeOK, workVars
<1>7. WorkerIo' = WorkerIo /\ QueuedIo' = QueuedIo /\ PendingIo' = PendingIo
  BY <1>1 DEF WorkerIo, QueuedIo, PendingIo, workVars
<1>8. Owned'
  <2>1. OnePerIo'
    BY <1>1, <1>7 DEF Ownership, Owned, OnePerIo
  <2>2. d \notin WorkerIo \cup PendingIo \cup QueuedIo
    BY DEF Ownership, Owned
  <2>3. /\ MainIo' \cap (WorkerIo' \cup PendingIo' \cup QueuedIo') = {}
        /\ WorkerIo' \cap (PendingIo' \cup QueuedIo') = {}
        /\ MainIo' \cup WorkerIo' \cup PendingIo' \cup QueuedIo' \subseteq live'
    BY <1>2, <1>3, <1>7, <2>2 DEF Ownership, Owned
  <2>4. wio' = wio
    BY <1>1 DEF workVars
  <2> QED
    BY <1>6, <2>1, <2>3, <2>4 DEF Ownership, Owned
<1>9. HandleOwned' /\ Ported'
  <2> SUFFICES ASSUME hpc # "closed" PROVE HandleOwned' /\ Ported'
    BY <1>1 DEF HandleOwned, Ported
  <2>1. live' \subseteq MainIo' \cup WorkerIo' \cup PendingIo' \cup QueuedIo'
    BY <1>2, <1>3, <1>7 DEF Ownership, HandleOwned
  <2>2. \A e \in live : /\ cliSock[e] \in bound
                        /\ cliSock[e] # Invalid => Open(cliSock[e]) /\ cliSock[e] # s
    BY <1>3, <1>4 DEF Ownership, HandleOwned, Ported, Reports, Open
  <2>3. \A e \in live' : cliSock'[e] # Invalid => Open(cliSock[e])'
    BY <1>2, <1>4, <1>5, <2>2 DEF Open
  <2>4. \A e, f \in live' : cliSock'[e] = cliSock'[f] /\ cliSock'[e] # Invalid => e = f
    BY <1>2, <1>5, <2>2 DEF Ownership, HandleOwned
  <2>5. \A e \in live' : Reports(e)'
    BY <1>1, <1>2, <1>5, <2>2 DEF Reports
  <2>6. \A p \in pend' : p.port
    BY <1>1 DEF Ownership, Ported
  <2> QED
    BY <2>1, <2>3, <2>4, <2>5, <2>6 DEF HandleOwned, Ported
<1>10. Hands'
  BY <1>1, <1>2 DEF Ownership, Hands, workVars
<1> QED
  BY <1>8, <1>9, <1>10 DEF Ownership

\* main binds its connection to the port.
LEMMA BindOwn ==
  ASSUME Ownership, mpc = "bind", mpc' = "send", Open(cliSock[mio]),
         bound' = bound \cup {cliSock[mio]},
         UNCHANGED <<sock, pend, queue, heapVars, curAcceptSock, accept, mio, hpc, workVars>>
  PROVE  Ownership'
<1>1. MainIo' = MainIo /\ WorkerIo' = WorkerIo /\ PendingIo' = PendingIo /\ QueuedIo' = QueuedIo
  BY DEF MainIo, WorkerIo, PendingIo, QueuedIo, workVars
<1>2. TypeOK'
  <2>1. PortTypeOK'
    BY DEF Ownership, Owned, TypeOK, PortTypeOK, Open
  <2> QED
    BY <2>1 DEF Ownership, Owned, TypeOK, heapVars, workVars
<1>3. Owned'
  <2>1. OnePerIo'
    BY <1>1 DEF Ownership, Owned, OnePerIo
  <2> QED
    BY <1>1, <1>2, <2>1 DEF Ownership, Owned, heapVars, workVars
<1>4. HandleOwned'
  BY <1>1 DEF Ownership, HandleOwned, Open, heapVars
<1>5. Hands' /\ Ported'
  BY DEF Ownership, Hands, Ported, Reports, heapVars, workVars
<1> QED
  BY <1>3, <1>4, <1>5 DEF Ownership

\* An operation completes: its IoData moves from the kernel to the queue, or is
\* forgotten if the operation does not report to the port.
LEMMA CompleteOwn ==
  ASSUME Ownership, NEW p \in pend, NEW n \in {0, 1}, Complete(p, n),
         UNCHANGED <<heapVars, curAcceptSock, mainVars, hpc, workVars>>
  PROVE  Ownership'
<1> DEFINE pkt == [io |-> p.io, size |-> n]
<1>1. p \in Op /\ queue \in Seq(Packet) /\ QueueUnique
  BY DEF Ownership, Owned, TypeOK, PortTypeOK, OnePerIo, QueueUnique
<1>2. /\ pend' = pend \ {p} /\ UNCHANGED <<sock, bound>>
      /\ queue' = IF p.port THEN Append(queue, pkt) ELSE queue
  BY DEF Complete
<1>3. pkt \in Packet /\ pkt.io = p.io /\ p.io \in Io /\ p.io # Null
  BY <1>1 DEF Packet, Op
<1>4. p.io \in PendingIo /\ p.io \notin QueuedIo
  BY DEF PendingIo, Ownership, Owned, OnePerIo
<1> HIDE DEF pkt
<1>5. /\ queue' \in Seq(Packet) /\ QueueUnique'
      /\ QueuedIo' = IF p.port THEN QueuedIo \cup {p.io} ELSE QueuedIo
  <2>1. CASE p.port
    BY <1>1, <1>2, <1>3, <1>4, <2>1, QueueAppend
  <2>2. CASE ~p.port
    BY <1>1, <1>2, <2>2 DEF QueueUnique, QueuedIo
  <2> QED
    BY <2>1, <2>2
<1>6. PendingIo' = PendingIo \ {p.io}
  BY <1>2 DEF PendingIo, Ownership, Owned, OnePerIo
<1>7. MainIo' = MainIo /\ WorkerIo' = WorkerIo /\ live' = live /\ wio' = wio
  BY DEF MainIo, WorkerIo, mainVars, heapVars, workVars
<1>8. TypeOK'
  <2>1. PortTypeOK'
    BY <1>2, <1>5 DEF Ownership, Owned, TypeOK, PortTypeOK
  <2> QED
    BY <2>1 DEF Ownership, Owned, TypeOK, heapVars, mainVars, workVars
<1>9. PendingIo' \cup QueuedIo' \subseteq PendingIo \cup QueuedIo
      /\ (p.port => PendingIo \cup QueuedIo = PendingIo' \cup QueuedIo')
  BY <1>4, <1>5, <1>6
<1>10. Owned'
  <2>1. OnePerIo'
    <3>1. PendingIo' \cap QueuedIo' = {}
      BY <1>5, <1>6 DEF Ownership, Owned, OnePerIo
    <3>2. \A q, r \in pend' : q.io = r.io => q = r
      BY <1>2 DEF Ownership, Owned, OnePerIo
    <3> QED
      BY <1>5, <3>1, <3>2 DEF OnePerIo, QueueUnique
  <2>2. /\ MainIo' \cap (WorkerIo' \cup PendingIo' \cup QueuedIo') = {}
        /\ WorkerIo' \cap (PendingIo' \cup QueuedIo') = {}
        /\ MainIo' \cup WorkerIo' \cup PendingIo' \cup QueuedIo' \subseteq live'
    BY <1>7, <1>9 DEF Ownership, Owned
  <2> QED
    BY <1>7, <1>8, <2>1, <2>2 DEF Ownership, Owned
<1>11. HandleOwned'
  <2> SUFFICES ASSUME hpc' # "closed" PROVE HandleOwned'
    BY DEF HandleOwned
  <2>1. live' \subseteq MainIo' \cup WorkerIo' \cup PendingIo' \cup QueuedIo'
    BY <1>7, <1>9 DEF Ownership, HandleOwned, Ported
  <2> QED
    BY <1>2, <2>1 DEF Ownership, HandleOwned, Open, heapVars
<1>12. Hands' /\ Ported'
  BY <1>2 DEF Ownership, Hands, Ported, Reports, heapVars, mainVars, workVars
<1> QED
  BY <1>10, <1>11, <1>12 DEF Ownership

\* The signal handler closes a socket, whoever uses it: from now on only the IoData
\* are owned.
LEMMA SignalCloseOwn == ASSUME Ownership, SignalClose PROVE Ownership'
<1>1. /\ hpc' = "closed" /\ CloseSocket(curAcceptSock)
      /\ UNCHANGED <<queue, heapVars, curAcceptSock, mpc, mio, workVars>>
      /\ accept' \in {"failed", accept}
  BY DEF SignalClose, Close
<1>2. PortTypeOK /\ PendUnique
  BY DEF Ownership, Owned, TypeOK, OnePerIo, PendUnique
<1>3. PendUnique' /\ PendingIo' = PendingIo /\ PortTypeOK'
  BY <1>1, <1>2, CloseKeeps DEF PortTypeOK
<1>4. MainIo' = MainIo /\ WorkerIo' = WorkerIo /\ QueuedIo' = QueuedIo
  BY <1>1 DEF MainIo, WorkerIo, QueuedIo, workVars
<1>5. TypeOK'
  BY <1>1, <1>3 DEF Ownership, Owned, TypeOK, heapVars, workVars
<1>6. Owned'
  <2>1. OnePerIo'
    BY <1>1, <1>3, <1>4 DEF Ownership, Owned, OnePerIo, PendUnique
  <2> QED
    BY <1>1, <1>3, <1>4, <1>5, <2>1 DEF Ownership, Owned, heapVars, workVars
<1>7. HandleOwned' /\ Ported' /\ Hands'
  BY <1>1 DEF Ownership, HandleOwned, Ported, Hands, workVars
<1> QED
  BY <1>6, <1>7 DEF Ownership

\* main posts the packets that end the workers; they own nothing.
LEMMA PostOwn ==
  ASSUME Ownership, Unposted, Post
  PROVE  Ownership' /\ Cardinality(NullAt') = Cardinality(Worker)
<1>1. /\ mpc = "post" /\ mpc' = "cleanup"
      /\ queue' = queue \o [i \in 1..Cardinality(Worker) |-> [io |-> Null, size |-> 0]]
      /\ UNCHANGED <<sock, bound, pend, heapVars, curAcceptSock, accept, mio, hpc, workVars>>
  BY DEF Post, ExitPackets
<1>2. queue \in Seq(Packet) /\ QueueUnique /\ NullAt = {} /\ Cardinality(Worker) \in Nat
  BY <1>1, FS_CardinalityType
     DEF Ownership, Owned, TypeOK, PortTypeOK, OnePerIo, QueueUnique, Unposted
<1>3. /\ queue' \in Seq(Packet) /\ QueueUnique' /\ QueuedIo' = QueuedIo
      /\ Cardinality(NullAt') = Cardinality(Worker)
  BY <1>1, <1>2, NullPosted
<1>4. TypeOK'
  <2>1. PortTypeOK'
    BY <1>1, <1>3 DEF Ownership, Owned, TypeOK, PortTypeOK
  <2> QED
    BY <1>1, <2>1 DEF Ownership, Owned, TypeOK, heapVars, workVars
<1>5. MainIo' = MainIo /\ WorkerIo' = WorkerIo /\ PendingIo' = PendingIo
  BY <1>1 DEF MainIo, WorkerIo, PendingIo, workVars
<1>6. Owned'
  <2>1. OnePerIo'
    BY <1>1, <1>3, <1>5 DEF Ownership, Owned, OnePerIo, QueueUnique
  <2> QED
    BY <1>1, <1>3, <1>4, <1>5, <2>1 DEF Ownership, Owned, heapVars, workVars
<1>7. HandleOwned' /\ Hands' /\ Ported'
  <2>1. HandleOwned'
    BY <1>1, <1>3, <1>5 DEF Ownership, HandleOwned, Open, heapVars
  <2> QED
    BY <1>1, <2>1 DEF Ownership, Hands, Ported, Reports, heapVars, workVars
<1> QED
  BY <1>3, <1>6, <1>7 DEF Ownership

\* Steps that concern what a connection does or where a thread is.
LEMMA RestOwn ==
  ASSUME Ownership,
         \/ Accepted \/ AcceptData \/ OutOfMemory \/ Return \/ SignalTest
         \/ UNCHANGED vars
         \/ /\ \E s \in Sock : PeerLeaves(s)
            /\ UNCHANGED <<heapVars, curAcceptSock, mainVars, hpc, workVars>>
         \/ /\ mpc = "accept" /\ accept' = "pending" /\ mpc' = "wait"
            /\ UNCHANGED <<portVars, heapVars, curAcceptSock, mio, hpc, workVars>>
  PROVE  Ownership'
<1>1. UNCHANGED <<bound, pend, queue, live, cliSock, opCode, curAcceptSock, mio, wpc, wio, wsize>>
  BY DEF Accepted, AcceptData, OutOfMemory, Return, SignalTest, vars, PeerLeaves,
         portVars, heapVars, mainVars, workVars
<1>2. sock \in [Sock -> {"free", "idle", "up", "down"}]
  BY DEF Ownership, Owned, TypeOK, PortTypeOK
<1>3. /\ sock' \in [Sock -> {"free", "idle", "up", "down"}]
      /\ \A x \in Sock : sock[x] # "free" => sock'[x] # "free"
  BY <1>2 DEF Accepted, AcceptData, OutOfMemory, Return, SignalTest, vars, PeerLeaves, portVars
<1>4. \A x \in Sock : Open(x) => Open(x)'
  BY <1>3 DEF Open
<1>5. /\ mpc' \in {"accept", "wait", "bind", "send"} <=> mpc \in {"accept", "wait", "bind", "send"}
      /\ mpc' = "send" <=> mpc = "send"
      /\ mpc' \in {"open", "accept", "wait", "bind", "send", "post", "cleanup", "done"}
      /\ accept' \in {"none", "pending", "failed", "data", "empty"}
      /\ hpc' # "closed" => hpc # "closed"
      /\ hpc' \in {"idle", "close", "closed", "skipped"}
  BY DEF Accepted, AcceptData, OutOfMemory, Return, SignalTest, vars, mainVars,
         Ownership, Owned, TypeOK
<1>6. TypeOK'
  <2>1. PortTypeOK'
    BY <1>1, <1>3 DEF Ownership, Owned, TypeOK, PortTypeOK
  <2> QED
    BY <1>1, <1>5, <2>1 DEF Ownership, Owned, TypeOK
<1> QED
  BY <1>1, <1>4, <1>5, <1>6, QuietOwn

\* Every step keeps ownership.
LEMMA NextOwn == ASSUME Ownership, Unposted, [Next]_vars PROVE Ownership'
<1>1. CASE \E w \in Worker : Get(w) \/ Handle(w)
  BY <1>1, GetOwn, HandleOwn
<1>2. CASE AcceptFailed \/ WaitFails \/ AcceptEmpty \/ FirstWrite
  BY <1>2, DropOwn DEF AcceptFailed, WaitFails, AcceptEmpty, FirstWrite
<1>3. CASE StartAccept
  BY <1>3, DropOwn, RestOwn DEF StartAccept
<1>4. CASE Bind
  BY <1>4, DropOwn, BindOwn DEF Bind
<1>5. CASE Kernel
  BY <1>5, CompleteOwn, RestOwn DEF Kernel, KernelStep
<1>6. CASE OpenSocket
  BY <1>6, OpenSocketOwn
<1>7. CASE SignalClose
  BY <1>7, SignalCloseOwn
<1>8. CASE Post
  BY <1>8, PostOwn
<1>9. CASE OutOfMemory \/ AcceptData \/ Return \/ Accepted \/ SignalTest \/ Ended
           \/ UNCHANGED vars
  BY <1>9, RestOwn DEF Ended
<1> QED
  BY <1>1, <1>2, <1>3, <1>4, <1>5, <1>6, <1>7, <1>8, <1>9 DEF Next, MainStep

-----------------------------------------------------------------------------
(***************************************************************************)
(* The end of the workers.                                                 *)
(***************************************************************************)

Running == {w \in Worker : wpc[w] # "exited"}

\* A worker that takes a packet without IoData ends, and no other does.
LEMMA GetReleases ==
  ASSUME NEW w \in Worker, Ownership, Unposted, WorkersReleased, Get(w)
  PROVE  Unposted' /\ WorkersReleased'
<1>1. /\ queue \in Seq(Packet) /\ queue # <<>> /\ queue' = Tail(queue) /\ wpc[w] = "get"
      /\ wpc' = [wpc EXCEPT ![w] = IF Head(queue).io = Null THEN "exited" ELSE "work"]
      /\ wpc \in [Worker -> {"get", "work", "exited"}] /\ mpc' = mpc
  BY DEF Get, Ownership, Owned, TypeOK, PortTypeOK, mainVars
<1>2. Cardinality(NullAt')
        = Cardinality(NullAt) - (IF Head(queue).io = Null THEN 1 ELSE 0)
  BY <1>1, NullTail
<1>3. w \in Running /\ IsFiniteSet(Running)
      /\ Running' = IF Head(queue).io = Null THEN Running \ {w} ELSE Running
  <2>1. IsFiniteSet(Running)
    BY FS_Subset DEF Running
  <2>2. Running' = {v \in Worker : wpc'[v] # "exited"}
    BY DEF Running
  <2> QED
    BY <1>1, <2>1, <2>2 DEF Running
<1>4. Cardinality(Running') = Cardinality(Running) - (IF Head(queue).io = Null THEN 1 ELSE 0)
  <2>1. Cardinality(Running) \in Nat /\ Cardinality(Running \ {w}) = Cardinality(Running) - 1
    BY <1>3, FS_CardinalityType, FS_RemoveElement
  <2>2. CASE Head(queue).io = Null
    BY <1>3, <2>1, <2>2
  <2>3. CASE Head(queue).io # Null
    BY <1>3, <2>1, <2>3
  <2> QED
    BY <2>2, <2>3
<1>5. WorkersReleased'
  BY <1>1, <1>2, <1>4 DEF WorkersReleased, NullAt, Running
<1>6. ASSUME NullAt = {}
      PROVE  NullAt' = {} /\ Head(queue).io # Null
  <2>1. Len(queue) \in Nat \ {0} /\ Len(queue') = Len(queue) - 1 /\ Head(queue) = queue[1]
        /\ \A i \in 1..Len(queue') : queue'[i] = queue[i + 1] /\ i + 1 \in 1..Len(queue)
    BY <1>1
  <2>2. \A i \in 1..Len(queue) : queue[i].io # Null
    BY <1>6 DEF NullAt
  <2>3. \A i \in 1..Len(queue') : queue'[i].io # Null
    BY <2>1, <2>2
  <2> QED
    BY <2>1, <2>2, <2>3 DEF NullAt
<1>7. Unposted'
  BY <1>1, <1>6 DEF Unposted
<1> QED
  BY <1>5, <1>7

\* Every step of the shutdown.
LEMMA NextReleases ==
  ASSUME Ownership, Unposted, WorkersReleased, [Next]_vars
  PROVE  Unposted' /\ WorkersReleased'
<1>1. queue \in Seq(Packet) /\ wpc \in [Worker -> {"get", "work", "exited"}]
  BY DEF Ownership, Owned, TypeOK, PortTypeOK
<1>2. ASSUME NullAt' = NullAt, Running' = Running,
             mpc \in {"cleanup", "done"} => mpc' \in {"cleanup", "done"},
             mpc' = "cleanup" => mpc = "cleanup"
      PROVE  Unposted' /\ WorkersReleased'
  <2>1. (\A w \in Worker : wpc[w] # "exited") => \A w \in Worker : wpc'[w] # "exited"
    BY <1>2 DEF Running
  <2>2. Unposted'
    BY <1>2, <2>1 DEF Unposted
  <2>3. WorkersReleased'
    BY <1>2 DEF WorkersReleased, NullAt, Running
  <2> QED
    BY <2>2, <2>3
<1>3. CASE \E w \in Worker : Get(w)
  BY <1>3, GetReleases
<1>4. ASSUME NEW w \in Worker, Handle(w)
      PROVE  Unposted' /\ WorkersReleased'
  <2>1. queue' = queue /\ mpc' = mpc /\ wpc[w] = "work" /\ wpc' = [wpc EXCEPT ![w] = "get"]
    BY <1>4 DEF Handle, CloseConn, PostRead, PostWrite
  <2> QED
    BY <1>1, <1>2, <2>1 DEF NullAt, Running
<1>5. CASE Post
  <2>1. mpc = "post" /\ mpc' = "cleanup" /\ wpc' = wpc
    BY <1>5 DEF Post, workVars
  <2>2. Running' = Worker
    BY <2>1 DEF Running, Unposted
  <2>3. Cardinality(NullAt') = Cardinality(Worker)
    BY <1>5, PostOwn
  <2> QED
    BY <2>1, <2>2, <2>3 DEF Unposted, WorkersReleased, NullAt, Running
<1>6. ASSUME NEW p \in pend, NEW n \in {0, 1}, Complete(p, n),
             UNCHANGED <<heapVars, curAcceptSock, mainVars, hpc, workVars>>
      PROVE  Unposted' /\ WorkersReleased'
  <2> DEFINE pkt == [io |-> p.io, size |-> n]
  <2>1. pkt \in Packet /\ pkt.io # Null
    BY DEF Ownership, Owned, TypeOK, PortTypeOK, Op, Packet
  <2>2. queue' = IF p.port THEN Append(queue, pkt) ELSE queue
    BY <1>6 DEF Complete
  <2> HIDE DEF pkt
  <2>3. NullAt' = NullAt
    <3>1. CASE p.port
      BY <1>1, <2>1, <2>2, <3>1, NullAppend
    <3>2. CASE ~p.port
      BY <2>2, <3>2 DEF NullAt
    <3> QED
      BY <3>1, <3>2
  <2> QED
    BY <1>2, <1>6, <2>3 DEF mainVars, workVars, Running
<1>7. ASSUME queue' = queue, wpc' = wpc,
             mpc \in {"cleanup", "done"} => mpc' \in {"cleanup", "done"},
             mpc' = "cleanup" => mpc = "cleanup"
      PROVE  Unposted' /\ WorkersReleased'
  BY <1>2, <1>7 DEF NullAt, Running
<1>8. CASE \/ AcceptFailed \/ WaitFails \/ AcceptEmpty \/ FirstWrite \/ StartAccept \/ Bind
           \/ OpenSocket
  BY <1>7, <1>8 DEF AcceptFailed, WaitFails, AcceptEmpty, FirstWrite, StartAccept, Bind,
                    OpenSocket, CloseConn, PostWrite, workVars, portVars
<1>9. CASE \/ OutOfMemory \/ AcceptData \/ Return \/ Accepted \/ SignalTest \/ SignalClose
           \/ Ended \/ UNCHANGED vars
  BY <1>7, <1>9 DEF OutOfMemory, AcceptData, Return, Accepted, SignalTest, SignalClose,
                    Ended, vars, mainVars, workVars, portVars
<1>10. CASE Kernel
  <2>1. ASSUME NEW s \in Sock, PeerLeaves(s)
        PROVE  Unposted' /\ WorkersReleased'
    BY <1>7, <1>10, <2>1 DEF Kernel, PeerLeaves, mainVars, workVars
  <2> QED
    BY <1>6, <1>10, <2>1 DEF Kernel, KernelStep
<1> QED
  BY <1>3, <1>4, <1>5, <1>8, <1>9, <1>10 DEF Next, MainStep

-----------------------------------------------------------------------------
\* IndInv is inductive.
LEMMA Invariance == Spec => []IndInv
<1>1. Init => IndInv
  <2> SUFFICES ASSUME Init PROVE IndInv
    OBVIOUS
  <2>1. queue = <<>> /\ mpc = "open" /\ \A w \in Worker : wpc[w] = "get"
    BY DEF Init, PortInit
  <2>2. NullAt = {}
    BY <2>1 DEF NullAt
  <2>3. Unposted /\ WorkersReleased
    BY <2>1, <2>2 DEF Unposted, WorkersReleased
  <2> QED
    BY <2>3, InitOwn DEF IndInv
<1>2. IndInv /\ [Next]_vars => IndInv'
  BY NextOwn, NextReleases DEF IndInv
<1> QED
  BY <1>1, <1>2, PTL DEF Spec

\* Ownership of IoData in server_ex.c, for any number of connections and workers and
\* whatever the signal handler closes: none is used after it was freed or freed
\* twice.
THEOREM IoDataIsOwned == Spec => []Owned
<1>1. IndInv => Owned
  BY DEF IndInv, Ownership
<1> QED
  BY <1>1, Invariance, PTL

\* Ownership of handles: until the signal handler has closed a socket no thread
\* of server_ex.c closes the socket of another connection, and no IoData is lost.
THEOREM HandleIsOwned == Spec => []HandleOwned
<1>1. IndInv => HandleOwned
  BY DEF IndInv, Ownership
<1> QED
  BY <1>1, Invariance, PTL

\* Once main of server_ex.c has posted its packets there is exactly one left for
\* every worker that has not ended, for any number of workers.
THEOREM WorkersAreReleased == Spec => []WorkersReleased
<1>1. IndInv => WorkersReleased
  BY DEF IndInv
<1> QED
  BY <1>1, Invariance, PTL
=============================================================================
