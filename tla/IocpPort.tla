------------------------------ MODULE IocpPort ------------------------------
(***************************************************************************)
(* The part of Windows the echo servers of cmake/iocp and go/iocp stand    *)
(* on, modelled from how they use it: socket handles, overlapped WSARecv   *)
(* and WSASend, and one I/O completion port with its FIFO queue.           *)
(*                                                                         *)
(* A handle VALUE is reused as soon as the socket behind it is closed.  An *)
(* overlapped operation names its IoData by address; its completion is a   *)
(* packet in the queue.  The number of bytes matters to the servers only   *)
(* as zero or not zero, so a packet has size 0 or 1.                       *)
(***************************************************************************)
EXTENDS Naturals, Sequences, FiniteSets

CONSTANTS Sock,     \* socket handle values
          Invalid,  \* INVALID_SOCKET
          Io,       \* addresses malloc returns for an IoData
          Null,     \* the null pointer
          Worker    \* the worker threads

ASSUME PortAssumption ==
  /\ Invalid \notin Sock /\ Null \notin Io
  /\ IsFiniteSet(Sock) /\ IsFiniteSet(Io) /\ IsFiniteSet(Worker)

VARIABLES
  sock,   \* what is behind a handle value: "free", "idle" (not connected),
          \* "up" (connected), "down" (the peer is gone)
  bound,  \* the handles associated with the completion port
  pend,   \* overlapped operations not yet completed
  queue   \* the port's completion packets

portVars == <<sock, bound, pend, queue>>

Op == [io: Io, op: {"recv", "send"}, sock: Sock \cup {Invalid}, port: BOOLEAN]
Packet == [io: Io \cup {Null}, size: {0, 1}]

PortTypeOK ==
  /\ sock \in [Sock -> {"free", "idle", "up", "down"}]
  /\ bound \in SUBSET Sock
  /\ pend \in SUBSET Op
  /\ queue \in Seq(Packet)

PortInit ==
  /\ sock = [s \in Sock |-> "free"]
  /\ bound = {} /\ pend = {} /\ queue = <<>>

Open(s) == s \in Sock /\ sock[s] # "free"
Connected(s) == s \in Sock /\ sock[s] \in {"up", "down"}

\* closesocket: the handle value is free at once; the operations outstanding
\* on the socket are cancelled and complete later.  Closing a handle that is
\* not open changes nothing.
CloseSocket(s) ==
  /\ sock' = [x \in Sock |-> IF x = s THEN "free" ELSE sock[x]]
  /\ bound' = bound \ {s}
  /\ pend' = {IF p.sock = s THEN [p EXCEPT !.sock = Invalid] ELSE p : p \in pend}

\* WSARecv or WSASend that is accepted: it completed at once or it is pending,
\* and in both cases the port gets a packet, if the socket is bound to it.
Issue(d, what, s) ==
  /\ Connected(s)
  /\ pend' = pend \cup {[io |-> d, op |-> what, sock |-> s, port |-> s \in bound]}

\* An outstanding operation completes with n bytes; an operation that failed
\* or was cancelled completes with none.
Complete(p, n) ==
  /\ n = 0 => p.sock \in {Invalid} \cup {s \in Sock : sock[s] = "down"}
  /\ n = 1 => p.sock \in {s \in Sock : p.op = "recv" => sock[s] = "up"}
  /\ pend' = pend \ {p}
  /\ queue' = IF p.port THEN Append(queue, [io |-> p.io, size |-> n]) ELSE queue
  /\ UNCHANGED <<sock, bound>>

\* The peer closes or resets its end of a connection.
PeerLeaves(s) ==
  /\ sock[s] = "up"
  /\ sock' = [sock EXCEPT ![s] = "down"]
  /\ UNCHANGED <<bound, pend, queue>>

KernelStep ==
  \/ \E p \in pend, n \in {0, 1} : Complete(p, n)
  \/ \E s \in Sock : PeerLeaves(s)

QueuedIo == {queue[i].io : i \in 1..Len(queue)} \ {Null}
PendingIo == {p.io : p \in pend}

\* No two outstanding operations and no two packets are about the same IoData.
OnePerIo ==
  /\ \A p, q \in pend : p.io = q.io => p = q
  /\ \A i, j \in 1..Len(queue) :
       queue[i].io = queue[j].io /\ queue[i].io # Null => i = j
  /\ PendingIo \cap QueuedIo = {}
=============================================================================
