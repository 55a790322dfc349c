---------------------------- MODULE AsioSession ----------------------------
(***************************************************************************)
(* cmake/asio/net: a listener coroutine and, for every connection, a       *)
(* session with a reader and a writer coroutine, all run by the one thread *)
(* in io_context::run.  A step of the model takes a coroutine from one     *)
(* co_await to the next; steps of different coroutines come in any order.  *)
(*                                                                         *)
(* A session is kept by its two coroutines and released when both are      *)
(* over.  Its socket is closed by stop, or with the session.               *)
(***************************************************************************)
EXTENDS FiniteSets, Naturals

CONSTANTS Conn,     \* connections that peers may make
          MaxFds    \* sockets the process may have open

ASSUME FdAssumption == IsFiniteSet(Conn) /\ MaxFds \in Nat

VARIABLES
  io,        \* initNet: "starting", "running", "stopped" (run has returned),
             \* "failed" (the port was not free), "crashed"
  listener,  \* "accepting", or "over"
  peer,      \* peer[c]: "away", "connecting" (in the kernel's backlog), "left"
             \* (there too, but it has closed its end), "here" or "gone"
  sent,      \* sent[c]: what the peer has sent of its message: "nothing",
             \* "length", "all"; "short" if it is all of a message of less than
             \* the two bytes of a command number
  reader,    \* reader[c]: "none" (no session), "start", "length" and "body"
             \* (awaiting that read), "served", "failed"
  writer,    \* writer[c]: "none", "start", "waiting", "woken", "over"
  sockets    \* connections whose socket is open

peerVars == <<peer, sent>>
sessionVars == <<reader, writer, sockets>>
asioVars == <<io, listener, peerVars, sessionVars>>

AsioTypeOK ==
  /\ io \in {"starting", "running", "stopped", "failed", "crashed"}
  /\ listener \in {"accepting", "over"}
  /\ peer \in [Conn -> {"away", "connecting", "left", "here", "gone"}]
  /\ sent \in [Conn -> {"nothing", "length", "all", "short"}]
  /\ reader \in [Conn -> {"none", "start", "length", "body", "served", "failed"}]
  /\ writer \in [Conn -> {"none", "start", "waiting", "woken", "over"}]
  /\ sockets \subseteq Conn

AsioInit ==
  /\ io = "starting" /\ listener = "over"
  /\ peer = [c \in Conn |-> "away"]
  /\ sent = [c \in Conn |-> "nothing"]
  /\ reader = [c \in Conn |-> "none"]
  /\ writer = [c \in Conn |-> "none"]
  /\ sockets = {}

-----------------------------------------------------------------------------
(* initNet and the listener.                                               *)

\* The acceptor is bound and the listener spawned; or the constructor throws.
InitNet ==
  /\ io = "starting"
  /\ \/ io' = "running" /\ listener' = "accepting"
     \/ io' = "failed" /\ UNCHANGED listener
  /\ UNCHANGED <<peerVars, sessionVars>>

\* The connections async_accept can get.
Queued(c) == peer[c] \in {"connecting", "left"}

\* session::start spawns both coroutines; neither has run yet.
Accept(c) ==
  /\ io = "running" /\ listener = "accepting" /\ Queued(c)
  /\ Cardinality(sockets) < MaxFds
  /\ peer' = [peer EXCEPT ![c] = IF @ = "left" THEN "gone" ELSE "here"]
  /\ sockets' = sockets \cup {c}
  /\ reader' = [reader EXCEPT ![c] = "start"]
  /\ writer' = [writer EXCEPT ![c] = "start"]
  /\ UNCHANGED <<io, listener, sent>>

\* No descriptor is left: async_accept throws, the exception ends the listener,
\* and since it is detached nobody hears of it.
AcceptFails(c) ==
  /\ io = "running" /\ listener = "accepting" /\ Queued(c)
  /\ Cardinality(sockets) = MaxFds
  /\ listener' = "over"
  /\ UNCHANGED <<io, peerVars, sessionVars>>

\* SIGINT or SIGTERM: run returns, and the destructor of the io_context destroys
\* the coroutines and with them the sessions.
Signal ==
  /\ io = "running"
  /\ io' = "stopped" /\ listener' = "over"
  /\ reader' = [c \in Conn |-> "none"] /\ writer' = [c \in Conn |-> "none"]
  /\ sockets' = {}
  /\ UNCHANGED peerVars

-----------------------------------------------------------------------------
(* A session.                                                              *)

\* Mutant: stop does not cancel the timer.
StopLeavesTimer(c) ==
  /\ sockets' = sockets \ {c}
  /\ UNCHANGED writer

\* stop: close the socket and cancel the timer, which completes a wait that
\* has begun.
Stop(c) ==
  /\ sockets' = sockets \ {c}
  /\ writer' = [writer EXCEPT ![c] = IF @ = "waiting" THEN "woken" ELSE @]

ReaderStarts(c) ==
  /\ io = "running" /\ reader[c] = "start"
  /\ reader' = [reader EXCEPT ![c] = "length"]
  /\ UNCHANGED <<io, listener, peerVars, writer, sockets>>

ReaderGetsLength(c) ==
  /\ io = "running" /\ reader[c] = "length" /\ sent[c] # "nothing"
  /\ reader' = [reader EXCEPT ![c] = "body"]
  /\ UNCHANGED <<io, listener, peerVars, writer, sockets>>

\* The message is complete: its handler is called if there is one.  That is all
\* the reader does; it does not call stop.  With fewer than two bytes the
\* command number is what the stack held, and if a handler happens to have it the
\* message is parsed with a negative length.
ReaderGetsBody(c) ==
  /\ io = "running" /\ reader[c] = "body" /\ sent[c] \in {"all", "short"}
  /\ \/ /\ reader' = [reader EXCEPT ![c] = "served"]
        /\ UNCHANGED io
     \/ /\ sent[c] = "short"
        /\ io' = "crashed"
        /\ UNCHANGED reader
  /\ UNCHANGED <<listener, peerVars, writer, sockets>>

\* Mutant: the catch block of the reader is empty.
ReaderFailsUnstopped(c) ==
  /\ io = "running" /\ reader[c] \in {"length", "body"} /\ peer[c] = "gone"
  /\ reader' = [reader EXCEPT ![c] = "failed"]
  /\ UNCHANGED <<io, listener, peerVars, writer, sockets>>

\* async_read throws: the peer has gone.  What it had sent may be lost.
ReaderFails(c) ==
  /\ io = "running" /\ reader[c] \in {"length", "body"} /\ peer[c] = "gone"
  /\ reader' = [reader EXCEPT ![c] = "failed"]
  /\ Stop(c)
  /\ UNCHANGED <<io, listener, peerVars>>

\* One turn of the writer's loop.  Nothing is ever put into m_write_msgs, so it
\* waits for the timer, which never expires, or ends if the socket is closed.
WriterRuns(c) ==
  /\ io = "running" /\ writer[c] \in {"start", "woken"}
  /\ writer' = [writer EXCEPT ![c] = IF c \in sockets THEN "waiting" ELSE "over"]
  /\ UNCHANGED <<io, listener, peerVars, reader, sockets>>

-----------------------------------------------------------------------------
(* The peers (external).                                                   *)

Connect(c) == /\ peer[c] = "away"
              /\ peer' = [peer EXCEPT ![c] = "connecting"]
              /\ UNCHANGED sent

Send(c) == /\ peer[c] \in {"connecting", "here"}
           /\ \/ sent[c] = "nothing" /\ sent' = [sent EXCEPT ![c] = "length"]
              \/ sent[c] = "nothing" /\ sent' = [sent EXCEPT ![c] = "short"]
              \/ sent[c] = "length" /\ sent' = [sent EXCEPT ![c] = "all"]
           /\ UNCHANGED peer

Leave(c) == /\ peer[c] \in {"connecting", "here"}
            /\ peer' = [peer EXCEPT ![c] = IF @ = "here" THEN "gone" ELSE "left"]
            /\ UNCHANGED sent

\* Only what happens while the server runs matters.
Peer(c) == /\ io = "running"
           /\ Connect(c) \/ Send(c) \/ Leave(c)
           /\ UNCHANGED <<io, listener, sessionVars>>

-----------------------------------------------------------------------------
Listen(c) == Accept(c) \/ AcceptFails(c)

Reader(c) == \/ ReaderStarts(c) \/ ReaderGetsLength(c) \/ ReaderGetsBody(c)
             \/ ReaderFails(c)

AsioNext == \/ InitNet \/ Signal
            \/ \E c \in Conn : Listen(c) \/ Reader(c) \/ WriterRuns(c) \/ Peer(c)

AsioSpec == AsioInit /\ [][AsioNext]_asioVars

(* run keeps executing what is ready, and the kernel hands out connections *)
(* in the order they came.  Nothing makes a peer send or leave.            *)
Fairness == \A c \in Conn : /\ WF_asioVars(Listen(c))
                            /\ WF_asioVars(Reader(c))
                            /\ WF_asioVars(WriterRuns(c))

FairSpec == AsioSpec /\ Fairness

-----------------------------------------------------------------------------
(* Properties.                                                             *)

\* While io_context::run runs, the socket of a session is open exactly until its
\* reader fails: a reader that has served its message leaves the socket open
\* and the writer waiting, whatever the peer does, and only the signal ends
\* that; a reader that failed has closed it, and the writer is not left
\* waiting for the timer.  Only a message too short for its number can crash
\* the process.
KeptExactly ==
  /\ AsioTypeOK
  /\ io = "running" => \A c \in Conn :
       /\ c \in sockets <=> reader[c] \notin {"none", "failed"}
       /\ c \in sockets => writer[c] \in {"start", "waiting"}
       /\ writer[c] = "waiting" => c \in sockets
  /\ io = "crashed" => \E c \in Conn : sent[c] = "short"

\* A peer that connects is accepted as long as the listener lives, even if it
\* has left meanwhile, and a session whose peer leaves before its message is
\* complete is released, so that only served sessions use up the descriptors.
PeersAttended ==
  \A c \in Conn :
    /\ Queued(c) ~> (c \in sockets \/ listener = "over" \/ io # "running")
    /\ (peer[c] = "gone" /\ c \in sockets) ~>
         (writer[c] = "over" \/ reader[c] = "served" \/ io # "running")
=============================================================================
