-------------------------------- MODULE Rpc --------------------------------
(***************************************************************************)
(* cmake/rpc_c: clients (rpc_client.c, rpc_get_rsp of rpc_util.c), the     *)
(* server (rpc_server.c), which handles one connection after the other,    *)
(* and the TCP connections between them, one per call.  The build is the   *)
(* one for Linux.                                                          *)
(*                                                                         *)
(* A message is four fields: magic number, serial number, length, body.    *)
(* A field that was written may be read, or only a piece of it, or it is    *)
(* late and the read times out; after the network has failed nothing       *)
(* arrives any more.  A connection is reset when data is left at, or       *)
(* arrives at, an end that is closed; the other end learns of it at any    *)
(* later time: reads fail, a write fails or raises                         *)
(* SIGPIPE, which kills.  Messages fit into the socket buffers, so writes  *)
(* do not block; there is memory for every message.                        *)
(***************************************************************************)
EXTENDS RpcWire, FiniteSets, FiniteSetsExt

CONSTANTS Client,       \* the processes that make calls
          MaxCalls,     \* bound on the calls of each
          Requests,     \* the requests that each of them makes
          MaxFailures,  \* bound on the connections the network fails on
          None,         \* no request, no result, no connection
          Backlog,      \* the limit listen gets
          Timeout,      \* whether rpc_set_timeout set one, as main does
          ServerFns,    \* the functions server() registers, in order
          MaxHandlers   \* MAX_HANDLERS

Request == UNION {Requests[c] : c \in Client}

\* main.c has three handlers; None is neither a request nor what a call returns.
ASSUME RpcAssumption ==
  /\ Timeout \in BOOLEAN /\ Backlog \in Nat \ {0} /\ MaxHandlers \in Nat
  /\ MaxCalls \in Nat /\ MaxFailures \in Nat
  /\ ServerFns \in Seq({"sum", "concat", "login"})
  /\ \A r \in Request :
       DOMAIN r = {"fn", "args", "fits"} /\ r.args \in Seq(STRING) /\ r.fits \in BOOLEAN
  /\ None \notin Request \cup Result

\* A call is named by its process and the value of callSN.
Call == Client \X (1..MaxCalls)

VARIABLES
  cpc,       \* a client: "idle", "connect", "write", "read", "release",
             \* "killed"
  cstep,     \* the field it writes or reads next
  callSN,    \* its static callSN
  gotSN,     \* the serial number in the answer it reads
  req,       \* the request of a call
  result,    \* what rpc_call returned and left in *result
  buf,       \* the request's buffer: "none", "held", "freed"
  spc,       \* the server: "start", "loop", "select", "read", "answer",
             \* "exited", "killed"
  sstep,     \* the field it reads or writes next
  cur,       \* the connection it handles
  sSN,       \* handle_client's callSN
  out,       \* handle_client's out_buf
  is_running,
  executed,  \* how often a handler has run for a call
  cend,      \* the client's end of a connection: "none", "open", "closed"
  send,      \* the server's end; "none" while it waits to be accepted
  up,        \* the stream to the server: the fields not yet read
  down,      \* the stream to the client
  reset,     \* connections that were reset
  cut,       \* connections on which the network has failed
  backlog    \* connections that wait to be accepted

clientVars == <<cpc, cstep, callSN, gotSN, req, result, buf>>
serverVars == <<spc, sstep, cur, sSN, out, is_running, executed>>
netVars == <<cend, send, up, down, reset, cut, backlog>>
vars == <<clientVars, serverVars, netVars>>

Init ==
  /\ cpc = [c \in Client |-> "idle"] /\ cstep = [c \in Client |-> 1]
  /\ callSN = [c \in Client |-> 0] /\ gotSN = [c \in Client |-> 0]
  /\ req = [k \in Call |-> None] /\ result = [k \in Call |-> None]
  /\ buf = [k \in Call |-> "none"]
  /\ spc = "start" /\ sstep = 1 /\ cur = None /\ sSN = 0 /\ out = Nothing
  /\ is_running = FALSE /\ executed = [k \in Call |-> 0]
  /\ cend = [k \in Call |-> "none"] /\ send = [k \in Call |-> "none"]
  /\ up = [k \in Call |-> <<>>] /\ down = [k \in Call |-> <<>>]
  /\ reset = {} /\ cut = {} /\ backlog = <<>>

\* The listening socket is open.
Listening == spc \in {"loop", "select", "read", "answer"}

Of(c) == <<c, callSN[c]>>

-----------------------------------------------------------------------------
(***************************************************************************)
(* Streams.                                                                *)
(***************************************************************************)

\* write: the field is on its way, unless the other end is closed: then it is
\* lost, and resets the connection.
Put(ch, v, peer) == IF peer = "closed" THEN ch ELSE Append(ch, v)
Lost(k, peer) == IF peer = "closed" THEN {k} ELSE {}

\* The next field can be read.
Whole(k, ch) == ch # <<>> /\ k \notin cut

\* A piece of the next field can be read: for a header field, which is read by
\* one read, that is a failure, like a wrong magic number; the body is read until
\* it is complete.
Short(k, ch, step) == step < 4 /\ Whole(k, ch)

\* The end of the stream.
Ended(k, ch, peer) == peer = "closed" /\ ch = <<>> /\ k \notin cut

Broken(k) == k \in reset \ cut

\* With a time-out set, any read may fail: what it waits for may come too late.
ReadFails(k, ch, peer, step) ==
  Timeout \/ Short(k, ch, step) \/ Ended(k, ch, peer) \/ Broken(k)

NetworkFails(k) ==
  /\ "open" \in {cend[k], send[k]} /\ k \notin cut
  /\ Cardinality(cut) < MaxFailures /\ cut' = cut \cup {k}
  /\ UNCHANGED <<clientVars, serverVars, cend, send, up, down, reset, backlog>>

-----------------------------------------------------------------------------
(***************************************************************************)
(* rpc_call.                                                               *)
(***************************************************************************)

\* On close: what has come, or will come, and was not read resets the connection.
Unread(k, ch) == IF ch = <<>> THEN {} ELSE {k}

CloseClientEnd(k, left) ==
  /\ cend' = [cend EXCEPT ![k] = "closed"]
  /\ down' = [down EXCEPT ![k] = <<>>]
  /\ reset' = reset \cup Unread(k, left)

\* rpc_call closes its socket and returns; left is what it has not read.
Return(c, r, left) ==
  /\ result' = [result EXCEPT ![Of(c)] = r]
  /\ cpc' = [cpc EXCEPT ![c] = "release"] /\ cstep' = [cstep EXCEPT ![c] = 1]
  /\ gotSN' = [gotSN EXCEPT ![c] = 0]
  /\ CloseClientEnd(Of(c), left)

\* RPC_MAKE_REQ and the start of rpc_call.
StartCall(c, r) ==
  /\ cpc[c] = "idle" /\ callSN[c] < MaxCalls
  /\ callSN' = [callSN EXCEPT ![c] = @ + 1]
  /\ req' = [req EXCEPT ![<<c, callSN[c] + 1>>] = r]
  /\ buf' = [buf EXCEPT ![<<c, callSN[c] + 1>>] = "held"]
  /\ cpc' = [cpc EXCEPT ![c] = "connect"]
  /\ UNCHANGED <<cstep, gotSN, result, serverVars, netVars>>

\* No socket, no host, or connect fails: buf is not freed.
ConnectFails(c) ==
  /\ cpc[c] = "connect"
  /\ result' = [result EXCEPT ![Of(c)] = Failed]
  /\ cpc' = [cpc EXCEPT ![c] = "release"]
  /\ UNCHANGED <<cstep, callSN, gotSN, req, buf, serverVars, netVars>>

Connect(c) ==
  /\ cpc[c] = "connect"
  /\ Listening /\ Len(backlog) < Backlog
  /\ backlog' = Append(backlog, Of(c))
  /\ cend' = [cend EXCEPT ![Of(c)] = "open"]
  /\ cpc' = [cpc EXCEPT ![c] = "write"] /\ cstep' = [cstep EXCEPT ![c] = 1]
  /\ UNCHANGED <<callSN, gotSN, req, result, buf, serverVars, send, up, down, reset, cut>>

RequestField(c, i) ==
  <<"magic", callSN[c], req[Of(c)].fits, req[Of(c)]>>[i]

\* After the body the buffer is freed, and the answer is awaited.
Write(c) ==
  /\ cpc[c] = "write"
  /\ up' = [up EXCEPT ![Of(c)] = Put(@, RequestField(c, cstep[c]), send[Of(c)])]
  /\ reset' = reset \cup Lost(Of(c), send[Of(c)])
  /\ IF cstep[c] < 4
     THEN cstep' = [cstep EXCEPT ![c] = @ + 1] /\ UNCHANGED <<cpc, buf>>
     ELSE /\ cstep' = [cstep EXCEPT ![c] = 1]
          /\ cpc' = [cpc EXCEPT ![c] = "read"]
          /\ buf' = [buf EXCEPT ![Of(c)] = "freed"]
  /\ UNCHANGED <<callSN, gotSN, req, result, serverVars, cend, send, down, backlog, cut>>

\* Mutant: the buffer is not freed when a write fails.
WriteFailsLeaks(c) ==
  /\ cpc[c] = "write" /\ Broken(Of(c))
  /\ Return(c, Failed, down[Of(c)])
  /\ UNCHANGED <<callSN, req, buf, serverVars, send, up, backlog, cut>>

WriteFails(c) ==
  /\ cpc[c] = "write" /\ Broken(Of(c))
  /\ buf' = [buf EXCEPT ![Of(c)] = "freed"]
  /\ Return(c, Failed, down[Of(c)])
  /\ UNCHANGED <<callSN, req, serverVars, send, up, backlog, cut>>

\* SIGPIPE.
ClientKilled(c) ==
  /\ cpc[c] = "write" /\ Broken(Of(c))
  /\ cpc' = [cpc EXCEPT ![c] = "killed"]
  /\ CloseClientEnd(Of(c), down[Of(c)])
  /\ UNCHANGED <<cstep, callSN, gotSN, req, result, buf, serverVars, send, up,
                 backlog, cut>>

\* rpc_get_rsp: the header.
NoBody(c) == cstep[c] = 3 /\ Head(down[Of(c)]) = 0

ReadHeader(c) ==
  LET ch == down[Of(c)] IN
  /\ cpc[c] = "read" /\ cstep[c] < 4 /\ Whole(Of(c), ch)
  /\ ~NoBody(c) /\ (cstep[c] = 1 => Head(ch) = "magic")
  /\ down' = [down EXCEPT ![Of(c)] = Tail(@)]
  /\ gotSN' = IF cstep[c] = 2 THEN [gotSN EXCEPT ![c] = Head(ch)] ELSE gotSN
  /\ cstep' = [cstep EXCEPT ![c] = @ + 1]
  /\ UNCHANGED <<cpc, callSN, req, result, buf, serverVars, cend, send, up,
                 reset, backlog, cut>>

\* An answer of length 0 has no result to read.
ReadNothing(c) ==
  /\ cpc[c] = "read" /\ Whole(Of(c), down[Of(c)]) /\ NoBody(c)
  /\ Return(c, Failed, Tail(down[Of(c)]))
  /\ UNCHANGED <<callSN, req, buf, serverVars, send, up, backlog, cut>>

\* Mutant: the answer is not waited for once its serial number is known.
ReadBodyEarly(c) ==
  /\ cpc[c] = "read" /\ cstep[c] >= 3
  /\ Return(c, [ret |-> "ok", res |-> "ok", data |-> "unset"], down[Of(c)])
  /\ UNCHANGED <<callSN, req, buf, serverVars, send, up, backlog, cut>>

\* rpc_get_rsp: the body.  With another serial number only res is taken from it.
ReadBody(c) ==
  LET a == Head(down[Of(c)]) IN
  /\ cpc[c] = "read" /\ cstep[c] = 4 /\ Whole(Of(c), down[Of(c)])
  /\ Return(c, IF gotSN[c] = callSN[c] THEN Accept(a)
               ELSE [Accept(a) EXCEPT !.ret = "failed", !.data = "unset"],
               Tail(down[Of(c)]))
  /\ UNCHANGED <<callSN, req, buf, serverVars, send, up, backlog, cut>>

\* Mutant: no time-out was set on the client's socket.
ReadAnswerNoTimeout(c) ==
  LET ch == down[Of(c)] IN
  /\ cpc[c] = "read"
  /\ Short(Of(c), ch, cstep[c]) \/ Ended(Of(c), ch, send[Of(c)]) \/ Broken(Of(c))
  /\ Return(c, Failed, down[Of(c)])
  /\ UNCHANGED <<callSN, req, buf, serverVars, send, up, backlog, cut>>

ReadAnswerFails(c) ==
  /\ cpc[c] = "read"
  /\ ReadFails(Of(c), down[Of(c)], send[Of(c)], cstep[c])
  /\ Return(c, Failed, down[Of(c)])
  /\ UNCHANGED <<callSN, req, buf, serverVars, send, up, backlog, cut>>

\* rpc_rsp_release looks at data.type; when it was never set, what is found
\* there may look like a string, and some address is freed.
Release(c) ==
  /\ cpc[c] = "release"
  /\ \/ cpc' = [cpc EXCEPT ![c] = "idle"]
     \/ result[Of(c)].data = "unset" /\ cpc' = [cpc EXCEPT ![c] = "killed"]
  /\ UNCHANGED <<cstep, callSN, gotSN, req, result, buf, serverVars, netVars>>

ClientStep(c) ==
  \/ Connect(c) \/ ConnectFails(c) \/ Write(c) \/ WriteFails(c) \/ ClientKilled(c)
  \/ ReadHeader(c) \/ ReadNothing(c) \/ ReadBody(c) \/ ReadAnswerFails(c)
  \/ Release(c)

-----------------------------------------------------------------------------
(***************************************************************************)
(* server(), rpc_server_register and rpc_server_run.                       *)
(***************************************************************************)

\* What is in the table after server() has registered its functions: a table
\* that is full refuses, and server() does not look.
handlers == {ServerFns[i] : i \in 1..Min({Len(ServerFns), MaxHandlers})}

\* rpc_server_run up to its loop.
Run ==
  /\ spc = "start" /\ spc' = "loop" /\ is_running' = TRUE
  /\ UNCHANGED <<clientVars, sstep, cur, sSN, out, executed, netVars>>

\* socket, bind or listen fails.
RunFails ==
  /\ spc = "start" /\ spc' = "exited"
  /\ UNCHANGED <<clientVars, sstep, cur, sSN, out, is_running, executed, netVars>>

\* on_sig.
OnSignal ==
  /\ Listening /\ is_running /\ is_running' = FALSE
  /\ UNCHANGED <<clientVars, spc, sstep, cur, sSN, out, executed, netVars>>

\* The process ends: its end of every connection is closed, and those that
\* nobody accepted are reset.  left is what it has not read of the connection it
\* handles.
End(how, left) ==
  LET waiting == ToSet(backlog)
      open == {k \in Call : send[k] = "open"}
  IN /\ spc' = how /\ backlog' = <<>>
     /\ send' = [k \in Call |-> IF k \in waiting \cup open THEN "closed" ELSE send[k]]
     /\ reset' = reset \cup waiting \cup UNION {Unread(k, left) : k \in open}
     /\ up' = [k \in Call |-> <<>>]
     /\ sstep' = 1 /\ sSN' = 0 /\ out' = Nothing
     /\ UNCHANGED <<clientVars, cur, is_running, cend, down, cut>>

\* Mutant: the loop does not look at is_running.
LoopForever ==
  /\ spc = "loop" /\ spc' = "select"
  /\ UNCHANGED <<clientVars, sstep, cur, sSN, out, is_running, executed, netVars>>

Loop ==
  /\ spc = "loop" /\ is_running /\ spc' = "select"
  /\ UNCHANGED <<clientVars, sstep, cur, sSN, out, is_running, executed, netVars>>

\* The loop ends, or a signal interrupts select.
Exit ==
  /\ spc \in {"loop", "select"} /\ ~is_running
  /\ End("exited", <<>>) /\ UNCHANGED executed

SelectTimesOut ==
  /\ spc = "select" /\ backlog = <<>> /\ spc' = "loop"
  /\ UNCHANGED <<clientVars, sstep, cur, sSN, out, is_running, executed, netVars>>

AcceptConn ==
  /\ spc = "select" /\ backlog # <<>>
  /\ cur' = Head(backlog) /\ backlog' = Tail(backlog)
  /\ send' = [send EXCEPT ![Head(backlog)] = "open"]
  /\ spc' = "read" /\ sstep' = 1
  /\ UNCHANGED <<clientVars, sSN, out, is_running, executed, cend, up,
                 down, reset, cut>>

\* accept reports that the connection was lost while it waited.
AcceptFails ==
  /\ spc = "select" /\ backlog # <<>> /\ backlog' = Tail(backlog)
  /\ send' = [send EXCEPT ![Head(backlog)] = "closed"]
  /\ up' = [up EXCEPT ![Head(backlog)] = <<>>]
  /\ reset' = reset \cup {Head(backlog)}
  /\ spc' = "loop"
  /\ UNCHANGED <<clientVars, sstep, cur, sSN, out, is_running, executed, cend, down,
                 cut>>

-----------------------------------------------------------------------------
(***************************************************************************)
(* handle_client.                                                          *)
(***************************************************************************)

\* close_sock(client_fd), and handle_client returns.
Hangup(left) ==
  /\ send' = [send EXCEPT ![cur] = "closed"]
  /\ up' = [up EXCEPT ![cur] = <<>>]
  /\ reset' = reset \cup Unread(cur, left)
  /\ spc' = "loop" /\ cur' = None
  /\ sstep' = 1 /\ sSN' = 0 /\ out' = Nothing

\* A field has come and is not acceptable: wrong magic number, a length of 0
\* or over MAX_MSG_LEN, a name of MAX_FUNC_NAME_LEN or more.
Refused(v) ==
  \/ sstep = 1 /\ v # "magic"
  \/ sstep = 3 /\ ~v
  \/ sstep = 4 /\ v.fn = "overlong"

ReadRequest ==
  LET v == Head(up[cur]) IN
  /\ spc = "read" /\ sstep < 4 /\ Whole(cur, up[cur])
  /\ ~Refused(v)
  /\ up' = [up EXCEPT ![cur] = Tail(@)]
  /\ sSN' = IF sstep = 2 THEN v ELSE sSN
  /\ sstep' = sstep + 1
  /\ UNCHANGED <<clientVars, spc, cur, out, is_running, executed, cend,
                 send, down, reset, backlog, cut>>

\* The request is whole and its name acceptable.
Ready == spc = "read" /\ sstep = 4 /\ Whole(cur, up[cur]) /\ ~Refused(Head(up[cur]))

\* The handler runs, or there is none.
Runs(r) ==
  executed' = IF r.fn \in handlers THEN [executed EXCEPT ![cur] = @ + 1] ELSE executed

Execute ==
  LET r == Head(up[cur]) IN
  /\ Ready /\ Answer(r, handlers) # Crash
  /\ up' = [up EXCEPT ![cur] = Tail(@)]
  /\ out' = Answer(r, handlers)
  /\ Runs(r)
  /\ spc' = "answer" /\ sstep' = 1
  /\ UNCHANGED <<clientVars, cur, sSN, is_running, cend, send, down, reset, backlog, cut>>

ExecuteCrashes ==
  /\ Ready /\ Answer(Head(up[cur]), handlers) = Crash
  /\ Runs(Head(up[cur]))
  /\ End("killed", Tail(up[cur]))

ReadRefused ==
  /\ spc = "read" /\ Whole(cur, up[cur]) /\ Refused(Head(up[cur]))
  /\ Hangup(Tail(up[cur]))
  /\ UNCHANGED <<clientVars, is_running, executed, cend, down, backlog, cut>>

\* Mutant: no time-out was set on the accepted socket.
ReadRequestNoTimeout ==
  LET ch == up[cur] IN
  /\ spc = "read"
  /\ Short(cur, ch, sstep) \/ Ended(cur, ch, cend[cur]) \/ Broken(cur)
  /\ Hangup(up[cur])
  /\ UNCHANGED <<clientVars, is_running, executed, cend, down, backlog, cut>>

\* A signal interrupts the read like a time-out: on a socket that has one, read
\* is not restarted.
ReadRequestFails ==
  /\ spc = "read"
  /\ ReadFails(cur, up[cur], cend[cur], sstep)
  /\ Hangup(up[cur])
  /\ UNCHANGED <<clientVars, is_running, executed, cend, down, backlog, cut>>

AnswerField(i) ==
  <<"magic", sSN, IF out = Nothing THEN 0 ELSE 1, out>>[i]

\* The results of the four writes are not looked at.
SendField ==
  /\ spc = "answer" /\ sstep < 4
  /\ down' = [down EXCEPT ![cur] = Put(@, AnswerField(sstep), cend[cur])]
  /\ reset' = reset \cup Lost(cur, cend[cur])
  /\ sstep' = sstep + 1
  /\ UNCHANGED <<clientVars, spc, cur, sSN, out, is_running, executed,
                 cend, send, up, backlog, cut>>

SendBody ==
  /\ spc = "answer" /\ sstep = 4
  /\ down' = IF out = Nothing THEN down
             ELSE [down EXCEPT ![cur] = Put(@, AnswerField(4), cend[cur])]
  /\ Hangup(up[cur])
  /\ UNCHANGED <<clientVars, is_running, executed, cend, backlog, cut>>

\* SIGPIPE.
ServerKilled ==
  /\ spc = "answer" /\ Broken(cur)
  /\ End("killed", up[cur]) /\ UNCHANGED executed

ServerStep ==
  \/ Run \/ RunFails
  \/ Loop \/ Exit \/ SelectTimesOut \/ AcceptConn \/ AcceptFails
  \/ ReadRequest \/ Execute \/ ExecuteCrashes \/ ReadRefused \/ ReadRequestFails
  \/ SendField \/ SendBody \/ ServerKilled

Next ==
  \/ \E c \in Client : ClientStep(c) \/ \E r \in Requests[c] : StartCall(c, r)
  \/ ServerStep \/ OnSignal
  \/ \E k \in Call : NetworkFails(k)

Spec == Init /\ [][Next]_vars

\* Every process keeps running.  Nothing makes the network deliver, a client
\* call, or the user stop the server.
Fairness == WF_vars(ServerStep) /\ \A c \in Client : WF_vars(ClientStep(c))
FairSpec == Spec /\ Fairness

-----------------------------------------------------------------------------
(***************************************************************************)
(* Properties.                                                             *)
(***************************************************************************)

\* The values the variables may take, a part of NothingLeftOpen.
TypeOK ==
  /\ cpc \in [Client -> {"idle", "connect", "write", "read", "release", "killed"}]
  /\ cstep \in [Client -> 1..4]
  /\ callSN \in [Client -> 0..MaxCalls] /\ gotSN \in [Client -> 0..MaxCalls]
  /\ req \in [Call -> Request \cup {None}]
  /\ buf \in [Call -> {"none", "held", "freed"}]
  /\ spc \in {"start", "loop", "select", "read", "answer", "exited", "killed"}
  /\ sstep \in 1..4 /\ cur \in Call \cup {None} /\ sSN \in 0..MaxCalls
  /\ is_running \in BOOLEAN
  /\ executed \in [Call -> Nat] /\ reset \subseteq Call /\ cut \subseteq Call
  /\ cend \in [Call -> {"none", "open", "closed"}]
  /\ send \in [Call -> {"none", "open", "closed"}]
  /\ Len(backlog) <= Backlog /\ ToSet(backlog) \subseteq Call

\* No path through rpc_call or handle_client (rpc_client.c:7, rpc_server.c:55)
\* leaves a socket open or the request buffer allocated: a call that connected
\* has, when it returns, closed its socket and freed its request; between two
\* connections the server has no socket of a connection open.
NothingLeftOpen ==
  /\ TypeOK
  /\ \A k \in Call : result[k] # None /\ cend[k] # "none" =>
       cend[k] = "closed" /\ buf[k] = "freed"
  /\ spc \in {"loop", "select", "exited"} => \A k \in Call : send[k] # "open"

\* The server is killed by two things only: a handler that crashes, and
\* SIGPIPE from its unchecked writes (rpc_server.c:124), which needs a client
\* that has given the call up.  A call that succeeds never kills the server.
\* A client is killed by SIGPIPE too, or because it releases a result that
\* rpc_call has not written (main.c:113): after a call that failed, or after
\* one of login, whose good answer has no arguments.  Both crashes happen: the
\* handler's (main.c:31) and the release of a result that was not written are
\* causes listed here, and what is excluded is every other way to die.
KilledBy ==
  /\ spc = "killed" =>
       \/ Answer(req[cur], handlers) = Crash
       \/ cend[cur] = "closed" /\ (result[cur] = None \/ result[cur].ret # "ok")
  /\ \A c \in Client : cpc[c] = "killed" =>
       \/ result[Of(c)] = None \/ result[Of(c)].ret # "ok"
       \/ req[Of(c)].fn = "login"

\* A call comes back (rpc_set_sock_timeout, rpc_client.c:32), whatever the
\* network and the server do, or the process is killed.
CallReturns ==
  \A c \in Client : cpc[c] \in {"connect", "write", "read"}
                      ~> cpc[c] \in {"release", "killed"}

\* A client that stalls does not keep the server from the others for ever
\* (rpc_server.c:58): every connection that waits is taken up, or
\* dropped because the server ends or the connection is lost.
EveryoneIsServed ==
  \A k \in Call : k \in ToSet(backlog) ~> k \notin ToSet(backlog)

\* SIGINT ends the server (rpc_server.c:176), also when it is reading from a
\* client that stalls.
SignalStops == (Listening /\ ~is_running) ~> spc \in {"exited", "killed"}

\* What rpc_call returns when it gets the handler's answer.
Answered(r) ==
  LET a == Answer(r, handlers)
  IN IF a \in {Crash, Nothing} THEN Failed ELSE Accept(a)

Abstract == INSTANCE RpcCall WITH
  asked <- req, outcome <- result, NoRequest <- None, Answers <- Answered

\* At most once (rpc_call, handle_client): every call is executed at most
\* once, and one that returns success was executed and has the handler's result.
AtMostOnce == Abstract!Spec
=============================================================================
