----------------------------- MODULE RpcProofs -----------------------------
(***************************************************************************)
(* Proofs about cmake/rpc_c for any number of clients, calls, requests and *)
(* handlers, any backlog and any failures of the network.                  *)
(*                                                                         *)
(* The invariant says, for every call, where its caller and the server are *)
(* with it, and that the fields in the two streams of its connection are   *)
(* those of its own request and of the answer to it, from the field that   *)
(* the reading end expects next to the one that the writing end wrote last. *)
(***************************************************************************)
EXTENDS Rpc, TLAPS

-----------------------------------------------------------------------------
(***************************************************************************)
(* The state as one call sees it.                                          *)
(***************************************************************************)

\* Where the caller is with call k: it has not begun it, has another one now, or
\* is at a location of rpc_call.
Phase(k) ==
  IF k[2] > callSN[k[1]] THEN "future"
  ELSE IF k[2] < callSN[k[1]] THEN "past" ELSE cpc[k[1]]

\* What the server does with call k, or was doing when it was killed.
Serving(k) == IF k = cur /\ spc \in {"read", "answer", "killed"} THEN spc ELSE "no"

Waiting == ToSet(backlog)

\* The messages of call k, and how many of their fields were read.
RequestMessage(k) == <<"magic", k[2], req[k].fits, req[k]>>
AnswerTo(k) == Answer(req[k], handlers)
AnswerMessage(k) == <<"magic", k[2], IF AnswerTo(k) = Nothing THEN 0 ELSE 1, AnswerTo(k)>>

ReadUp(k) == IF Serving(k) = "read" THEN sstep - 1
             ELSE IF Serving(k) = "answer" THEN 4 ELSE 0
ReadDown(k) == IF Phase(k) = "read" THEN cstep[k[1]] - 1 ELSE 0

\* The stream ch holds fields of message m, those behind the first n.
Part(ch, m, n) ==
  /\ Len(ch) \in 0..(4 - n)
  /\ ch = [i \in 1..Len(ch) |-> m[n + i]]

\* All elements of a sequence are different.
Distinct(q) == \A i, j \in 1..Len(q) : q[i] = q[j] => i = j

\* How many fields of the answer have been written and arrived, or will.
Sent(k) == ReadDown(k) + Len(down[k])

-----------------------------------------------------------------------------
(***************************************************************************)
(* The invariant.                                                          *)
(***************************************************************************)

\* The handler has run for call k, if there is one, and has returned.
Ran(k) ==
  /\ executed[k] = IF req[k].fn \in handlers THEN 1 ELSE 0
  /\ AnswerTo(k) # Crash

\* The caller of call k.
Caller(k) ==
  /\ Phase(k) = "future" => req[k] = None /\ result[k] = None /\ cend[k] = "none"
  /\ Phase(k) # "future" => req[k] \in Request
  /\ Phase(k) \in {"connect", "write", "read"} => result[k] = None
  /\ cend[k] = "open" <=> Phase(k) \in {"write", "read"}
  /\ Phase(k) = "connect" => cend[k] = "none"
  /\ Phase(k) = "read" => buf[k] = "freed"
  /\ cend[k] = "closed" /\ result[k] # None => buf[k] = "freed"
  /\ result[k] # None =>
       \/ result[k].ret = "failed"
       \/ /\ executed[k] = 1 /\ AnswerTo(k).layout = "rsp"
          /\ result[k] = Accept(AnswerTo(k))
  /\ Phase(k) = "read" /\ cstep[k[1]] >= 3 => gotSN[k[1]] = k[2]
  /\ Phase(k) = "read" /\ cstep[k[1]] = 4 => AnswerTo(k) # Nothing
  /\ Phase(k) = "killed" =>
       result[k] = None \/ result[k].ret = "failed" \/ req[k].fn = "login"

\* The connection of call k, and the server's end of it.
Conn(k) ==
  /\ send[k] = "open" <=> Serving(k) \in {"read", "answer"}
  /\ cend[k] = "none" => /\ send[k] = "none" /\ k \notin reset
                         /\ up[k] = <<>>
  /\ k \in Waiting <=> cend[k] # "none" /\ send[k] = "none"
  /\ send[k] = "closed" => up[k] = <<>>
  /\ send[k] # "closed" =>
       /\ Part(up[k], RequestMessage(k), ReadUp(k))
       /\ Phase(k) = "write" => ReadUp(k) + Len(up[k]) = cstep[k[1]] - 1
  /\ cend[k] # "open" => down[k] = <<>>
  /\ cend[k] = "open" =>
       /\ Part(down[k], AnswerMessage(k), ReadDown(k))
       /\ send[k] = "none" \/ Serving(k) = "read" => Sent(k) = 0
       /\ Serving(k) = "answer" => Sent(k) = sstep - 1
  /\ send[k] # "closed" /\ k \in reset => cend[k] = "closed"
  /\ send[k] = "none" \/ Serving(k) = "read" => executed[k] = 0
  /\ Serving(k) = "answer" \/ Sent(k) > 0 => Ran(k)
  /\ Serving(k) = "answer" => /\ out = AnswerTo(k) /\ sSN = k[2]
                              /\ result[k] = None \/ result[k].ret = "failed"
  /\ Serving(k) = "read" /\ sstep >= 3 => sSN = k[2]
  /\ Serving(k) = "killed" =>
       \/ AnswerTo(k) = Crash /\ cend[k] # "none"
       \/ cend[k] = "closed" /\ (result[k] = None \/ result[k].ret = "failed")

CallInv(k) == Caller(k) /\ Conn(k)

\* The domains of the functions TypeOK does not speak of, and the queue of
\* connections.
Shape ==
  /\ result \in [Call -> Result \cup {None}]
  /\ up = [k \in Call |-> up[k]] /\ down = [k \in Call |-> down[k]]
  /\ backlog \in Seq(Call)
  /\ Distinct(backlog)
  /\ \A c \in Client : cpc[c] # "idle" => callSN[c] > 0
  /\ spc \in {"read", "answer", "killed"} => cur \in Call

IndInv == TypeOK /\ Shape /\ \A k \in Call : CallInv(k)

-----------------------------------------------------------------------------
(***************************************************************************)
(* Streams and queues.                                                     *)
(***************************************************************************)

\* The length of a stream, and when it is empty.
LEMMA PartLen ==
  ASSUME NEW ch, NEW m, NEW n \in 0..4, Part(ch, m, n)
  PROVE /\ Len(ch) \in Nat /\ n + Len(ch) <= 4
        /\ ch = <<>> <=> Len(ch) = 0
        /\ ch \in Seq({m[n + i] : i \in 1..Len(ch)})
<1> DEFINE L == Len(ch)
           S == {m[n + i] : i \in 1..L}
<1>1. L \in Nat /\ n + L <= 4
  BY DEF Part
<1>2. ch = [i \in 1..L |-> m[n + i]]
  BY DEF Part
<1>3. ch \in [1..L -> S]
  BY <1>2
<1>4. ch \in Seq(S)
  <2> HIDE DEF S
  <2> QED BY <1>1, <1>3
<1>5. ch = <<>> <=> Len(ch) = 0
  <2> HIDE DEF S
  <2> QED BY <1>4
<1> QED BY <1>1, <1>4, <1>5

\* Nothing is there yet.
LEMMA PartEmpty ==
  ASSUME NEW m, NEW n \in 0..4
  PROVE Part(<<>>, m, n)
<1>1. Len(<<>>) = 0
  OBVIOUS
<1>2. [i \in 1..0 |-> m[n + i]] = <<>>
  OBVIOUS
<1> QED BY <1>1, <1>2 DEF Part

\* The next field is written.
LEMMA PartAppend ==
  ASSUME NEW ch, NEW m, NEW n \in 0..4, Part(ch, m, n), n + Len(ch) < 4
  PROVE /\ Part(Append(ch, m[n + Len(ch) + 1]), m, n)
        /\ Len(Append(ch, m[n + Len(ch) + 1])) = Len(ch) + 1
<1> DEFINE L == Len(ch)
           S == {m[n + i] : i \in 1..(L + 1)}
           b == Append(ch, m[n + L + 1])
<1>1. L \in Nat /\ ch = [i \in 1..L |-> m[n + i]]
  BY DEF Part
<1>2. ch \in [1..L -> S] /\ m[n + L + 1] \in S
  BY <1>1
<1>3. ch \in Seq(S)
  <2> HIDE DEF S
  <2> QED BY <1>1, <1>2
<1>4. Len(b) = L + 1 /\ b \in Seq(S) /\ b[L + 1] = m[n + L + 1]
      /\ \A i \in 1..L : b[i] = ch[i]
  <2> HIDE DEF S
  <2> QED BY <1>2, <1>3
<1>5. \A i \in 1..(L + 1) : b[i] = m[n + i]
  <2> TAKE i \in 1..(L + 1)
  <2>1. CASE i = L + 1
    <3>1. n + i = n + L + 1
      BY <2>1, <1>1
    <3> QED BY <2>1, <3>1, <1>4
  <2>2. CASE i # L + 1
    <3>1. i \in 1..L
      BY <2>2, <1>1
    <3>2. b[i] = ch[i]
      BY <3>1, <1>4
    <3> QED BY <3>1, <3>2, <1>1
  <2> QED BY <2>1, <2>2
<1>6. b = [i \in 1..(L + 1) |-> m[n + i]]
  <2>1. b = [i \in 1..Len(b) |-> b[i]]
    <3> HIDE DEF S, b
    <3> QED BY <1>4
  <2> QED BY <2>1, <1>4, <1>5
<1>7. Len(b) \in 0..(4 - n)
  BY <1>1, <1>4
<1> HIDE DEF b
<1> QED BY <1>4, <1>6, <1>7 DEF Part, b

\* The next field is read.
LEMMA PartTail ==
  ASSUME NEW ch, NEW m, NEW n \in 0..4, Part(ch, m, n), ch # <<>>
  PROVE /\ Head(ch) = m[n + 1] /\ n < 4
        /\ Part(Tail(ch), m, n + 1)
        /\ Len(ch) > 0 /\ Len(Tail(ch)) = Len(ch) - 1
<1> DEFINE L == Len(ch)
           S == {m[n + i] : i \in 1..L}
           t == Tail(ch)
<1>1. L \in Nat /\ n + L <= 4 /\ L > 0 /\ ch \in Seq(S)
  <2>1. L \in Nat /\ n + L <= 4 /\ (ch = <<>> <=> L = 0)
    BY PartLen
  <2>2. ch \in Seq(S)
    BY PartLen
  <2> HIDE DEF S
  <2> QED BY <2>1, <2>2
<1>2. ch = [i \in 1..L |-> m[n + i]]
  BY DEF Part
<1>3. Head(ch) = ch[1] /\ Len(t) = L - 1 /\ t \in Seq(S)
      /\ \A i \in 1..(L - 1) : t[i] = ch[i + 1]
  <2> HIDE DEF S
  <2> QED BY <1>1
<1>4. ch[1] = m[n + 1]
  BY <1>1, <1>2
<1>5. \A i \in 1..(L - 1) : t[i] = m[n + 1 + i]
  <2> TAKE i \in 1..(L - 1)
  <2>1. i + 1 \in 1..L /\ n + (i + 1) = n + 1 + i
    BY <1>1
  <2>2. ch[i + 1] = m[n + (i + 1)]
    BY <1>2, <2>1
  <2> QED BY <1>3, <2>1, <2>2
<1>6. t = [i \in 1..(L - 1) |-> m[n + 1 + i]]
  <2>1. t = [i \in 1..Len(t) |-> t[i]]
    <3> HIDE DEF S, t
    <3> QED BY <1>3
  <2> QED BY <2>1, <1>3, <1>5
<1>7. Len(t) \in 0..(4 - (n + 1)) /\ n < 4
  BY <1>1, <1>3
<1> HIDE DEF t
<1>8. Part(t, m, n + 1)
  BY <1>3, <1>6, <1>7 DEF Part
<1> QED BY <1>1, <1>3, <1>4, <1>7, <1>8 DEF t

\* The first connection leaves the queue.
LEMMA QueueTail ==
  ASSUME NEW S, NEW q \in Seq(S), Distinct(q), q # <<>>
  PROVE /\ Head(q) \in S /\ Head(q) \in ToSet(q)
        /\ Tail(q) \in Seq(S) /\ Distinct(Tail(q)) /\ Len(Tail(q)) = Len(q) - 1
        /\ ToSet(Tail(q)) = ToSet(q) \ {Head(q)}
<1>1. /\ Len(q) \in Nat \ {0} /\ Head(q) = q[1] /\ Head(q) \in S
      /\ Tail(q) \in Seq(S) /\ Len(Tail(q)) = Len(q) - 1
      /\ DOMAIN q = 1..Len(q) /\ DOMAIN Tail(q) = 1..(Len(q) - 1)
      /\ \A i \in 1..(Len(q) - 1) : Tail(q)[i] = q[i + 1]
  OBVIOUS
<1>2. \A i \in 1..(Len(q) - 1) : i + 1 \in 1..Len(q)
  BY <1>1
<1>3. Distinct(Tail(q))
  <2> SUFFICES ASSUME NEW i \in 1..(Len(q) - 1), NEW j \in 1..(Len(q) - 1),
                      q[i + 1] = q[j + 1]
               PROVE i = j
    BY <1>1 DEF Distinct
  <2>1. i + 1 = j + 1
    BY <1>2 DEF Distinct
  <2> QED BY <2>1
<1>4. \A x : x \in ToSet(Tail(q)) <=> x \in ToSet(q) \ {Head(q)}
  <2> TAKE x
  <2>1. ASSUME x \in ToSet(Tail(q)) PROVE x \in ToSet(q) \ {Head(q)}
    <3>1. PICK i \in 1..(Len(q) - 1) : x = q[i + 1]
      BY <2>1, <1>1 DEF ToSet
    <3>2. i + 1 \in 1..Len(q) /\ i + 1 # 1 /\ 1 \in 1..Len(q)
      BY <1>1
    <3>3. q[i + 1] # q[1]
      BY <3>2 DEF Distinct
    <3> QED BY <3>1, <3>2, <3>3, <1>1 DEF ToSet
  <2>2. ASSUME x \in ToSet(q) \ {Head(q)} PROVE x \in ToSet(Tail(q))
    <3>1. PICK i \in 1..Len(q) : x = q[i]
      BY <2>2, <1>1 DEF ToSet
    <3>2. i - 1 \in 1..(Len(q) - 1) /\ (i - 1) + 1 = i
      BY <3>1, <2>2, <1>1
    <3>3. Tail(q)[i - 1] = x
      BY <3>1, <3>2, <1>1
    <3> QED BY <3>2, <3>3, <1>1 DEF ToSet
  <2> QED BY <2>1, <2>2
<1>5. Head(q) \in ToSet(q)
  BY <1>1 DEF ToSet
<1> QED BY <1>1, <1>3, <1>4, <1>5

\* A connection joins the queue.
LEMMA QueueAppend ==
  ASSUME NEW S, NEW q \in Seq(S), Distinct(q), NEW k \in S, k \notin ToSet(q)
  PROVE /\ Append(q, k) \in Seq(S) /\ Distinct(Append(q, k))
        /\ Len(Append(q, k)) = Len(q) + 1
        /\ ToSet(Append(q, k)) = ToSet(q) \cup {k}
<1> DEFINE b == Append(q, k)
<1>1. /\ Len(q) \in Nat /\ DOMAIN q = 1..Len(q) /\ DOMAIN b = 1..(Len(q) + 1)
      /\ b \in Seq(S) /\ Len(b) = Len(q) + 1 /\ b[Len(q) + 1] = k
      /\ \A i \in 1..Len(q) : b[i] = q[i]
  OBVIOUS
<1>2. \A i \in 1..Len(q) : q[i] # k
  BY <1>1 DEF ToSet
<1> HIDE DEF b
<1>3. Distinct(b)
  <2> SUFFICES ASSUME NEW i \in 1..(Len(q) + 1), NEW j \in 1..(Len(q) + 1), b[i] = b[j]
               PROVE i = j
    BY <1>1 DEF Distinct
  <2>1. \A h \in 1..(Len(q) + 1) : h = Len(q) + 1 \/ h \in 1..Len(q)
    BY <1>1
  <2>2. CASE i \in 1..Len(q) /\ j \in 1..Len(q)
    BY <2>2, <1>1 DEF Distinct
  <2>3. CASE i = Len(q) + 1 \/ j = Len(q) + 1
    BY <2>1, <2>3, <1>1, <1>2
  <2> QED BY <2>1, <2>2, <2>3
<1>4. \A x : x \in ToSet(b) <=> x \in ToSet(q) \cup {k}
  <2>1. \A h \in 1..(Len(q) + 1) : h = Len(q) + 1 \/ h \in 1..Len(q)
    BY <1>1
  <2>2. 1..Len(q) \subseteq 1..(Len(q) + 1) /\ Len(q) + 1 \in 1..(Len(q) + 1)
    BY <1>1
  <2> QED BY <2>1, <2>2, <1>1 DEF ToSet
<1> QED BY <1>1, <1>3, <1>4 DEF b

-----------------------------------------------------------------------------
(***************************************************************************)
(* Requests and answers.                                                   *)
(***************************************************************************)

\* The table holds no function but those of main.c.
LEMMA HandlersKnown == handlers \subseteq {"sum", "concat", "login"}
<1> DEFINE n == Len(ServerFns)
           F == {"sum", "concat", "login"}
<1>1. n \in Nat /\ MaxHandlers \in Nat /\ ServerFns \in [1..n -> F]
  BY RpcAssumption
<1> HIDE DEF F
<1>2. Min({n, MaxHandlers}) \in {n, MaxHandlers} /\ Min({n, MaxHandlers}) <= n
  <2> DEFINE x == IF n <= MaxHandlers THEN n ELSE MaxHandlers
  <2>1. x \in {n, MaxHandlers} /\ \A y \in {n, MaxHandlers} : x <= y
    BY <1>1
  <2> HIDE DEF x
  <2>2. \E z \in {n, MaxHandlers} : \A y \in {n, MaxHandlers} : z <= y
    BY <2>1
  <2> QED BY <2>2 DEF Min
<1>3. \A i \in 1..Min({n, MaxHandlers}) : i \in 1..n
  BY <1>1, <1>2
<1> QED BY <1>1, <1>3 DEF handlers, F

\* Requests are not None, nor is what a call returns.
LEMMA NotNone ==
  /\ \A r \in Request : r # None
  /\ \A x \in Result : x # None
BY RpcAssumption

\* What the server may answer, and when.
LEMMA AnswerCases ==
  ASSUME NEW r
  PROVE /\ r.fn \notin handlers => Answer(r, handlers) = NotFound
        /\ r.fn \in handlers =>
             \/ Answer(r, handlers) \in {Crash, Nothing}
             \/ /\ Answer(r, handlers).layout = "rsp"
                /\ Answer(r, handlers).res \in {"ok", "err"}
                /\ Answer(r, handlers).data \in {"str", "unset"}
                /\ Answer(r, handlers).data = "unset" => r.fn = "login"
<1>1. CASE r.fn \notin handlers
  BY <1>1 DEF Answer
<1>2. CASE r.fn \in handlers
  <2>1. r.fn \in {"sum", "concat", "login"}
    BY <1>2, HandlersKnown
  <2>2. CASE r.fn = "sum"
    BY <1>2, <2>2 DEF Answer, sum_handler, Rsp
  <2>3. CASE r.fn = "concat"
    BY <1>2, <2>3 DEF Answer, concat_handler, Rsp
  <2>4. CASE r.fn = "login"
    <3>1. Answer(r, handlers) = login_handler(r.args)
      BY <1>2, <2>4 DEF Answer
    <3>2. login_handler(r.args) \in {Nothing, Rsp("ok", "unset"), Rsp("err", "str")}
      BY DEF login_handler
    <3> QED BY <1>2, <2>4, <3>1, <3>2 DEF Rsp
  <2> QED BY <2>1, <2>2, <2>3, <2>4
<1> QED BY <1>1, <1>2

\* What the client makes of an answer that has a body.
LEMMA AcceptCases ==
  ASSUME NEW r, Answer(r, handlers) \notin {Crash, Nothing}
  PROVE LET a == Answer(r, handlers) IN
        /\ Accept(a) \in Result
        /\ \/ Accept(a).ret = "failed"
           \/ /\ a.layout = "rsp" /\ r.fn \in handlers
              /\ Accept(a).data = "unset" => r.fn = "login"
<1> DEFINE a == Answer(r, handlers)
<1>1. CASE r.fn \notin handlers
  <2>1. a = NotFound
    BY <1>1, AnswerCases
  <2>2. Accept(NotFound) = [ret |-> "failed", res |-> "err", data |-> "unset"]
    BY DEF Accept, NotFound
  <2> QED BY <2>1, <2>2 DEF Result
<1>2. CASE r.fn \in handlers
  <2>1. /\ a.layout = "rsp" /\ a.res \in {"ok", "err"} /\ a.data \in {"str", "unset"}
        /\ a.data = "unset" => r.fn = "login"
    BY <1>2, AnswerCases
  <2> HIDE DEF a
  <2>2. Accept(a) = [ret |-> "ok", res |-> a.res, data |-> a.data]
    BY <2>1 DEF Accept
  <2>3. Accept(a) \in Result /\ (Accept(a).data = "unset" => r.fn = "login")
    BY <2>1, <2>2 DEF Result
  <2> QED BY <1>2, <2>1, <2>3 DEF a
<1> QED BY <1>1, <1>2

\* The result of a call that failed.
LEMMA FailedResult == Failed \in Result /\ Failed.ret = "failed"
BY DEF Failed, Result

-----------------------------------------------------------------------------
(***************************************************************************)
(* What a step does not touch.                                             *)
(***************************************************************************)

\* The variables of call j have not changed.
Kept(j) ==
  /\ req'[j] = req[j] /\ result'[j] = result[j] /\ buf'[j] = buf[j]
  /\ executed'[j] = executed[j] /\ cend'[j] = cend[j] /\ send'[j] = send[j]
  /\ up'[j] = up[j] /\ down'[j] = down[j]
  /\ j \in reset' <=> j \in reset
  /\ j \in Waiting' <=> j \in Waiting

\* Nor has anything that matters to call j in the processes.
Same(j) ==
  /\ Kept(j)
  /\ Phase(j)' = Phase(j) \/ {Phase(j), Phase(j)'} \subseteq {"idle", "past"}
  /\ Phase(j) \in {"write", "read"} =>
       cstep'[j[1]] = cstep[j[1]] /\ gotSN'[j[1]] = gotSN[j[1]]
  /\ Serving(j)' = Serving(j)
  /\ Serving(j) # "no" => sstep' = sstep /\ sSN' = sSN /\ out' = out

\* Then what the invariant says of call j is still true.
LEMMA Frame ==
  ASSUME NEW j \in Call, CallInv(j), Same(j)
  PROVE CallInv(j)'
<1>1. /\ AnswerTo(j)' = AnswerTo(j) /\ AnswerMessage(j)' = AnswerMessage(j)
      /\ RequestMessage(j)' = RequestMessage(j)
  BY DEF Same, Kept, AnswerTo, AnswerMessage, RequestMessage
<1>2. ReadUp(j)' = ReadUp(j) /\ ReadDown(j)' = ReadDown(j)
  BY DEF Same, ReadUp, ReadDown
<1>3. Sent(j)' = Sent(j)
  BY <1>2 DEF Same, Kept, Sent
<1>4. Ran(j)' <=> Ran(j)
  BY <1>1 DEF Same, Kept, Ran
<1>5. Caller(j)'
  BY <1>1 DEF CallInv, Caller, Same, Kept
<1>6. Conn(j)'
  <2>1. (send[j] # "closed" =>
          /\ Part(up[j], RequestMessage(j), ReadUp(j))
          /\ Phase(j) = "write" => ReadUp(j) + Len(up[j]) = cstep[j[1]] - 1)'
    BY <1>1, <1>2 DEF CallInv, Conn, Same, Kept
  <2>2. (cend[j] = "open" =>
          /\ Part(down[j], AnswerMessage(j), ReadDown(j))
          /\ send[j] = "none" \/ Serving(j) = "read" => Sent(j) = 0
          /\ Serving(j) = "answer" => Sent(j) = sstep - 1)'
    BY <1>1, <1>2, <1>3 DEF CallInv, Conn, Same, Kept
  <2> QED BY <2>1, <2>2, <1>1, <1>3, <1>4 DEF CallInv, Conn, Same, Kept
<1> QED BY <1>5, <1>6 DEF CallInv

\* The call of a client that is not idle.
LEMMA Current ==
  ASSUME TypeOK, Shape, NEW c \in Client, cpc[c] # "idle"
  PROVE /\ \E k \in Call : k = Of(c)
        /\ callSN[c] \in 1..MaxCalls
<1>1. callSN[c] \in 1..MaxCalls
  BY RpcAssumption DEF TypeOK, Shape
<1> QED BY <1>1 DEF Of, Call

\* Where the client is with its call, before and after a step of rpc_call.
LEMMA AtCall ==
  ASSUME TypeOK, NEW c \in Client, NEW k \in Call, k = Of(c), callSN' = callSN
  PROVE /\ k[1] = c /\ k[2] = callSN[c] /\ k[2] \in 1..MaxCalls
        /\ Phase(k) = cpc[c] /\ Phase(k)' = cpc'[c]
<1>1. k[1] = c /\ k[2] = callSN[c] /\ k[2] \in 1..MaxCalls
  BY DEF Of, Call
<1> QED BY <1>1 DEF Phase

\* A step of client c touches only its own call.
LEMMA ClientFrame ==
  ASSUME IndInv, NEW c \in Client, NEW k \in Call, k = Of(c),
         callSN' = callSN, UNCHANGED serverVars,
         \A d \in Client \ {c} : cpc'[d] = cpc[d] /\ cstep'[d] = cstep[d] /\ gotSN'[d] = gotSN[d],
         \A j \in Call \ {k} : Kept(j)
  PROVE \A j \in Call \ {k} : CallInv(j)'
<1> TAKE j \in Call \ {k}
<1>1. /\ j[1] \in Client /\ j[2] \in 1..MaxCalls /\ j = <<j[1], j[2]>>
      /\ callSN[j[1]] \in 0..MaxCalls
  BY DEF Call, IndInv, TypeOK
<1>2. Serving(j)' = Serving(j)
  BY DEF Serving, serverVars
<1>3. CASE j[1] # c
  <2>1. /\ cpc'[j[1]] = cpc[j[1]] /\ cstep'[j[1]] = cstep[j[1]]
        /\ gotSN'[j[1]] = gotSN[j[1]]
    BY <1>1, <1>3
  <2>2. Phase(j)' = Phase(j)
    BY <2>1 DEF Phase
  <2>3. Same(j)
    BY <2>1, <2>2, <1>2 DEF Same, serverVars
  <2> QED BY <2>3, Frame DEF IndInv
<1>4. CASE j[1] = c
  <2>1. j[2] # callSN[c]
    BY <1>1, <1>4 DEF Of
  <2>2. Phase(j)' = Phase(j) /\ Phase(j) \in {"past", "future"}
    BY <2>1, <1>1, <1>4 DEF Phase
  <2>3. Same(j)
    BY <2>2, <1>2 DEF Same, serverVars
  <2> QED BY <2>3, Frame DEF IndInv
<1> QED BY <1>3, <1>4

\* A step of the server touches only the calls it begins or ends to serve.
LEMMA ServerFrame ==
  ASSUME IndInv, UNCHANGED clientVars, NEW j \in Call, Kept(j),
         Serving(j) = "no", Serving(j)' = "no"
  PROVE CallInv(j)'
<1>1. Phase(j)' = Phase(j)
  BY DEF Phase, clientVars
<1>2. Same(j)
  BY <1>1 DEF Same, clientVars
<1> QED BY <1>2, Frame DEF IndInv

-----------------------------------------------------------------------------
(***************************************************************************)
(* rpc_call.                                                               *)
(***************************************************************************)

\* The numbers of fields are numbers.
LEMMA Numbers ==
  ASSUME TypeOK, NEW k \in Call, CallInv(k)
  PROVE /\ ReadUp(k) \in 0..4 /\ ReadDown(k) \in 0..3
        /\ Len(up[k]) \in Nat /\ Len(down[k]) \in Nat
<1>1. ReadUp(k) \in 0..4
  BY DEF ReadUp, TypeOK
<1>2. ReadDown(k) \in 0..3
  <2>1. cstep[k[1]] \in 1..4
    BY DEF TypeOK, Call
  <2> QED BY <2>1 DEF ReadDown
<1>3. Len(up[k]) \in Nat
  <2>1. CASE send[k] = "closed"
    BY <2>1 DEF CallInv, Conn
  <2>2. CASE send[k] # "closed"
    BY <2>2, <1>1, PartLen DEF CallInv, Conn
  <2> QED BY <2>1, <2>2
<1>4. Len(down[k]) \in Nat
  <2>1. CASE cend[k] # "open"
    BY <2>1 DEF CallInv, Conn
  <2>2. CASE cend[k] = "open"
    BY <2>2, <1>2, PartLen DEF CallInv, Conn
  <2> QED BY <2>1, <2>2
<1> QED BY <1>1, <1>2, <1>3, <1>4

\* What a step of rpc_call leaves alone about its own call.
LEMMA ClientView ==
  ASSUME NEW k \in Call, UNCHANGED serverVars, req'[k] = req[k]
  PROVE /\ Serving(k)' = Serving(k) /\ ReadUp(k)' = ReadUp(k)
        /\ AnswerTo(k)' = AnswerTo(k) /\ AnswerMessage(k)' = AnswerMessage(k)
        /\ RequestMessage(k)' = RequestMessage(k)
        /\ executed'[k] = executed[k]
<1>1. Serving(k)' = Serving(k)
  BY DEF Serving, serverVars
<1>2. AnswerTo(k)' = AnswerTo(k)
  BY DEF AnswerTo
<1> QED BY <1>1, <1>2 DEF ReadUp, AnswerMessage, RequestMessage, serverVars

\* What rpc_call may return for call k.
Returnable(k, r) ==
  \/ r.ret = "failed"
  \/ /\ executed[k] = 1 /\ AnswerTo(k).layout = "rsp" /\ r = Accept(AnswerTo(k))
     /\ Serving(k) # "answer"

\* The buffer of call k is freed now, or was before.
BufferFreed(k) ==
  buf'[k] = "freed" /\ (buf' = buf \/ buf' = [buf EXCEPT ![k] = "freed"])

\* rpc_call closes its socket and returns.
LEMMA ReturnKeeps ==
  ASSUME IndInv, NEW c \in Client, NEW k \in Call, k = Of(c), NEW r \in Result, NEW left,
         cpc[c] \in {"write", "read"}, Returnable(k, r), Return(c, r, left),
         BufferFreed(k),
         UNCHANGED <<callSN, req, serverVars, send, up, backlog, cut>>
  PROVE IndInv'
<1>1. /\ k[1] = c /\ k[2] = callSN[c] /\ k[2] \in 1..MaxCalls
      /\ Phase(k) = cpc[c] /\ Phase(k)' = cpc'[c]
  BY AtCall DEF IndInv
<1>2. /\ cpc' = [cpc EXCEPT ![c] = "release"] /\ cstep' = [cstep EXCEPT ![c] = 1]
      /\ gotSN' = [gotSN EXCEPT ![c] = 0] /\ result' = [result EXCEPT ![k] = r]
      /\ cend' = [cend EXCEPT ![k] = "closed"] /\ down' = [down EXCEPT ![k] = <<>>]
      /\ reset' = reset \cup Unread(k, left) /\ UNCHANGED serverVars
  BY DEF Return, CloseClientEnd
<1>3. Unread(k, left) \subseteq {k}
  BY DEF Unread
<1>4. TypeOK'
  <2>1. 0 \in 0..MaxCalls
    BY RpcAssumption
  <2> QED BY <1>1, <1>2, <1>3, <2>1 DEF IndInv, TypeOK, BufferFreed, serverVars
<1>5. Shape'
  BY <1>1, <1>2, <1>3 DEF IndInv, Shape, TypeOK, serverVars
<1>6. \A j \in Call \ {k} : CallInv(j)'
  <2>1. \A j \in Call \ {k} : Kept(j)
    BY <1>2, <1>3 DEF Kept, Waiting, BufferFreed, IndInv, TypeOK, Shape, serverVars
  <2>2. \A d \in Client \ {c} : cpc'[d] = cpc[d] /\ cstep'[d] = cstep[d] /\ gotSN'[d] = gotSN[d]
    BY <1>2 DEF IndInv, TypeOK
  <2> QED BY <2>1, <2>2, <1>2, ClientFrame
<1>7. CallInv(k)'
  <2>1. /\ Phase(k)' = "release" /\ result'[k] = r /\ r # None /\ cend'[k] = "closed"
        /\ down'[k] = <<>> /\ Phase(k) \in {"write", "read"}
    BY <1>1, <1>2, NotNone DEF IndInv, TypeOK, Shape
  <2>2. CallInv(k) /\ cend[k] = "open"
    BY <2>1 DEF IndInv, CallInv, Caller
  <2>3. /\ Serving(k)' = Serving(k) /\ ReadUp(k)' = ReadUp(k)
        /\ AnswerTo(k)' = AnswerTo(k) /\ AnswerMessage(k)' = AnswerMessage(k)
        /\ RequestMessage(k)' = RequestMessage(k)
        /\ executed'[k] = executed[k]
    BY <1>2, ClientView
  <2>4. Sent(k)' = 0
    BY <2>1 DEF Sent, ReadDown
  <2>5. Caller(k)'
    BY <2>1, <2>2, <2>3 DEF CallInv, Caller, Returnable, BufferFreed
  <2>6. Conn(k)'
    <3>1. k \in Waiting' <=> k \in Waiting
      BY DEF Waiting
    <3>2. Ran(k) <=> Ran(k)'
      BY <2>3 DEF Ran
    <3> QED BY <2>1, <2>2, <2>3, <2>4, <3>1, <3>2, <1>2 DEF CallInv, Conn, Returnable, serverVars
  <2> QED BY <2>5, <2>6 DEF CallInv
<1> QED BY <1>4, <1>5, <1>6, <1>7 DEF IndInv

\* RPC_MAKE_REQ and the start of rpc_call.
LEMMA StartCallKeeps ==
  ASSUME IndInv, NEW c \in Client, NEW r \in Requests[c], StartCall(c, r)
  PROVE IndInv'
<1>1. callSN[c] \in 0..MaxCalls /\ callSN[c] < MaxCalls /\ MaxCalls \in Nat /\ r \in Request
  <2>1. r \in Request
    BY DEF Request
  <2>2. MaxCalls \in Nat
    BY RpcAssumption
  <2> QED BY <2>1, <2>2 DEF IndInv, TypeOK, StartCall
<1>2. PICK k \in Call : k = <<c, callSN[c] + 1>>
  <2>1. callSN[c] + 1 \in 1..MaxCalls
    BY <1>1
  <2> QED BY <2>1 DEF Call
<1>3. /\ cpc[c] = "idle" /\ cpc' = [cpc EXCEPT ![c] = "connect"]
      /\ callSN' = [callSN EXCEPT ![c] = callSN[c] + 1]
      /\ req' = [req EXCEPT ![k] = r] /\ buf' = [buf EXCEPT ![k] = "held"]
      /\ UNCHANGED <<cstep, gotSN, result, serverVars, netVars>>
  BY <1>2 DEF StartCall
<1>4. TypeOK'
  BY <1>1, <1>3 DEF IndInv, TypeOK, serverVars, netVars
<1>5. Shape'
  BY <1>1, <1>3 DEF IndInv, Shape, TypeOK, serverVars, netVars
<1>6. ASSUME NEW j \in Call \ {k} PROVE CallInv(j)'
  <2>1. Kept(j)
    BY <1>3 DEF Kept, Waiting, IndInv, TypeOK, serverVars, netVars
  <2>2. Serving(j)' = Serving(j)
    BY <1>3 DEF Serving, serverVars
  <2>3. /\ j[1] \in Client /\ j[2] \in 1..MaxCalls /\ j = <<j[1], j[2]>>
        /\ callSN[j[1]] \in 0..MaxCalls
    BY DEF Call, IndInv, TypeOK
  <2>4. Phase(j)' = Phase(j) \/ {Phase(j), Phase(j)'} \subseteq {"idle", "past"}
    <3>1. CASE j[1] # c
      BY <3>1, <2>3, <1>3 DEF Phase, IndInv, TypeOK
    <3>2. CASE j[1] = c
      <4>1. j[2] # callSN[c] + 1 /\ callSN'[c] = callSN[c] + 1
        BY <3>2, <2>3, <1>2, <1>3 DEF IndInv, TypeOK
      <4>2. j[2] > callSN[c] <=> j[2] > callSN[c] + 1
        BY <4>1, <2>3, <1>1
      <4>3. j[2] <= callSN[c] => j[2] < callSN[c] + 1
        BY <2>3, <1>1
      <4>4. CASE j[2] > callSN[c]
        BY <4>4, <4>1, <4>2, <3>2 DEF Phase
      <4>5. CASE j[2] <= callSN[c]
        <5>1. Phase(j)' = "past"
          BY <4>5, <4>1, <4>2, <4>3, <3>2, <2>3, <1>1 DEF Phase
        <5>2. Phase(j) \in {"idle", "past"}
          BY <4>5, <3>2, <2>3, <1>1, <1>3 DEF Phase
        <5> QED BY <5>1, <5>2
      <4> QED BY <4>4, <4>5, <2>3, <1>1
    <3> QED BY <3>1, <3>2
  <2>5. Same(j)
    BY <2>1, <2>2, <2>4, <1>3 DEF Same, serverVars
  <2> QED BY <2>5, Frame DEF IndInv
<1>7. CallInv(k)'
  <2>1. k[1] = c /\ k[2] = callSN[c] + 1
    BY <1>2
  <2>2. Phase(k) = "future"
    BY <2>1, <1>1 DEF Phase
  <2>3. callSN'[c] = callSN[c] + 1 /\ cpc'[c] = "connect"
    BY <1>3 DEF IndInv, TypeOK
  <2>4. Phase(k)' = "connect"
    BY <2>1, <2>3, <1>1 DEF Phase
  <2>5. CallInv(k)
    BY DEF IndInv
  <2>6. /\ Serving(k) = "no" /\ cend[k] = "none" /\ result[k] = None /\ send[k] = "none"
        /\ up[k] = <<>> /\ down[k] = <<>> /\ k \notin reset /\ executed[k] = 0
        /\ k \notin Waiting
    <3>1. cend[k] = "none" /\ result[k] = None /\ send[k] = "none"
      BY <2>2, <2>5 DEF CallInv, Caller, Conn
    <3>2. Serving(k) = "no"
      BY <3>1, <2>5 DEF CallInv, Conn, Serving
    <3> QED BY <3>1, <3>2, <2>5 DEF CallInv, Conn
  <2>7. /\ Serving(k)' = "no" /\ cend'[k] = "none" /\ result'[k] = None /\ send'[k] = "none"
        /\ up'[k] = <<>> /\ down'[k] = <<>> /\ k \notin reset' /\ executed'[k] = 0
        /\ k \notin Waiting' /\ req'[k] = r
    BY <2>6, <1>3 DEF Serving, Waiting, serverVars, netVars, IndInv, TypeOK
  <2>8. ReadUp(k)' = 0 /\ ReadDown(k)' = 0
    BY <2>4, <2>7 DEF ReadUp, ReadDown
  <2>9. Sent(k)' = 0
    BY <2>7, <2>8 DEF Sent
  <2>10. Part(up[k], RequestMessage(k), ReadUp(k))'
    BY <2>7, <2>8, PartEmpty
  <2>11. Caller(k)'
    BY <2>4, <2>7, <1>1 DEF Caller
  <2>12. Conn(k)'
    BY <2>4, <2>7, <2>9, <2>10 DEF Conn
  <2> QED BY <2>11, <2>12 DEF CallInv
<1> QED BY <1>4, <1>5, <1>6, <1>7 DEF IndInv

\* No socket, no host, or connect fails.
LEMMA ConnectFailsKeeps ==
  ASSUME IndInv, NEW c \in Client, NEW k \in Call, k = Of(c), ConnectFails(c)
  PROVE IndInv'
<1>1. /\ cpc[c] = "connect" /\ cpc' = [cpc EXCEPT ![c] = "release"]
      /\ result' = [result EXCEPT ![k] = Failed]
      /\ UNCHANGED <<cstep, callSN, gotSN, req, buf, serverVars, netVars>>
  BY DEF ConnectFails
<1>2. /\ k[1] = c /\ k[2] = callSN[c] /\ k[2] \in 1..MaxCalls
      /\ Phase(k) = cpc[c] /\ Phase(k)' = cpc'[c]
  BY <1>1, AtCall DEF IndInv
<1>3. TypeOK'
  BY <1>1 DEF IndInv, TypeOK, serverVars, netVars
<1>4. Shape'
  BY <1>1, FailedResult DEF IndInv, Shape, TypeOK, serverVars, netVars
<1>5. \A j \in Call \ {k} : CallInv(j)'
  <2>1. \A j \in Call \ {k} : Kept(j)
    BY <1>1 DEF Kept, Waiting, IndInv, TypeOK, Shape, serverVars, netVars
  <2>2. \A d \in Client \ {c} : cpc'[d] = cpc[d] /\ cstep'[d] = cstep[d] /\ gotSN'[d] = gotSN[d]
    BY <1>1 DEF IndInv, TypeOK
  <2> QED BY <2>1, <2>2, <1>1, ClientFrame
<1>6. CallInv(k)'
  <2>1. /\ Phase(k)' = "release" /\ result'[k] = Failed /\ Phase(k) = "connect"
    BY <1>1, <1>2 DEF IndInv, TypeOK, Shape
  <2>2. CallInv(k) /\ cend[k] = "none"
    BY <2>1 DEF IndInv, CallInv, Caller
  <2>3. /\ Serving(k)' = Serving(k) /\ ReadUp(k)' = ReadUp(k)
        /\ AnswerTo(k)' = AnswerTo(k) /\ AnswerMessage(k)' = AnswerMessage(k)
        /\ RequestMessage(k)' = RequestMessage(k)
        /\ executed'[k] = executed[k]
    BY <1>1, ClientView
  <2>4. ReadDown(k)' = ReadDown(k) /\ Sent(k)' = Sent(k)
    BY <2>1, <1>1 DEF Sent, ReadDown, netVars
  <2>5. Caller(k)'
    BY <2>1, <2>2, <2>3, <1>1, FailedResult DEF CallInv, Caller, netVars
  <2>6. Conn(k)'
    <3>1. k \in Waiting' <=> k \in Waiting
      BY <1>1 DEF Waiting, netVars
    <3>2. Ran(k) <=> Ran(k)'
      BY <2>3, <1>1 DEF Ran
    <3> QED BY <2>1, <2>2, <2>3, <2>4, <3>1, <3>2, <1>1, FailedResult
            DEF CallInv, Conn, netVars, serverVars
  <2> QED BY <2>5, <2>6 DEF CallInv
<1> QED BY <1>3, <1>4, <1>5, <1>6 DEF IndInv

\* connect: the connection waits to be accepted.
LEMMA ConnectKeeps ==
  ASSUME IndInv, NEW c \in Client, NEW k \in Call, k = Of(c), Connect(c)
  PROVE IndInv'
<1>1. /\ cpc[c] = "connect" /\ cpc' = [cpc EXCEPT ![c] = "write"]
      /\ cstep' = [cstep EXCEPT ![c] = 1] /\ cend' = [cend EXCEPT ![k] = "open"]
      /\ backlog' = Append(backlog, k) /\ Len(backlog) < Backlog /\ Listening
      /\ UNCHANGED <<callSN, gotSN, req, result, buf, serverVars, send, up, down, reset, cut>>
  BY DEF Connect
<1>2. /\ k[1] = c /\ k[2] = callSN[c] /\ k[2] \in 1..MaxCalls
      /\ Phase(k) = cpc[c] /\ Phase(k)' = cpc'[c]
  BY <1>1, AtCall DEF IndInv
<1>3. /\ CallInv(k) /\ cend[k] = "none" /\ result[k] = None /\ send[k] = "none"
      /\ k \notin Waiting /\ k \notin reset /\ up[k] = <<>> /\ down[k] = <<>>
      /\ executed[k] = 0 /\ req[k] \in Request
  BY <1>1, <1>2 DEF IndInv, CallInv, Caller, Conn
<1>4. /\ backlog' \in Seq(Call) /\ Distinct(backlog') /\ Len(backlog') = Len(backlog) + 1
      /\ ToSet(backlog') = ToSet(backlog) \cup {k}
  BY <1>1, <1>3, QueueAppend DEF IndInv, Shape, Waiting
<1>5. TypeOK'
  <2>1. Len(backlog') <= Backlog /\ ToSet(backlog') \subseteq Call
    BY <1>1, <1>4, RpcAssumption DEF IndInv, TypeOK, Shape
  <2> QED BY <1>1, <2>1 DEF IndInv, TypeOK, serverVars
<1>6. Shape'
  BY <1>1, <1>2, <1>4 DEF IndInv, Shape, TypeOK, serverVars
<1>7. \A j \in Call \ {k} : CallInv(j)'
  <2>1. \A j \in Call \ {k} : Kept(j)
    BY <1>1, <1>4 DEF Kept, Waiting, IndInv, TypeOK, serverVars
  <2>2. \A d \in Client \ {c} : cpc'[d] = cpc[d] /\ cstep'[d] = cstep[d] /\ gotSN'[d] = gotSN[d]
    BY <1>1 DEF IndInv, TypeOK
  <2> QED BY <2>1, <2>2, <1>1, ClientFrame
<1>8. CallInv(k)'
  <2>1. /\ Phase(k)' = "write" /\ cstep'[k[1]] = 1 /\ cend'[k] = "open"
        /\ k \in Waiting' /\ Serving(k) = "no"
    BY <1>1, <1>2, <1>3, <1>4
       DEF IndInv, TypeOK, Waiting, CallInv, Conn, Serving, Listening
  <2>2. /\ Serving(k)' = "no" /\ ReadUp(k)' = 0 /\ ReadDown(k)' = 0
    BY <2>1, <1>1, ClientView DEF ReadUp, ReadDown
  <2>3. Sent(k)' = 0
    BY <2>2, <1>1, <1>3 DEF Sent
  <2>4. Part(up[k], RequestMessage(k), ReadUp(k))' /\ Part(down[k], AnswerMessage(k), ReadDown(k))'
    BY <2>2, <1>1, <1>3, PartEmpty
  <2>5. Caller(k)'
    BY <2>1, <1>1, <1>3 DEF Caller
  <2>6. Conn(k)'
    BY <2>1, <2>2, <2>3, <2>4, <1>1, <1>3 DEF Conn, serverVars
  <2> QED BY <2>5, <2>6 DEF CallInv
<1> QED BY <1>5, <1>6, <1>7, <1>8 DEF IndInv

\* A field of the request is written; after the body the buffer is freed.
LEMMA WriteKeeps ==
  ASSUME IndInv, NEW c \in Client, NEW k \in Call, k = Of(c), Write(c)
  PROVE IndInv'
<1> DEFINE f == RequestField(c, cstep[c])
<1>1. /\ cpc[c] = "write" /\ up' = [up EXCEPT ![k] = Put(up[k], f, send[k])]
      /\ reset' = reset \cup Lost(k, send[k])
      /\ UNCHANGED <<callSN, gotSN, req, result, serverVars, cend, send, down, backlog, cut>>
  BY DEF Write
<1>2. \/ /\ cstep[c] < 4 /\ cstep' = [cstep EXCEPT ![c] = cstep[c] + 1] /\ UNCHANGED <<cpc, buf>>
      \/ /\ ~(cstep[c] < 4) /\ cstep' = [cstep EXCEPT ![c] = 1]
         /\ cpc' = [cpc EXCEPT ![c] = "read"] /\ buf' = [buf EXCEPT ![k] = "freed"]
  BY DEF Write
<1>3. /\ k[1] = c /\ k[2] = callSN[c] /\ k[2] \in 1..MaxCalls
      /\ Phase(k) = cpc[c] /\ Phase(k)' = cpc'[c]
  BY <1>1, AtCall DEF IndInv
<1>4. cstep[c] \in 1..4 /\ f = RequestMessage(k)[cstep[c]]
  <2>1. <<"magic", callSN[c], req[Of(c)].fits, req[Of(c)]>> = RequestMessage(k)
    BY <1>3 DEF RequestMessage
  <2> QED BY <2>1 DEF IndInv, TypeOK, RequestField
<1> HIDE DEF f
<1>5. Lost(k, send[k]) \subseteq {k} /\ (k \in Lost(k, send[k]) <=> send[k] = "closed")
  BY DEF Lost
<1>6. TypeOK'
  <2>1. CASE cstep[c] < 4
    <3>1. cstep[c] + 1 \in 1..4
      BY <2>1, <1>4
    <3>2. cstep' \in [Client -> 1..4] /\ cpc' = cpc /\ buf' = buf
      BY <3>1, <2>1, <1>2 DEF IndInv, TypeOK
    <3> QED BY <3>2, <1>1, <1>5 DEF IndInv, TypeOK, serverVars
  <2>2. CASE ~(cstep[c] < 4)
    <3>1. cstep' = [cstep EXCEPT ![c] = 1] /\ cpc' = [cpc EXCEPT ![c] = "read"]
          /\ buf' = [buf EXCEPT ![k] = "freed"]
      BY <2>2, <1>2
    <3> QED BY <3>1, <1>1, <1>5 DEF IndInv, TypeOK, serverVars
  <2> QED BY <2>1, <2>2
<1>7. Shape'
  BY <1>1, <1>2, <1>3 DEF IndInv, Shape, TypeOK, serverVars
<1>8. \A j \in Call \ {k} : CallInv(j)'
  <2>1. \A j \in Call \ {k} : Kept(j)
    BY <1>1, <1>2, <1>5 DEF Kept, Waiting, IndInv, TypeOK, Shape, serverVars
  <2>2. \A d \in Client \ {c} : cpc'[d] = cpc[d] /\ cstep'[d] = cstep[d] /\ gotSN'[d] = gotSN[d]
    BY <1>1, <1>2 DEF IndInv, TypeOK
  <2> QED BY <2>1, <2>2, <1>1, ClientFrame
<1>9. CallInv(k)'
  <2>1. /\ Phase(k) = "write" /\ CallInv(k) /\ cend[k] = "open" /\ result[k] = None
        /\ ReadDown(k) = 0 /\ req[k] \in Request
    BY <1>1, <1>3 DEF IndInv, CallInv, Caller, ReadDown
  <2>2. \/ Phase(k)' = "write" /\ cstep'[c] = cstep[c] + 1
        \/ Phase(k)' = "read" /\ cstep'[c] = 1 /\ buf'[k] = "freed" /\ cstep[c] = 4
    BY <1>1, <1>2, <1>3, <1>4 DEF IndInv, TypeOK
  <2>3. /\ Serving(k)' = Serving(k) /\ ReadUp(k)' = ReadUp(k)
        /\ AnswerTo(k)' = AnswerTo(k) /\ AnswerMessage(k)' = AnswerMessage(k)
        /\ RequestMessage(k)' = RequestMessage(k)
        /\ executed'[k] = executed[k]
    BY <1>1, ClientView
  <2>4. ReadDown(k)' = 0
    BY <2>2, <1>3 DEF ReadDown
  <2>5. Sent(k)' = Sent(k)
    BY <2>1, <2>4, <1>1 DEF Sent
  <2>6. /\ send[k] = "closed" => up'[k] = up[k]
        /\ send[k] # "closed" =>
             /\ Part(up'[k], RequestMessage(k), ReadUp(k))
             /\ ReadUp(k) + Len(up'[k]) = cstep[c]
    <3>1. up'[k] = Put(up[k], f, send[k])
      BY <1>1 DEF IndInv, Shape
    <3>2. CASE send[k] = "closed"
      BY <3>1, <3>2 DEF Put
    <3>3. CASE send[k] # "closed"
      <4>1. /\ Part(up[k], RequestMessage(k), ReadUp(k))
            /\ ReadUp(k) + Len(up[k]) = cstep[c] - 1
        BY <3>3, <2>1, <1>3 DEF CallInv, Conn
      <4>2. ReadUp(k) \in 0..4 /\ Len(up[k]) \in Nat
        BY <2>1, Numbers DEF IndInv
      <4>3. ReadUp(k) + Len(up[k]) + 1 = cstep[c] /\ ReadUp(k) + Len(up[k]) < 4
        BY <4>1, <4>2, <1>4
      <4>4. up'[k] = Append(up[k], RequestMessage(k)[ReadUp(k) + Len(up[k]) + 1])
        BY <3>1, <3>3, <4>3, <1>4 DEF Put
      <4>5. /\ Part(up'[k], RequestMessage(k), ReadUp(k))
            /\ Len(up'[k]) = Len(up[k]) + 1
        BY <4>1, <4>2, <4>3, <4>4, PartAppend
      <4>6. ReadUp(k) + Len(up'[k]) = cstep[c]
        BY <4>2, <4>3, <4>5
      <4> QED BY <3>3, <4>5, <4>6
    <3> QED BY <3>2, <3>3
  <2>7. Caller(k)'
    BY <2>1, <2>2, <2>3, <1>1, <1>3 DEF CallInv, Caller
  <2>8. Conn(k)'
    <3>1. (k \in Waiting' <=> k \in Waiting) /\ (Ran(k)' <=> Ran(k))
      BY <1>1, <2>3 DEF Waiting, Ran
    <3>2. (send[k] # "closed" =>
             /\ Part(up[k], RequestMessage(k), ReadUp(k))
             /\ Phase(k) = "write" => ReadUp(k) + Len(up[k]) = cstep[k[1]] - 1)'
      BY <2>2, <2>3, <2>6, <1>1, <1>3, <1>4
    <3>3. (cend[k] = "open" =>
             /\ Part(down[k], AnswerMessage(k), ReadDown(k))
             /\ send[k] = "none" \/ Serving(k) = "read" => Sent(k) = 0
             /\ Serving(k) = "answer" => Sent(k) = sstep - 1)'
      BY <2>1, <2>3, <2>4, <2>5, <1>1 DEF CallInv, Conn, serverVars
    <3>4. k \in reset' <=> k \in reset \/ send[k] = "closed"
      BY <1>1, <1>5
    <3> QED BY <3>1, <3>2, <3>3, <3>4, <2>1, <2>3, <2>5, <2>6, <1>1 DEF CallInv, Conn, serverVars
  <2> QED BY <2>7, <2>8 DEF CallInv
<1> QED BY <1>6, <1>7, <1>8, <1>9 DEF IndInv

\* A write fails: the buffer is freed and the socket closed.
LEMMA WriteFailsKeeps ==
  ASSUME IndInv, NEW c \in Client, NEW k \in Call, k = Of(c), WriteFails(c)
  PROVE IndInv'
<1>1. /\ cpc[c] = "write" /\ buf' = [buf EXCEPT ![k] = "freed"]
      /\ Return(c, Failed, down[Of(c)])
      /\ UNCHANGED <<callSN, req, serverVars, send, up, backlog, cut>>
  BY DEF WriteFails
<1>2. BufferFreed(k)
  BY <1>1 DEF IndInv, TypeOK, BufferFreed
<1>3. Returnable(k, Failed)
  BY FailedResult DEF Returnable
<1> QED BY <1>1, <1>2, <1>3, FailedResult, ReturnKeeps

\* SIGPIPE kills the client.
LEMMA ClientKilledKeeps ==
  ASSUME IndInv, NEW c \in Client, NEW k \in Call, k = Of(c), ClientKilled(c)
  PROVE IndInv'
<1>1. /\ cpc[c] = "write" /\ cpc' = [cpc EXCEPT ![c] = "killed"]
      /\ cend' = [cend EXCEPT ![k] = "closed"] /\ down' = [down EXCEPT ![k] = <<>>]
      /\ reset' = reset \cup Unread(k, down[k])
      /\ UNCHANGED <<cstep, callSN, gotSN, req, result, buf, serverVars, send, up,
                     backlog, cut>>
  BY DEF ClientKilled, CloseClientEnd
<1>2. /\ k[1] = c /\ k[2] = callSN[c] /\ k[2] \in 1..MaxCalls
      /\ Phase(k) = cpc[c] /\ Phase(k)' = cpc'[c]
  BY <1>1, AtCall DEF IndInv
<1>3. Unread(k, down[k]) \subseteq {k}
  BY DEF Unread
<1>4. TypeOK'
  BY <1>1, <1>3 DEF IndInv, TypeOK, serverVars
<1>5. Shape'
  BY <1>1, <1>2, <1>3 DEF IndInv, Shape, TypeOK, serverVars
<1>6. \A j \in Call \ {k} : CallInv(j)'
  <2>1. \A j \in Call \ {k} : Kept(j)
    BY <1>1, <1>3 DEF Kept, Waiting, IndInv, TypeOK, Shape, serverVars
  <2>2. \A d \in Client \ {c} : cpc'[d] = cpc[d] /\ cstep'[d] = cstep[d] /\ gotSN'[d] = gotSN[d]
    BY <1>1 DEF IndInv, TypeOK
  <2> QED BY <2>1, <2>2, <1>1, ClientFrame
<1>7. CallInv(k)'
  <2>1. /\ Phase(k)' = "killed" /\ cend'[k] = "closed" /\ down'[k] = <<>>
        /\ Phase(k) = "write"
    BY <1>1, <1>2 DEF IndInv, TypeOK, Shape
  <2>2. CallInv(k) /\ cend[k] = "open" /\ result[k] = None /\ result'[k] = None
    BY <2>1, <1>1 DEF IndInv, CallInv, Caller
  <2>3. /\ Serving(k)' = Serving(k) /\ ReadUp(k)' = ReadUp(k)
        /\ AnswerTo(k)' = AnswerTo(k) /\ AnswerMessage(k)' = AnswerMessage(k)
        /\ RequestMessage(k)' = RequestMessage(k)
        /\ executed'[k] = executed[k]
    BY <1>1, ClientView
  <2>4. Sent(k)' = 0
    BY <2>1 DEF Sent, ReadDown
  <2>5. Caller(k)'
    BY <2>1, <2>2, <2>3, <1>1 DEF CallInv, Caller
  <2>6. Conn(k)'
    <3>1. k \in Waiting' <=> k \in Waiting
      BY <1>1 DEF Waiting
    <3>2. Ran(k) <=> Ran(k)'
      BY <2>3, <1>1 DEF Ran
    <3> QED BY <2>1, <2>2, <2>3, <2>4, <3>1, <3>2, <1>1 DEF CallInv, Conn, serverVars
  <2> QED BY <2>5, <2>6 DEF CallInv
<1> QED BY <1>4, <1>5, <1>6, <1>7 DEF IndInv

\* What a client that reads finds next.
LEMMA NextAnswerField ==
  ASSUME IndInv, NEW c \in Client, NEW k \in Call, k = Of(c), callSN' = callSN,
         cpc[c] = "read", down[k] # <<>>
  PROVE /\ CallInv(k) /\ cend[k] = "open" /\ result[k] = None /\ buf[k] = "freed"
        /\ cstep[c] \in 1..4 /\ ReadDown(k) = cstep[c] - 1
        /\ Head(down[k]) = AnswerMessage(k)[cstep[c]]
        /\ Part(Tail(down[k]), AnswerMessage(k), cstep[c])
        /\ Len(Tail(down[k])) = Len(down[k]) - 1
        /\ Sent(k) \in Nat /\ Sent(k) >= cstep[c] /\ Ran(k)
<1>1. /\ k[1] = c /\ k[2] = callSN[c] /\ k[2] \in 1..MaxCalls
      /\ Phase(k) = "read"
  BY AtCall DEF IndInv
<1>2. /\ CallInv(k) /\ cend[k] = "open" /\ result[k] = None /\ buf[k] = "freed"
      /\ cstep[c] \in 1..4
  BY <1>1 DEF IndInv, TypeOK, CallInv, Caller
<1>3. ReadDown(k) = cstep[c] - 1 /\ ReadDown(k) \in 0..4
  BY <1>1, <1>2 DEF ReadDown
<1>4. Part(down[k], AnswerMessage(k), ReadDown(k))
  BY <1>2 DEF CallInv, Conn
<1>5. /\ Head(down[k]) = AnswerMessage(k)[ReadDown(k) + 1]
      /\ Part(Tail(down[k]), AnswerMessage(k), ReadDown(k) + 1)
      /\ Len(down[k]) > 0 /\ Len(Tail(down[k])) = Len(down[k]) - 1
  BY <1>3, <1>4, PartTail
<1>6. ReadDown(k) + 1 = cstep[c]
  BY <1>2, <1>3
<1>7. Len(down[k]) \in Nat
  BY <1>2, Numbers DEF IndInv
<1>8. Sent(k) \in Nat /\ Sent(k) >= cstep[c] /\ Sent(k) > 0
  BY <1>2, <1>3, <1>5, <1>7 DEF Sent
<1>9. Ran(k)
  BY <1>2, <1>8 DEF CallInv, Conn
<1> QED BY <1>2, <1>3, <1>5, <1>6, <1>8, <1>9

\* A field of the answer's header is read.
LEMMA ReadHeaderKeeps ==
  ASSUME IndInv, NEW c \in Client, NEW k \in Call, k = Of(c), ReadHeader(c)
  PROVE IndInv'
<1>1. /\ cpc[c] = "read" /\ cstep[c] < 4 /\ down[k] # <<>>
      /\ ~(cstep[c] = 3 /\ Head(down[k]) = 0)
      /\ down' = [down EXCEPT ![k] = Tail(down[k])]
      /\ gotSN' = IF cstep[c] = 2 THEN [gotSN EXCEPT ![c] = Head(down[k])] ELSE gotSN
      /\ cstep' = [cstep EXCEPT ![c] = cstep[c] + 1]
      /\ UNCHANGED <<cpc, callSN, req, result, buf, serverVars, cend, send, up,
                     reset, backlog, cut>>
  BY DEF ReadHeader, Whole, NoBody
<1>2. /\ k[1] = c /\ k[2] = callSN[c] /\ k[2] \in 1..MaxCalls
      /\ Phase(k) = cpc[c] /\ Phase(k)' = cpc'[c]
  BY <1>1, AtCall DEF IndInv
<1>3. /\ CallInv(k) /\ cend[k] = "open" /\ result[k] = None /\ buf[k] = "freed"
      /\ cstep[c] \in 1..4 /\ ReadDown(k) = cstep[c] - 1
      /\ Head(down[k]) = AnswerMessage(k)[cstep[c]]
      /\ Part(Tail(down[k]), AnswerMessage(k), cstep[c])
      /\ Len(Tail(down[k])) = Len(down[k]) - 1
      /\ Sent(k) \in Nat /\ Sent(k) >= cstep[c] /\ Ran(k)
  BY <1>1, NextAnswerField
<1>4. /\ AnswerMessage(k)[2] = k[2]
      /\ AnswerMessage(k)[3] = IF AnswerTo(k) = Nothing THEN 0 ELSE 1
  BY DEF AnswerMessage
<1>5. /\ cstep[c] = 2 => gotSN' = [gotSN EXCEPT ![c] = k[2]]
      /\ cstep[c] # 2 => gotSN' = gotSN
      /\ cstep[c] = 3 => AnswerTo(k) # Nothing
  BY <1>1, <1>3, <1>4
<1>6. cstep[c] + 1 \in 1..4
  BY <1>1, <1>3
<1>7. TypeOK'
  <2>1. gotSN' \in [Client -> 0..MaxCalls]
    BY <1>2, <1>5 DEF IndInv, TypeOK
  <2> QED BY <1>1, <1>6, <2>1 DEF IndInv, TypeOK, serverVars
<1>8. Shape'
  BY <1>1 DEF IndInv, Shape, TypeOK, serverVars
<1>9. \A j \in Call \ {k} : CallInv(j)'
  <2>1. \A j \in Call \ {k} : Kept(j)
    BY <1>1 DEF Kept, Waiting, IndInv, TypeOK, Shape, serverVars
  <2>2. \A d \in Client \ {c} : cpc'[d] = cpc[d] /\ cstep'[d] = cstep[d] /\ gotSN'[d] = gotSN[d]
    BY <1>1, <1>5 DEF IndInv, TypeOK
  <2> QED BY <2>1, <2>2, <1>1, ClientFrame
<1>10. CallInv(k)'
  <2>1. /\ Phase(k) = "read" /\ Phase(k)' = "read" /\ cstep'[c] = cstep[c] + 1
        /\ down'[k] = Tail(down[k])
    BY <1>1, <1>2 DEF IndInv, TypeOK, Shape
  <2>2. /\ Serving(k)' = Serving(k) /\ ReadUp(k)' = ReadUp(k)
        /\ AnswerTo(k)' = AnswerTo(k) /\ AnswerMessage(k)' = AnswerMessage(k)
        /\ RequestMessage(k)' = RequestMessage(k)
        /\ executed'[k] = executed[k]
    BY <1>1, ClientView
  <2>3. ReadDown(k)' = cstep[c]
    BY <2>1, <1>2, <1>3 DEF ReadDown
  <2>4. Sent(k)' = Sent(k)
    <3>1. Len(down[k]) \in Nat
      BY <1>3, Numbers DEF IndInv
    <3> QED BY <2>1, <2>3, <1>3, <3>1 DEF Sent
  <2>5. (cstep'[c] >= 3 => gotSN'[c] = k[2]) /\ (cstep'[c] = 4 => AnswerTo(k) # Nothing)
    <3>1. cstep[c] >= 3 => gotSN[c] = k[2]
      BY <2>1, <1>2, <1>3 DEF CallInv, Caller
    <3> QED BY <2>1, <1>3, <1>5, <3>1 DEF IndInv, TypeOK
  <2>6. Caller(k)'
    BY <2>1, <2>2, <2>5, <1>1, <1>2, <1>3 DEF CallInv, Caller
  <2>7. Conn(k)'
    <3>1. (k \in Waiting' <=> k \in Waiting) /\ (Ran(k)' <=> Ran(k))
      BY <1>1, <2>2 DEF Waiting, Ran
    <3>2. (send[k] # "closed" =>
             /\ Part(up[k], RequestMessage(k), ReadUp(k))
             /\ Phase(k) = "write" => ReadUp(k) + Len(up[k]) = cstep[k[1]] - 1)'
      BY <2>1, <2>2, <1>1, <1>3 DEF CallInv, Conn
    <3>3. (cend[k] = "open" =>
             /\ Part(down[k], AnswerMessage(k), ReadDown(k))
             /\ send[k] = "none" \/ Serving(k) = "read" => Sent(k) = 0
             /\ Serving(k) = "answer" => Sent(k) = sstep - 1)'
      BY <2>1, <2>2, <2>3, <2>4, <1>1, <1>3 DEF CallInv, Conn, serverVars
    <3> QED BY <3>1, <3>2, <3>3, <2>2, <2>4, <1>1, <1>3 DEF CallInv, Conn, serverVars
  <2> QED BY <2>6, <2>7 DEF CallInv
<1> QED BY <1>7, <1>8, <1>9, <1>10 DEF IndInv

\* While a client reads, its buffer has been freed.
LEMMA FreedWhenReading ==
  ASSUME IndInv, NEW c \in Client, NEW k \in Call, k = Of(c), callSN' = callSN,
         cpc[c] = "read", buf' = buf
  PROVE BufferFreed(k)
<1>1. Phase(k) = "read"
  BY AtCall DEF IndInv
<1> QED BY <1>1 DEF IndInv, CallInv, Caller, BufferFreed

\* An answer without a body.
LEMMA ReadNothingKeeps ==
  ASSUME IndInv, NEW c \in Client, NEW k \in Call, k = Of(c), ReadNothing(c)
  PROVE IndInv'
<1>1. /\ cpc[c] = "read" /\ Return(c, Failed, Tail(down[Of(c)])) /\ buf' = buf
      /\ UNCHANGED <<callSN, req, serverVars, send, up, backlog, cut>>
  BY DEF ReadNothing
<1>2. BufferFreed(k)
  BY <1>1, FreedWhenReading
<1>3. Returnable(k, Failed)
  BY FailedResult DEF Returnable
<1> QED BY <1>1, <1>2, <1>3, FailedResult, ReturnKeeps

\* The answer does not come, or not whole.
LEMMA ReadAnswerFailsKeeps ==
  ASSUME IndInv, NEW c \in Client, NEW k \in Call, k = Of(c), ReadAnswerFails(c)
  PROVE IndInv'
<1>1. /\ cpc[c] = "read" /\ Return(c, Failed, down[Of(c)]) /\ buf' = buf
      /\ UNCHANGED <<callSN, req, serverVars, send, up, backlog, cut>>
  BY DEF ReadAnswerFails
<1>2. BufferFreed(k)
  BY <1>1, FreedWhenReading
<1>3. Returnable(k, Failed)
  BY FailedResult DEF Returnable
<1> QED BY <1>1, <1>2, <1>3, FailedResult, ReturnKeeps

\* The body that a client reads is the answer to its own request, and the serial
\* number is the one it sent.
LEMMA BodyIsAnswer ==
  ASSUME IndInv, NEW c \in Client, NEW k \in Call, k = Of(c), ReadBody(c)
  PROVE /\ Accept(AnswerTo(k)) \in Result /\ Returnable(k, Accept(AnswerTo(k)))
        /\ Return(c, Accept(AnswerTo(k)), Tail(down[Of(c)]))
<1>1. /\ cpc[c] = "read" /\ cstep[c] = 4 /\ down[k] # <<>> /\ callSN' = callSN
      /\ Return(c, IF gotSN[c] = callSN[c] THEN Accept(Head(down[Of(c)]))
                   ELSE [Accept(Head(down[Of(c)])) EXCEPT !.ret = "failed", !.data = "unset"],
                Tail(down[Of(c)]))
  BY DEF ReadBody, Whole
<1>2. /\ k[1] = c /\ k[2] = callSN[c] /\ Phase(k) = "read"
  BY <1>1, AtCall DEF IndInv
<1>3. /\ CallInv(k) /\ cend[k] = "open"
      /\ Head(down[k]) = AnswerMessage(k)[4]
      /\ Sent(k) \in Nat /\ Sent(k) >= 4 /\ Ran(k)
  BY <1>1, NextAnswerField
<1>4. Head(down[Of(c)]) = AnswerTo(k)
  BY <1>3 DEF AnswerMessage
<1>5. gotSN[c] = callSN[c] /\ AnswerTo(k) # Nothing
  BY <1>1, <1>2, <1>3 DEF CallInv, Caller
<1>6. Return(c, Accept(AnswerTo(k)), Tail(down[Of(c)]))
  BY <1>1, <1>4, <1>5
<1>7. AnswerTo(k) \notin {Crash, Nothing} /\ AnswerTo(k) = Answer(req[k], handlers)
  BY <1>3, <1>5 DEF Ran, AnswerTo
<1>8. /\ Accept(AnswerTo(k)) \in Result
      /\ \/ Accept(AnswerTo(k)).ret = "failed"
         \/ AnswerTo(k).layout = "rsp" /\ req[k].fn \in handlers
  BY <1>7, AcceptCases
<1>9. Serving(k) # "answer"
  <2>1. Serving(k) = "answer" => Sent(k) = sstep - 1
    BY <1>3 DEF CallInv, Conn
  <2> QED BY <2>1, <1>3 DEF IndInv, TypeOK
<1>10. Returnable(k, Accept(AnswerTo(k)))
  BY <1>3, <1>8, <1>9 DEF Returnable, Ran
<1> QED BY <1>6, <1>8, <1>10

\* The answer is read.
LEMMA ReadBodyKeeps ==
  ASSUME IndInv, NEW c \in Client, NEW k \in Call, k = Of(c), ReadBody(c)
  PROVE IndInv'
<1>1. /\ cpc[c] = "read" /\ buf' = buf
      /\ UNCHANGED <<callSN, req, serverVars, send, up, backlog, cut>>
  BY DEF ReadBody
<1>2. BufferFreed(k)
  BY <1>1, FreedWhenReading
<1>3. PICK r \in Result : r = Accept(AnswerTo(k))
  BY BodyIsAnswer
<1>4. Returnable(k, r) /\ Return(c, r, Tail(down[Of(c)]))
  BY <1>3, BodyIsAnswer
<1> QED BY <1>1, <1>2, <1>4, ReturnKeeps

\* The result is released.
LEMMA ReleaseKeeps ==
  ASSUME IndInv, NEW c \in Client, NEW k \in Call, k = Of(c), Release(c)
  PROVE IndInv'
<1>1. /\ cpc[c] = "release"
      /\ \/ cpc' = [cpc EXCEPT ![c] = "idle"]
         \/ result[k].data = "unset" /\ cpc' = [cpc EXCEPT ![c] = "killed"]
      /\ UNCHANGED <<cstep, callSN, gotSN, req, result, buf, serverVars, netVars>>
  BY DEF Release
<1>2. /\ k[1] = c /\ k[2] = callSN[c] /\ k[2] \in 1..MaxCalls
      /\ Phase(k) = cpc[c] /\ Phase(k)' = cpc'[c]
  BY <1>1, AtCall DEF IndInv
<1>3. TypeOK'
  BY <1>1 DEF IndInv, TypeOK, serverVars, netVars
<1>4. Shape'
  BY <1>1, <1>2 DEF IndInv, Shape, TypeOK, serverVars, netVars
<1>5. \A j \in Call \ {k} : CallInv(j)'
  <2>1. \A j \in Call \ {k} : Kept(j)
    BY <1>1 DEF Kept, Waiting, serverVars, netVars
  <2>2. \A d \in Client \ {c} : cpc'[d] = cpc[d] /\ cstep'[d] = cstep[d] /\ gotSN'[d] = gotSN[d]
    BY <1>1 DEF IndInv, TypeOK
  <2> QED BY <2>1, <2>2, <1>1, ClientFrame
<1>6. CallInv(k)'
  <2>1. CallInv(k) /\ Phase(k) = "release"
    BY <1>1, <1>2 DEF IndInv
  <2>2. /\ Phase(k)' \in {"idle", "killed"}
        /\ Phase(k)' = "killed" => result[k].data = "unset"
    BY <1>1, <1>2 DEF IndInv, TypeOK
  <2>3. /\ Serving(k)' = Serving(k) /\ ReadUp(k)' = ReadUp(k)
        /\ AnswerTo(k)' = AnswerTo(k) /\ AnswerMessage(k)' = AnswerMessage(k)
        /\ RequestMessage(k)' = RequestMessage(k)
        /\ executed'[k] = executed[k]
    BY <1>1, ClientView
  <2>4. result[k] # None /\ result[k].ret # "failed" /\ result[k].data = "unset" =>
          req[k].fn = "login"
    <3> SUFFICES ASSUME result[k] # None, result[k].ret # "failed", result[k].data = "unset"
                 PROVE req[k].fn = "login"
      OBVIOUS
    <3>1. AnswerTo(k).layout = "rsp" /\ result[k] = Accept(AnswerTo(k))
      BY <2>1 DEF CallInv, Caller
    <3>2. Crash.layout # "rsp" /\ Nothing.layout # "rsp"
      BY DEF Crash, Nothing
    <3>3. Answer(req[k], handlers) \notin {Crash, Nothing}
      BY <3>1, <3>2 DEF AnswerTo
    <3> QED BY <3>1, <3>3, AcceptCases DEF AnswerTo
  <2>5. Caller(k)'
    BY <2>1, <2>2, <2>3, <2>4, <1>1 DEF CallInv, Caller, netVars
  <2>6. Conn(k)'
    <3>1. (k \in Waiting' <=> k \in Waiting) /\ (Ran(k)' <=> Ran(k))
      BY <1>1, <2>3 DEF Waiting, Ran, netVars
    <3>2. ReadDown(k) = 0 /\ ReadDown(k)' = 0 /\ Sent(k)' = Sent(k)
      BY <2>1, <2>2, <1>1 DEF ReadDown, Sent, netVars
    <3>3. cend[k] # "open"
      BY <2>1 DEF CallInv, Caller
    <3> QED BY <2>1, <2>2, <2>3, <3>1, <3>2, <3>3, <1>1 DEF CallInv, Conn, netVars, serverVars
  <2> QED BY <2>5, <2>6 DEF CallInv
<1> QED BY <1>3, <1>4, <1>5, <1>6 DEF IndInv

\* Every step of a client keeps the invariant.
LEMMA ClientStepKeeps ==
  ASSUME IndInv, NEW c \in Client, ClientStep(c)
  PROVE IndInv'
<1>1. cpc[c] # "idle"
  BY DEF ClientStep, Connect, ConnectFails, Write, WriteFails, ClientKilled, ReadHeader,
         ReadNothing, ReadBody, ReadAnswerFails, Release
<1>2. PICK k \in Call : k = Of(c)
  BY <1>1, Current DEF IndInv
<1> QED BY <1>2, ConnectKeeps, ConnectFailsKeeps, WriteKeeps, WriteFailsKeeps,
           ClientKilledKeeps, ReadHeaderKeeps, ReadNothingKeeps, ReadBodyKeeps,
           ReadAnswerFailsKeeps, ReleaseKeeps DEF ClientStep

-----------------------------------------------------------------------------
(***************************************************************************)
(* The server and the network.                                             *)
(***************************************************************************)

\* What a step of the server leaves alone about any call.
LEMMA ServerView ==
  ASSUME NEW k \in Call, UNCHANGED clientVars
  PROVE /\ Phase(k)' = Phase(k) /\ ReadDown(k)' = ReadDown(k)
        /\ AnswerTo(k)' = AnswerTo(k) /\ AnswerMessage(k)' = AnswerMessage(k)
        /\ RequestMessage(k)' = RequestMessage(k)
        /\ req'[k] = req[k] /\ result'[k] = result[k] /\ buf'[k] = buf[k]
        /\ cstep'[k[1]] = cstep[k[1]] /\ gotSN'[k[1]] = gotSN[k[1]]
<1>1. Phase(k)' = Phase(k)
  BY DEF Phase, clientVars
<1>2. AnswerTo(k)' = AnswerTo(k)
  BY DEF AnswerTo, clientVars
<1> QED BY <1>1, <1>2 DEF ReadDown, AnswerMessage, RequestMessage, clientVars

\* Steps between two connections, signals and failures of the network.
LEMMA QuietKeeps ==
  ASSUME IndInv,
         UNCHANGED <<clientVars, sstep, cur, sSN, out, executed, cend, send, up, down,
                     reset, backlog>>,
         \/ spc' = spc
         \/ /\ spc \in {"start", "loop", "select"} /\ spc' \in {"loop", "select", "exited"},
         is_running' \in BOOLEAN, cut' \subseteq Call
  PROVE IndInv'
<1>1. TypeOK'
  BY DEF IndInv, TypeOK, clientVars
<1>2. Shape'
  BY DEF IndInv, Shape, clientVars
<1>3. ASSUME NEW j \in Call PROVE CallInv(j)'
  <2>1. Kept(j)
    BY DEF Kept, Waiting, clientVars
  <2>2. Serving(j)' = Serving(j)
    BY DEF Serving
  <2>3. Same(j)
    BY <2>1, <2>2, ServerView DEF Same
  <2> QED BY <2>3, Frame DEF IndInv
<1> QED BY <1>1, <1>2, <1>3 DEF IndInv

\* accept takes the first connection that waits, or finds it lost.
LEMMA AcceptKeeps ==
  ASSUME IndInv, AcceptConn \/ AcceptFails
  PROVE IndInv'
<1>1. /\ spc = "select" /\ backlog # <<>> /\ backlog' = Tail(backlog)
      /\ UNCHANGED <<clientVars, sSN, out, is_running, executed, cend, down, cut>>
  BY DEF AcceptConn, AcceptFails
<1>2. PICK k \in Call : k = Head(backlog)
  BY <1>1, QueueTail DEF IndInv, Shape
<1>3. /\ k \in ToSet(backlog) /\ backlog' \in Seq(Call) /\ Distinct(backlog')
      /\ Len(backlog') = Len(backlog) - 1 /\ ToSet(backlog') = ToSet(backlog) \ {k}
  BY <1>1, <1>2, QueueTail DEF IndInv, Shape
<1>4. /\ CallInv(k) /\ send[k] = "none" /\ cend[k] # "none"
  BY <1>3 DEF IndInv, CallInv, Conn, Waiting
<1>5. \A j \in Call : Serving(j) = "no"
  BY <1>1 DEF Serving
<1>6. Len(backlog') <= Backlog /\ ToSet(backlog') \subseteq Call
  <2>1. Len(backlog) \in Nat /\ Backlog \in Nat
    BY RpcAssumption DEF IndInv, Shape
  <2> QED BY <2>1, <1>3 DEF IndInv, TypeOK
<1>7. /\ AnswerTo(k)' = AnswerTo(k) /\ AnswerMessage(k)' = AnswerMessage(k)
      /\ RequestMessage(k)' = RequestMessage(k) /\ Phase(k)' = Phase(k)
      /\ ReadDown(k)' = ReadDown(k) /\ Sent(k)' = Sent(k) /\ ReadUp(k) = 0
      /\ (Ran(k)' <=> Ran(k)) /\ k \notin Waiting'
  BY <1>1, <1>3, <1>5, ServerView DEF Sent, Ran, Waiting, ReadUp
<1>8. Caller(k)'
  BY <1>1, <1>4, <1>7, ServerView DEF CallInv, Caller
<1>9. CASE AcceptConn
  <2>1. /\ cur' = k /\ send' = [send EXCEPT ![k] = "open"] /\ spc' = "read" /\ sstep' = 1
        /\ UNCHANGED <<up, reset>>
    BY <1>2, <1>9 DEF AcceptConn
  <2>2. TypeOK'
    BY <1>1, <1>6, <2>1 DEF IndInv, TypeOK, clientVars
  <2>3. Shape'
    BY <1>1, <1>3, <2>1 DEF IndInv, Shape, clientVars
  <2>4. ASSUME NEW j \in Call \ {k} PROVE CallInv(j)'
    <3>1. Kept(j)
      BY <1>1, <1>3, <2>1 DEF Kept, Waiting, clientVars, IndInv, TypeOK
    <3>2. Serving(j)' = "no"
      BY <2>1 DEF Serving
    <3> QED BY <1>1, <1>5, <3>1, <3>2, ServerFrame
  <2>5. Serving(k)' = "read" /\ ReadUp(k)' = 0 /\ send'[k] = "open"
    BY <2>1 DEF Serving, ReadUp, IndInv, TypeOK
  <2>6. Conn(k)'
    BY <1>1, <1>4, <1>5, <1>7, <2>1, <2>5, ServerView DEF CallInv, Conn
  <2> QED BY <1>8, <2>2, <2>3, <2>4, <2>6 DEF IndInv, CallInv
<1>10. CASE AcceptFails
  <2>1. /\ send' = [send EXCEPT ![k] = "closed"] /\ up' = [up EXCEPT ![k] = <<>>]
        /\ reset' = reset \cup {k} /\ spc' = "loop" /\ UNCHANGED <<sstep, cur>>
    BY <1>2, <1>10 DEF AcceptFails
  <2>2. TypeOK'
    BY <1>1, <1>6, <2>1 DEF IndInv, TypeOK, clientVars
  <2>3. Shape'
    BY <1>1, <1>3, <2>1 DEF IndInv, Shape, clientVars
  <2>4. \A j \in Call : Serving(j)' = "no"
    BY <2>1 DEF Serving
  <2>5. ASSUME NEW j \in Call \ {k} PROVE CallInv(j)'
    <3>1. Kept(j)
      BY <1>1, <1>3, <2>1 DEF Kept, Waiting, clientVars, IndInv, TypeOK, Shape
    <3> QED BY <1>1, <1>5, <2>4, <3>1, ServerFrame
  <2>6. send'[k] = "closed" /\ up'[k] = <<>>
    BY <2>1 DEF IndInv, TypeOK, Shape
  <2>7. Conn(k)'
    BY <1>1, <1>4, <1>7, <2>4, <2>6, ServerView DEF CallInv, Conn
  <2> QED BY <1>8, <2>2, <2>3, <2>5, <2>7 DEF IndInv, CallInv
<1> QED BY <1>9, <1>10

\* A step of handle_client touches only the call it serves.
LEMMA HandleFrame ==
  ASSUME IndInv, UNCHANGED clientVars, NEW k \in Call, k = cur,
         cur' = k \/ spc' \notin {"read", "answer", "killed"},
         \A j \in Call \ {k} : Kept(j)
  PROVE \A j \in Call \ {k} : CallInv(j)'
<1> TAKE j \in Call \ {k}
<1>1. Serving(j) = "no" /\ Serving(j)' = "no"
  BY DEF Serving
<1> QED BY <1>1, ServerFrame

\* What handle_client finds next.
LEMMA NextRequestField ==
  ASSUME IndInv, NEW k \in Call, k = cur, spc = "read", up[k] # <<>>
  PROVE /\ CallInv(k) /\ Serving(k) = "read" /\ send[k] = "open" /\ cend[k] # "none"
        /\ sstep \in 1..4 /\ ReadUp(k) = sstep - 1
        /\ Head(up[k]) = RequestMessage(k)[sstep]
        /\ Part(Tail(up[k]), RequestMessage(k), sstep)
        /\ Len(up[k]) \in Nat /\ Len(Tail(up[k])) = Len(up[k]) - 1
<1>1. Serving(k) = "read" /\ sstep \in 1..4 /\ CallInv(k)
  BY DEF Serving, IndInv, TypeOK
<1>2. send[k] = "open" /\ cend[k] # "none"
  BY <1>1 DEF CallInv, Conn
<1>3. ReadUp(k) = sstep - 1 /\ ReadUp(k) \in 0..4 /\ ReadUp(k) + 1 = sstep
  BY <1>1 DEF ReadUp
<1>4. Part(up[k], RequestMessage(k), ReadUp(k))
  BY <1>1, <1>2 DEF CallInv, Conn
<1>5. /\ Head(up[k]) = RequestMessage(k)[ReadUp(k) + 1]
      /\ Part(Tail(up[k]), RequestMessage(k), ReadUp(k) + 1)
      /\ Len(up[k]) > 0 /\ Len(Tail(up[k])) = Len(up[k]) - 1
  BY <1>3, <1>4, PartTail
<1>6. Len(up[k]) \in Nat
  BY <1>1, Numbers DEF IndInv
<1> QED BY <1>1, <1>2, <1>3, <1>5, <1>6

\* A field of the request's header is read.
LEMMA ReadRequestKeeps ==
  ASSUME IndInv, NEW k \in Call, k = cur, ReadRequest
  PROVE IndInv'
<1>1. /\ spc = "read" /\ sstep < 4 /\ up[k] # <<>>
      /\ up' = [up EXCEPT ![k] = Tail(up[k])]
      /\ sSN' = IF sstep = 2 THEN Head(up[k]) ELSE sSN
      /\ sstep' = sstep + 1
      /\ UNCHANGED <<clientVars, spc, cur, out, is_running, executed, cend,
                     send, down, reset, backlog, cut>>
  BY DEF ReadRequest, Whole
<1>2. /\ CallInv(k) /\ Serving(k) = "read" /\ send[k] = "open" /\ cend[k] # "none"
      /\ sstep \in 1..4 /\ ReadUp(k) = sstep - 1
      /\ Head(up[k]) = RequestMessage(k)[sstep]
      /\ Part(Tail(up[k]), RequestMessage(k), sstep)
      /\ Len(up[k]) \in Nat /\ Len(Tail(up[k])) = Len(up[k]) - 1
  BY <1>1, NextRequestField
<1>3. k[2] \in 0..MaxCalls /\ RequestMessage(k)[2] = k[2]
  BY DEF Call, RequestMessage
<1>4. sstep = 2 => sSN' = k[2]
  BY <1>1, <1>2, <1>3
<1>5. sstep' \in 1..4 /\ sSN' \in 0..MaxCalls
  BY <1>1, <1>2, <1>3, <1>4 DEF IndInv, TypeOK
<1>6. TypeOK'
  BY <1>1, <1>5 DEF IndInv, TypeOK, clientVars
<1>7. Shape'
  BY <1>1 DEF IndInv, Shape, clientVars
<1>8. \A j \in Call \ {k} : CallInv(j)'
  <2>1. \A j \in Call \ {k} : Kept(j)
    BY <1>1 DEF Kept, Waiting, clientVars, IndInv, Shape
  <2> QED BY <1>1, <2>1, HandleFrame
<1>9. CallInv(k)'
  <2>1. /\ AnswerTo(k)' = AnswerTo(k) /\ AnswerMessage(k)' = AnswerMessage(k)
        /\ RequestMessage(k)' = RequestMessage(k) /\ Phase(k)' = Phase(k)
        /\ ReadDown(k)' = ReadDown(k) /\ Sent(k)' = Sent(k)
        /\ (Ran(k)' <=> Ran(k)) /\ (k \in Waiting' <=> k \in Waiting)
    BY <1>1, ServerView DEF Sent, Ran, Waiting
  <2>2. Serving(k)' = "read" /\ ReadUp(k)' = sstep /\ up'[k] = Tail(up[k])
    BY <1>1, <1>2 DEF Serving, ReadUp, IndInv, Shape
  <2>3. ReadUp(k)' + Len(up'[k]) = ReadUp(k) + Len(up[k])
    BY <1>2, <2>2
  <2>4. sstep' >= 3 => sSN' = k[2]
    BY <1>1, <1>2, <1>4 DEF CallInv, Conn
  <2>5. Caller(k)'
    BY <1>1, <1>2, <2>1, ServerView DEF CallInv, Caller
  <2>6. Conn(k)'
    BY <1>1, <1>2, <2>1, <2>2, <2>3, <2>4, ServerView DEF CallInv, Conn
  <2> QED BY <2>5, <2>6 DEF CallInv
<1> QED BY <1>6, <1>7, <1>8, <1>9 DEF IndInv

\* What is executed is the request of the call that is served.
LEMMA ReadyRequest ==
  ASSUME IndInv, NEW k \in Call, k = cur, Ready
  PROVE /\ spc = "read" /\ sstep = 4 /\ Head(up[cur]) = req[k]
        /\ AnswerTo(k) = Answer(Head(up[cur]), handlers) /\ req[k] \in Request
        /\ executed[k] = 0 /\ (result[k] = None \/ result[k].ret = "failed")
<1>1. spc = "read" /\ sstep = 4 /\ up[k] # <<>>
  BY DEF Ready, Whole
<1>2. CallInv(k) /\ Serving(k) = "read" /\ Head(up[k]) = RequestMessage(k)[4] /\ cend[k] # "none"
  BY <1>1, NextRequestField
<1>3. Head(up[cur]) = req[k]
  BY <1>2 DEF RequestMessage
<1>4. req[k] \in Request
  BY <1>2 DEF CallInv, Caller
<1>5. executed[k] = 0 /\ (result[k] = None \/ result[k].ret = "failed")
  BY <1>2 DEF CallInv, Caller, Conn
<1> QED BY <1>1, <1>3, <1>4, <1>5 DEF AnswerTo

\* The handler runs, or there is none.
LEMMA ExecuteKeeps ==
  ASSUME IndInv, NEW k \in Call, k = cur, Execute
  PROVE IndInv'
<1>1. /\ Ready /\ Answer(Head(up[cur]), handlers) # Crash
      /\ up' = [up EXCEPT ![k] = Tail(up[k])] /\ up[k] # <<>>
      /\ out' = Answer(Head(up[cur]), handlers)
      /\ executed' = IF Head(up[cur]).fn \in handlers
                     THEN [executed EXCEPT ![k] = executed[k] + 1] ELSE executed
      /\ spc' = "answer" /\ sstep' = 1
      /\ UNCHANGED <<clientVars, cur, sSN, is_running, cend, send, down, reset, backlog, cut>>
  BY DEF Execute, Runs, Ready, Whole
<1>2. /\ spc = "read" /\ sstep = 4 /\ Head(up[cur]) = req[k]
      /\ AnswerTo(k) = Answer(Head(up[cur]), handlers)
      /\ executed[k] = 0 /\ (result[k] = None \/ result[k].ret = "failed")
  BY <1>1, ReadyRequest
<1>3. /\ CallInv(k) /\ Serving(k) = "read" /\ send[k] = "open" /\ cend[k] # "none"
      /\ ReadUp(k) = 3
      /\ Part(Tail(up[k]), RequestMessage(k), 4)
      /\ Len(up[k]) \in Nat /\ Len(Tail(up[k])) = Len(up[k]) - 1
  BY <1>1, <1>2, NextRequestField
<1>4. TypeOK'
  BY <1>1, <1>2 DEF IndInv, TypeOK, clientVars
<1>5. Shape'
  BY <1>1 DEF IndInv, Shape, clientVars
<1>6. \A j \in Call \ {k} : CallInv(j)'
  <2>1. \A j \in Call \ {k} : Kept(j)
    BY <1>1 DEF Kept, Waiting, clientVars, IndInv, Shape, TypeOK
  <2> QED BY <1>1, <2>1, HandleFrame
<1>7. CallInv(k)'
  <2>1. /\ AnswerTo(k)' = AnswerTo(k) /\ AnswerMessage(k)' = AnswerMessage(k)
        /\ RequestMessage(k)' = RequestMessage(k) /\ Phase(k)' = Phase(k)
        /\ ReadDown(k)' = ReadDown(k) /\ Sent(k)' = Sent(k)
        /\ (k \in Waiting' <=> k \in Waiting)
    BY <1>1, ServerView DEF Sent, Waiting
  <2>2. Serving(k)' = "answer" /\ ReadUp(k)' = 4 /\ up'[k] = Tail(up[k])
    BY <1>1 DEF Serving, ReadUp, IndInv, Shape
  <2>3. ReadUp(k)' + Len(up'[k]) = ReadUp(k) + Len(up[k])
    BY <1>3, <2>2
  <2>4. executed'[k] = IF req[k].fn \in handlers THEN 1 ELSE 0
    BY <1>1, <1>2 DEF IndInv, TypeOK
  <2>5. Ran(k)'
    BY <1>1, <1>2, <2>1, <2>4, ServerView DEF Ran
  <2>6. Sent(k) = 0 /\ sSN = k[2] /\ out' = AnswerTo(k)
    <3>1. CASE cend[k] = "open"
      BY <1>1, <1>2, <1>3, <3>1 DEF CallInv, Conn
    <3>2. CASE cend[k] # "open"
      <4>1. down[k] = <<>> /\ Phase(k) # "read"
        BY <1>3, <3>2 DEF CallInv, Caller, Conn
      <4> QED BY <1>1, <1>2, <1>3, <4>1 DEF Sent, ReadDown, CallInv, Conn
    <3> QED BY <3>1, <3>2
  <2>7. Caller(k)'
    BY <1>1, <1>2, <1>3, <2>1, ServerView DEF CallInv, Caller
  <2>8. Conn(k)'
    BY <1>1, <1>2, <1>3, <2>1, <2>2, <2>3, <2>5, <2>6, ServerView DEF CallInv, Conn
  <2> QED BY <2>7, <2>8 DEF CallInv
<1> QED BY <1>4, <1>5, <1>6, <1>7 DEF IndInv

\* The stream to the client of call k after a step that may write to it.
DownTo(k) ==
  /\ down' = [j \in Call |-> down'[j]] /\ \A j \in Call \ {k} : down'[j] = down[j]
  /\ cend[k] # "open" => down'[k] = <<>>
  /\ cend[k] = "open" => Part(down'[k], AnswerMessage(k), ReadDown(k))
  /\ ReadDown(k) + Len(down'[k]) > 0 => Ran(k)

\* Nothing is written.
LEMMA DownUnchanged ==
  ASSUME IndInv, NEW k \in Call, UNCHANGED down
  PROVE DownTo(k)
BY DEF IndInv, Shape, CallInv, Conn, Sent, DownTo

\* handle_client closes its socket and returns.
LEMMA HangupKeeps ==
  ASSUME IndInv, NEW k \in Call, k = cur, spc \in {"read", "answer"}, NEW left,
         Hangup(left), DownTo(k),
         UNCHANGED <<clientVars, is_running, executed, cend, backlog, cut>>
  PROVE IndInv'
<1>1. /\ send' = [send EXCEPT ![k] = "closed"] /\ up' = [up EXCEPT ![k] = <<>>]
      /\ reset' = reset \cup Unread(k, left) /\ spc' = "loop" /\ cur' = None
      /\ sstep' = 1 /\ sSN' = 0 /\ out' = Nothing
  BY DEF Hangup
<1>2. Unread(k, left) \subseteq {k}
  BY DEF Unread
<1>3. CallInv(k) /\ send[k] = "open" /\ cend[k] # "none" /\ Serving(k) \in {"read", "answer"}
  <2>1. Serving(k) \in {"read", "answer"} /\ CallInv(k)
    BY DEF Serving, IndInv
  <2> QED BY <2>1 DEF CallInv, Conn
<1>4. TypeOK'
  <2>1. 0 \in 0..MaxCalls
    BY RpcAssumption
  <2> QED BY <1>1, <1>2, <2>1 DEF IndInv, TypeOK, clientVars
<1>5. Shape'
  <2>1. down' = [j \in Call |-> down'[j]]
    BY DEF DownTo
  <2>2. up' = [j \in Call |-> up'[j]]
    BY <1>1 DEF IndInv, Shape
  <2> QED BY <1>1, <2>1, <2>2 DEF IndInv, Shape, clientVars
<1>6. \A j \in Call \ {k} : CallInv(j)'
  <2>1. \A j \in Call \ {k} : Kept(j)
    BY <1>1, <1>2 DEF Kept, Waiting, clientVars, IndInv, Shape, TypeOK, DownTo
  <2> QED BY <1>1, <2>1, HandleFrame
<1>7. CallInv(k)'
  <2>1. /\ AnswerTo(k)' = AnswerTo(k) /\ AnswerMessage(k)' = AnswerMessage(k)
        /\ RequestMessage(k)' = RequestMessage(k) /\ Phase(k)' = Phase(k)
        /\ ReadDown(k)' = ReadDown(k)
        /\ (k \in Waiting' <=> k \in Waiting) /\ (Ran(k)' <=> Ran(k))
    BY ServerView DEF Waiting, Ran
  <2>2. Serving(k)' = "no" /\ send'[k] = "closed" /\ up'[k] = <<>>
    BY <1>1 DEF Serving, IndInv, TypeOK, Shape
  <2>3. Sent(k)' > 0 => Ran(k)
    BY <2>1 DEF DownTo, Sent
  <2>4. Caller(k)'
    BY <1>3, <2>1, ServerView DEF CallInv, Caller
  <2>5. Conn(k)'
    BY <1>3, <2>1, <2>2, <2>3, ServerView DEF CallInv, Conn, DownTo
  <2> QED BY <2>4, <2>5 DEF CallInv
<1> QED BY <1>4, <1>5, <1>6, <1>7 DEF IndInv

\* What handle_client writes next is the next field of the answer.
LEMMA NextWritten ==
  ASSUME IndInv, NEW k \in Call, k = cur, spc = "answer"
  PROVE /\ CallInv(k) /\ Serving(k) = "answer" /\ send[k] = "open" /\ cend[k] # "none"
        /\ sstep \in 1..4 /\ Ran(k) /\ out = AnswerTo(k)
        /\ AnswerField(sstep) = AnswerMessage(k)[sstep]
        /\ cend[k] = "open" =>
             /\ Part(Append(down[k], AnswerField(sstep)), AnswerMessage(k), ReadDown(k))
             /\ ReadDown(k) + Len(Append(down[k], AnswerField(sstep))) = sstep
<1>1. Serving(k) = "answer" /\ sstep \in 1..4 /\ CallInv(k)
  BY DEF Serving, IndInv, TypeOK
<1>2. /\ send[k] = "open" /\ cend[k] # "none" /\ Ran(k) /\ out = AnswerTo(k) /\ sSN = k[2]
  BY <1>1 DEF CallInv, Conn
<1>3. AnswerField(sstep) = AnswerMessage(k)[sstep]
  <2>1. <<"magic", sSN, IF out = Nothing THEN 0 ELSE 1, out>> = AnswerMessage(k)
    BY <1>2 DEF AnswerMessage
  <2> QED BY <2>1 DEF AnswerField
<1>4. ASSUME cend[k] = "open"
      PROVE /\ Part(Append(down[k], AnswerField(sstep)), AnswerMessage(k), ReadDown(k))
            /\ ReadDown(k) + Len(Append(down[k], AnswerField(sstep))) = sstep
  <2>1. Part(down[k], AnswerMessage(k), ReadDown(k)) /\ Sent(k) = sstep - 1
    BY <1>1, <1>4 DEF CallInv, Conn
  <2>2. ReadDown(k) \in 0..3 /\ Len(down[k]) \in Nat
    BY <1>1, Numbers DEF IndInv
  <2>3. ReadDown(k) + Len(down[k]) < 4 /\ ReadDown(k) + Len(down[k]) + 1 = sstep
    BY <1>1, <2>1, <2>2 DEF Sent
  <2>4. /\ Part(Append(down[k], AnswerField(sstep)), AnswerMessage(k), ReadDown(k))
        /\ Len(Append(down[k], AnswerField(sstep))) = Len(down[k]) + 1
    BY <1>3, <2>1, <2>2, <2>3, PartAppend
  <2> QED BY <2>2, <2>3, <2>4
<1> QED BY <1>1, <1>2, <1>3, <1>4

\* A field of the answer's header is written, or lost.
LEMMA SendFieldKeeps ==
  ASSUME IndInv, NEW k \in Call, k = cur, SendField
  PROVE IndInv'
<1> DEFINE f == AnswerField(sstep)
<1>1. /\ spc = "answer" /\ sstep < 4
      /\ down' = [down EXCEPT ![k] = Put(down[k], f, cend[k])]
      /\ reset' = reset \cup Lost(k, cend[k]) /\ sstep' = sstep + 1
      /\ UNCHANGED <<clientVars, spc, cur, sSN, out, is_running, executed,
                     cend, send, up, backlog, cut>>
  BY DEF SendField
<1>2. /\ CallInv(k) /\ Serving(k) = "answer" /\ send[k] = "open" /\ cend[k] # "none"
      /\ sstep \in 1..4 /\ Ran(k) /\ out = AnswerTo(k)
      /\ cend[k] = "open" =>
           /\ Part(Append(down[k], f), AnswerMessage(k), ReadDown(k))
           /\ ReadDown(k) + Len(Append(down[k], f)) = sstep
  BY <1>1, NextWritten
<1> HIDE DEF f
<1>3. Lost(k, cend[k]) \subseteq {k} /\ (k \in Lost(k, cend[k]) <=> cend[k] = "closed")
  BY DEF Lost
<1>4. sstep' \in 1..4
  BY <1>1, <1>2
<1>5. TypeOK'
  BY <1>1, <1>3, <1>4 DEF IndInv, TypeOK, clientVars
<1>6. Shape'
  BY <1>1 DEF IndInv, Shape, clientVars
<1>7. \A j \in Call \ {k} : CallInv(j)'
  <2>1. \A j \in Call \ {k} : Kept(j)
    BY <1>1, <1>3 DEF Kept, Waiting, clientVars, IndInv, Shape, TypeOK
  <2> QED BY <1>1, <2>1, HandleFrame
<1>8. CallInv(k)'
  <2>1. /\ AnswerTo(k)' = AnswerTo(k) /\ AnswerMessage(k)' = AnswerMessage(k)
        /\ RequestMessage(k)' = RequestMessage(k) /\ Phase(k)' = Phase(k)
        /\ ReadDown(k)' = ReadDown(k)
        /\ (k \in Waiting' <=> k \in Waiting) /\ (Ran(k)' <=> Ran(k))
    BY <1>1, ServerView DEF Waiting, Ran
  <2>2. Serving(k)' = "answer" /\ ReadUp(k)' = ReadUp(k)
    BY <1>1, <1>2 DEF Serving, ReadUp
  <2>3. /\ cend[k] = "open" => /\ Part(down'[k], AnswerMessage(k), ReadDown(k))
                               /\ ReadDown(k) + Len(down'[k]) = sstep
        /\ cend[k] # "open" => down'[k] = <<>>
    <3>1. cend[k] \in {"open", "closed"}
      BY <1>2 DEF IndInv, TypeOK
    <3>2. down'[k] = IF cend[k] = "closed" THEN down[k] ELSE Append(down[k], f)
      BY <1>1 DEF Put, IndInv, Shape
    <3> QED BY <3>1, <3>2, <1>2 DEF CallInv, Conn
  <2>4. cend[k] = "open" => Sent(k)' = sstep' - 1
    BY <1>1, <1>2, <2>1, <2>3 DEF Sent
  <2>5. Caller(k)'
    BY <1>1, <1>2, <2>1, ServerView DEF CallInv, Caller
  <2>6. Conn(k)'
    BY <1>1, <1>2, <1>3, <2>1, <2>2, <2>3, <2>4, ServerView DEF CallInv, Conn
  <2> QED BY <2>5, <2>6 DEF CallInv
<1> QED BY <1>5, <1>6, <1>7, <1>8 DEF IndInv

\* The body is written, and the connection closed.
LEMMA SendBodyKeeps ==
  ASSUME IndInv, NEW k \in Call, k = cur, SendBody
  PROVE IndInv'
<1> DEFINE f == AnswerField(sstep)
<1>1. /\ spc = "answer" /\ sstep = 4 /\ Hangup(up[cur])
      /\ down' = IF out = Nothing THEN down
                 ELSE [down EXCEPT ![k] = Put(down[k], f, cend[k])]
      /\ UNCHANGED <<clientVars, is_running, executed, cend, backlog, cut>>
  BY DEF SendBody
<1>2. /\ CallInv(k) /\ cend[k] # "none" /\ Ran(k)
      /\ cend[k] = "open" =>
           /\ Part(Append(down[k], f), AnswerMessage(k), ReadDown(k))
           /\ ReadDown(k) + Len(Append(down[k], f)) = sstep
  BY <1>1, NextWritten
<1> HIDE DEF f
<1>3. DownTo(k)
  <2>1. CASE out = Nothing
    BY <1>1, <2>1, DownUnchanged
  <2>2. CASE out # Nothing
    <3>1. cend[k] \in {"open", "closed"}
      BY <1>2 DEF IndInv, TypeOK
    <3>2. down'[k] = IF cend[k] = "closed" THEN down[k] ELSE Append(down[k], f)
      BY <1>1, <2>2 DEF Put, IndInv, Shape
    <3>3. down' = [j \in Call |-> down'[j]] /\ \A j \in Call \ {k} : down'[j] = down[j]
      BY <1>1, <2>2 DEF IndInv, Shape
    <3> QED BY <3>1, <3>2, <3>3, <1>2 DEF CallInv, Conn, DownTo
  <2> QED BY <2>1, <2>2
<1> QED BY <1>1, <1>3, HangupKeeps

\* The request is refused, or does not come.
LEMMA ReadEndsKeeps ==
  ASSUME IndInv, NEW k \in Call, k = cur, ReadRefused \/ ReadRequestFails
  PROVE IndInv'
<1>1. /\ spc = "read" /\ down' = down
      /\ Hangup(Tail(up[cur])) \/ Hangup(up[cur])
      /\ UNCHANGED <<clientVars, is_running, executed, cend, backlog, cut>>
  BY DEF ReadRefused, ReadRequestFails
<1>2. DownTo(k)
  BY <1>1, DownUnchanged
<1> QED BY <1>1, <1>2, HangupKeeps

\* How the server may end: between two connections, because a handler crashes,
\* or by SIGPIPE when it writes to a client that has given up.
Ending(how) ==
  \/ how = "exited" /\ spc \in {"loop", "select"} /\ UNCHANGED executed
  \/ /\ how = "killed" /\ spc = "read" /\ AnswerTo(cur) = Crash
     /\ executed' = [executed EXCEPT ![cur] = executed[cur] + 1]
  \/ /\ how = "killed" /\ spc = "answer" /\ cend[cur] = "closed" /\ UNCHANGED executed

\* The server's process ends.
LEMMA EndKeeps ==
  ASSUME IndInv, NEW how, NEW left, Ending(how), End(how, left)
  PROVE IndInv'
<1> DEFINE open == {k \in Call : send[k] = "open"}
           lost == UNION {Unread(k, left) : k \in open}
<1>1. /\ spc' = how /\ backlog' = <<>>
      /\ send' = [k \in Call |-> IF k \in Waiting \cup open THEN "closed" ELSE send[k]]
      /\ reset' = reset \cup Waiting \cup lost
      /\ up' = [k \in Call |-> <<>>] /\ sstep' = 1 /\ sSN' = 0 /\ out' = Nothing
      /\ UNCHANGED <<clientVars, cur, is_running, cend, down, cut>>
  BY DEF End, Waiting
<1>2. \A k : k \in lost => k \in Call /\ send[k] = "open"
  BY DEF Unread
<1> HIDE DEF lost
<1>3. Waiting \subseteq Call /\ how \in {"exited", "killed"}
  BY DEF IndInv, TypeOK, Waiting, Ending
<1>4. spc \in {"read", "answer"} => cur \in Call
  BY DEF IndInv, Shape
<1>5. /\ executed' \in [Call -> Nat]
      /\ \A k \in Call : executed'[k] = executed[k] \/ Serving(k) = "read"
  <2>1. CASE UNCHANGED executed
    BY <2>1 DEF IndInv, TypeOK
  <2>2. CASE ~ UNCHANGED executed
    <3>1. /\ spc = "read" /\ executed' = [executed EXCEPT ![cur] = executed[cur] + 1]
          /\ cur \in Call
      BY <2>2, <1>4 DEF Ending
    <3> QED BY <3>1 DEF IndInv, TypeOK, Serving
  <2> QED BY <2>1, <2>2
<1>6. TypeOK'
  <2>1. 0 \in 0..MaxCalls
    BY RpcAssumption
  <2>2. Len(backlog') <= Backlog /\ ToSet(backlog') = {}
    BY <1>1, RpcAssumption DEF ToSet
  <2>3. send' \in [Call -> {"none", "open", "closed"}] /\ reset' \subseteq Call
    BY <1>1, <1>2, <1>3 DEF IndInv, TypeOK
  <2> QED BY <1>1, <1>3, <1>5, <2>1, <2>2, <2>3 DEF IndInv, TypeOK, clientVars
<1>7. Shape'
  <2>1. spc' = "killed" => cur \in Call
    BY <1>1, <1>4 DEF Ending
  <2>2. backlog' \in Seq(Call) /\ Distinct(backlog')
    BY <1>1 DEF Distinct
  <2> QED BY <1>1, <1>3, <2>1, <2>2 DEF IndInv, Shape, clientVars
<1>8. ASSUME NEW k \in Call PROVE CallInv(k)'
  <2>1. /\ AnswerTo(k)' = AnswerTo(k) /\ AnswerMessage(k)' = AnswerMessage(k)
        /\ RequestMessage(k)' = RequestMessage(k) /\ Phase(k)' = Phase(k)
        /\ ReadDown(k)' = ReadDown(k) /\ Sent(k)' = Sent(k)
    BY <1>1, ServerView DEF Sent
  <2>2. CallInv(k) /\ Waiting' = {}
    BY <1>1 DEF IndInv, Waiting, ToSet
  <2>3. Serving(k)' = IF how = "killed" /\ k = cur THEN "killed" ELSE "no"
    BY <1>1, <1>3 DEF Serving
  <2>4. /\ send'[k] = IF k \in Waiting \/ send[k] = "open" THEN "closed" ELSE send[k]
        /\ k \in reset' => k \in reset \/ k \in Waiting \/ send[k] = "open"
        /\ up'[k] = <<>>
    BY <1>1, <1>2
  <2>5. send'[k] = "none" => cend[k] = "none" /\ send[k] = "none"
    BY <2>2, <2>4 DEF CallInv, Conn
  <2>6. send'[k] # "open"
    BY <2>4
  <2>7. executed'[k] = executed[k] \/ (executed[k] = 0 /\ Serving(k) = "read" /\ send[k] = "open")
    BY <2>2, <1>5 DEF CallInv, Conn
  <2>8. Caller(k)'
    BY <1>1, <2>1, <2>2, <2>7, ServerView DEF CallInv, Caller
  <2>9. ReadUp(k)' = 0
    BY <2>3 DEF ReadUp
  <2>10. Part(up[k], RequestMessage(k), ReadUp(k))'
    BY <2>4, <2>9, PartEmpty
  <2>11. Sent(k) > 0 => Ran(k)'
    <3> SUFFICES ASSUME Sent(k) > 0 PROVE Ran(k)'
      OBVIOUS
    <3>1. cend[k] = "open"
      <4>1. ASSUME cend[k] # "open" PROVE Sent(k) = 0
        BY <4>1, <2>2 DEF CallInv, Caller, Conn, Sent, ReadDown
      <4> QED BY <4>1
    <3>2. Ran(k) /\ Serving(k) # "read"
      BY <3>1, <2>2 DEF CallInv, Conn
    <3> QED BY <3>2, <2>1, <2>7, <1>1, ServerView DEF Ran
  <2>12. how = "killed" /\ k = cur =>
           \/ AnswerTo(k) = Crash /\ cend[k] # "none"
           \/ cend[k] = "closed" /\ (result[k] = None \/ result[k].ret = "failed")
    <3> SUFFICES ASSUME how = "killed", k = cur
                 PROVE \/ AnswerTo(k) = Crash /\ cend[k] # "none"
                       \/ cend[k] = "closed" /\ (result[k] = None \/ result[k].ret = "failed")
      OBVIOUS
    <3>1. CASE spc = "read" /\ AnswerTo(cur) = Crash
      <4>1. Serving(k) = "read"
        BY <3>1 DEF Serving
      <4> QED BY <3>1, <4>1, <2>2 DEF CallInv, Conn
    <3>2. CASE spc = "answer" /\ cend[cur] = "closed"
      <4>1. Serving(k) = "answer"
        BY <3>2 DEF Serving
      <4> QED BY <3>2, <4>1, <2>2 DEF CallInv, Conn
    <3> QED BY <3>1, <3>2 DEF Ending
  <2>13. Conn(k)'
    <3>1. cend'[k] = cend[k] /\ down'[k] = down[k] /\ result'[k] = result[k]
      BY <1>1, ServerView
    <3>2. cend[k] = "none" => send'[k] = "none" /\ k \notin reset'
      BY <2>2, <2>4 DEF CallInv, Conn
    <3>3. send'[k] = "none" => executed'[k] = 0
      BY <2>2, <2>5, <2>7 DEF CallInv, Conn
    <3>4. send'[k] \in {"none", "closed"} /\ (Phase(k) = "write" => cend[k] = "open")
      BY <2>2, <2>4 DEF IndInv, TypeOK, CallInv, Caller
    <3>5. (cend[k] = "open" =>
             /\ Part(down[k], AnswerMessage(k), ReadDown(k))
             /\ send[k] = "none" \/ Serving(k) = "read" => Sent(k) = 0
             /\ Serving(k) = "answer" => Sent(k) = sstep - 1)'
      BY <3>1, <2>1, <2>2, <2>3, <2>5 DEF CallInv, Conn
    <3>6. (send[k] # "closed" =>
             /\ Part(up[k], RequestMessage(k), ReadUp(k))
             /\ Phase(k) = "write" => ReadUp(k) + Len(up[k]) = cstep[k[1]] - 1)'
      BY <3>4, <2>1, <2>5, <2>10
    <3>7. cend[k] # "open" => down'[k] = <<>>
      BY <3>1, <2>2 DEF CallInv, Conn
    <3> QED BY <3>1, <3>2, <3>3, <3>4, <3>5, <3>6, <3>7, <2>1, <2>2, <2>3, <2>4, <2>5,
               <2>11, <2>12 DEF Conn
  <2> QED BY <2>8, <2>13 DEF CallInv
<1> QED BY <1>6, <1>7, <1>8 DEF IndInv

\* A handler crashes.
LEMMA ExecuteCrashesKeeps ==
  ASSUME IndInv, NEW k \in Call, k = cur, ExecuteCrashes
  PROVE Ending("killed") /\ IndInv'
<1>1. /\ Ready /\ Answer(Head(up[cur]), handlers) = Crash /\ Runs(Head(up[cur]))
      /\ End("killed", Tail(up[cur]))
  BY DEF ExecuteCrashes
<1>2. spc = "read" /\ AnswerTo(cur) = Crash /\ AnswerTo(k) = Answer(Head(up[cur]), handlers)
  BY <1>1, ReadyRequest
<1>3. Head(up[cur]).fn \in handlers
  <2>1. NotFound.layout # Crash.layout
    BY DEF NotFound, Crash
  <2>2. NotFound # Crash
    BY <2>1
  <2> QED BY <1>1, <2>2, AnswerCases
<1>4. executed' = [executed EXCEPT ![cur] = executed[cur] + 1]
  BY <1>1, <1>3 DEF Runs
<1>5. Ending("killed")
  BY <1>2, <1>4 DEF Ending
<1> QED BY <1>1, <1>5, EndKeeps

\* Every step of the server keeps the invariant.
LEMMA ServerStepKeeps ==
  ASSUME IndInv, ServerStep
  PROVE IndInv'
<1>1. CASE Run \/ RunFails \/ Loop \/ SelectTimesOut
  <2>1. /\ spc \in {"start", "loop", "select"} /\ spc' \in {"loop", "select", "exited"}
        /\ is_running' \in {TRUE, is_running}
        /\ UNCHANGED <<clientVars, sstep, cur, sSN, out, executed, netVars>>
    BY <1>1 DEF Run, RunFails, Loop, SelectTimesOut
  <2>2. is_running' \in BOOLEAN /\ cut' \subseteq Call
    BY <2>1 DEF IndInv, TypeOK, netVars
  <2> QED BY <2>1, <2>2, QuietKeeps DEF netVars
<1>2. CASE Exit
  <2>1. Ending("exited") /\ End("exited", <<>>)
    BY <1>2 DEF Exit, Ending
  <2> QED BY <2>1, EndKeeps
<1>3. CASE AcceptConn \/ AcceptFails
  BY <1>3, AcceptKeeps
<1>4. ASSUME spc \in {"read", "answer"},
             \/ ReadRequest \/ Execute \/ ExecuteCrashes \/ ReadRefused \/ ReadRequestFails
             \/ SendField \/ SendBody
      PROVE IndInv'
  <2>1. PICK k \in Call : k = cur
    BY <1>4 DEF IndInv, Shape
  <2> QED BY <2>1, <1>4, ReadRequestKeeps, ExecuteKeeps, ExecuteCrashesKeeps, ReadEndsKeeps,
             SendFieldKeeps, SendBodyKeeps
<1>5. CASE ServerKilled
  <2>1. /\ spc = "answer" /\ cur \in reset /\ End("killed", up[cur]) /\ UNCHANGED executed
    BY <1>5 DEF ServerKilled, Broken
  <2>2. PICK k \in Call : k = cur
    BY <2>1 DEF IndInv, Shape
  <2>3. Serving(k) = "answer" /\ CallInv(k)
    BY <2>1, <2>2 DEF Serving, IndInv
  <2>4. cend[cur] = "closed"
    BY <2>1, <2>2, <2>3 DEF CallInv, Conn
  <2>5. Ending("killed")
    BY <2>1, <2>4 DEF Ending
  <2> QED BY <2>1, <2>5, EndKeeps
<1>6. (ReadRequest \/ Execute \/ ExecuteCrashes \/ ReadRefused \/ ReadRequestFails
       \/ SendField \/ SendBody) => spc \in {"read", "answer"}
  BY DEF ReadRequest, Execute, ExecuteCrashes, ReadRefused, ReadRequestFails, SendField,
         SendBody, Ready
<1> QED BY <1>1, <1>2, <1>3, <1>4, <1>5, <1>6 DEF ServerStep

\* The invariant holds at the start.
LEMMA InitIndInv == Init => IndInv
<1> SUFFICES ASSUME Init PROVE IndInv
  OBVIOUS
<1>1. 0 \in 0..MaxCalls /\ Backlog \in Nat /\ MaxCalls \in Nat
  BY RpcAssumption
<1>2. TypeOK
  <2>1. Len(backlog) <= Backlog /\ ToSet(backlog) \subseteq Call
    BY <1>1 DEF Init, ToSet
  <2>2. /\ cpc \in [Client -> {"idle", "connect", "write", "read", "release", "killed"}]
        /\ cstep \in [Client -> 1..4]
        /\ callSN \in [Client -> 0..MaxCalls] /\ gotSN \in [Client -> 0..MaxCalls]
    BY <1>1 DEF Init
  <2>3. /\ req \in [Call -> Request \cup {None}] /\ buf \in [Call -> {"none", "held", "freed"}]
        /\ executed \in [Call -> Nat] /\ reset \subseteq Call /\ cut \subseteq Call
        /\ cend \in [Call -> {"none", "open", "closed"}]
        /\ send \in [Call -> {"none", "open", "closed"}]
    BY DEF Init
  <2>4. /\ spc \in {"start", "loop", "select", "read", "answer", "exited", "killed"}
        /\ sstep \in 1..4 /\ cur \in Call \cup {None} /\ sSN \in 0..MaxCalls
    BY <1>1 DEF Init
  <2>5. is_running \in BOOLEAN
    BY DEF Init
  <2> QED BY <2>1, <2>2, <2>3, <2>4, <2>5 DEF TypeOK
<1>3. Shape
  BY DEF Init, Shape, Distinct
<1>4. ASSUME NEW k \in Call PROVE CallInv(k)
  <2>1. k[1] \in Client /\ k[2] \in 1..MaxCalls
    BY DEF Call
  <2>2. Phase(k) = "future"
    BY <2>1, <1>1 DEF Init, Phase
  <2>3. Serving(k) = "no" /\ k \notin Waiting /\ ReadUp(k) = 0 /\ ReadDown(k) = 0
    BY <2>2 DEF Init, Serving, Waiting, ToSet, ReadUp, ReadDown
  <2>4. up[k] = <<>> /\ down[k] = <<>> /\ Sent(k) = 0
    BY <2>3 DEF Init, Sent
  <2>5. Part(up[k], RequestMessage(k), ReadUp(k))
    BY <2>3, <2>4, PartEmpty
  <2>6. Caller(k)
    BY <2>2 DEF Init, Caller
  <2>7. Conn(k)
    BY <2>2, <2>3, <2>4, <2>5 DEF Init, Conn
  <2> QED BY <2>6, <2>7 DEF CallInv
<1> QED BY <1>2, <1>3, <1>4 DEF IndInv

\* Every step keeps the invariant.
LEMMA NextIndInv == IndInv /\ [Next]_vars => IndInv'
<1> SUFFICES ASSUME IndInv, [Next]_vars PROVE IndInv'
  OBVIOUS
<1>1. CASE \E c \in Client : ClientStep(c) \/ \E r \in Requests[c] : StartCall(c, r)
  BY <1>1, ClientStepKeeps, StartCallKeeps
<1>2. CASE ServerStep
  BY <1>2, ServerStepKeeps
<1>3. CASE OnSignal \/ \E k \in Call : NetworkFails(k)
  <2>1. /\ UNCHANGED <<clientVars, spc, sstep, cur, sSN, out, executed, cend, send, up, down,
                       reset, backlog>>
        /\ is_running' \in BOOLEAN /\ cut' \subseteq Call
    BY <1>3 DEF OnSignal, NetworkFails, IndInv, TypeOK, serverVars, netVars
  <2> QED BY <2>1, QuietKeeps
<1>4. CASE UNCHANGED vars
  <2>1. /\ UNCHANGED <<clientVars, spc, sstep, cur, sSN, out, executed, cend, send, up, down,
                       reset, backlog>>
        /\ is_running' \in BOOLEAN /\ cut' \subseteq Call
    BY <1>4 DEF vars, IndInv, TypeOK, serverVars, netVars
  <2> QED BY <2>1, QuietKeeps
<1> QED BY <1>1, <1>2, <1>3, <1>4 DEF Next

\* So it always holds.
LEMMA AlwaysIndInv == Spec => []IndInv
BY InitIndInv, NextIndInv, PTL DEF Spec

-----------------------------------------------------------------------------
(***************************************************************************)
(* The theorems.                                                           *)
(***************************************************************************)

\* No path through rpc_call or handle_client leaves a socket open or a buffer
\* of a connected call allocated, whatever fails, however many calls there are.
THEOREM NothingIsLeftOpen == Spec => []NothingLeftOpen
<1>1. IndInv => NothingLeftOpen
  <2> SUFFICES ASSUME IndInv PROVE NothingLeftOpen
    OBVIOUS
  <2>1. ASSUME NEW k \in Call, result[k] # None, cend[k] # "none"
        PROVE cend[k] = "closed" /\ buf[k] = "freed"
    <3>1. CallInv(k) /\ cend[k] \in {"open", "closed"}
      BY <2>1 DEF IndInv, TypeOK
    <3> QED BY <2>1, <3>1 DEF CallInv, Caller
  <2>2. ASSUME spc \in {"loop", "select", "exited"}, NEW k \in Call
        PROVE send[k] # "open"
    <3>1. Serving(k) = "no" /\ CallInv(k)
      BY <2>2 DEF Serving, IndInv
    <3> QED BY <3>1 DEF CallInv, Conn
  <2> QED BY <2>1, <2>2 DEF IndInv, NothingLeftOpen
<1> QED BY <1>1, AlwaysIndInv, PTL

\* Only a handler that crashes, or SIGPIPE from an answer to a client that has
\* given its call up, kills the server; only SIGPIPE or the release of a result
\* that rpc_call has not written kills a client.
THEOREM KilledByTheseOnly == Spec => []KilledBy
<1>1. IndInv => KilledBy
  <2> SUFFICES ASSUME IndInv PROVE KilledBy
    OBVIOUS
  <2>1. ASSUME spc = "killed"
        PROVE \/ Answer(req[cur], handlers) = Crash
              \/ cend[cur] = "closed" /\ (result[cur] = None \/ result[cur].ret # "ok")
    <3>1. cur \in Call
      BY <2>1 DEF IndInv, Shape
    <3>2. Serving(cur) = "killed" /\ CallInv(cur)
      BY <2>1, <3>1 DEF Serving, IndInv
    <3> QED BY <3>2 DEF CallInv, Conn, AnswerTo
  <2>2. ASSUME NEW c \in Client, cpc[c] = "killed"
        PROVE \/ result[Of(c)] = None \/ result[Of(c)].ret # "ok"
              \/ req[Of(c)].fn = "login"
    <3>1. PICK k \in Call : k = Of(c)
      BY <2>2, Current DEF IndInv
    <3>2. Phase(k) = "killed" /\ CallInv(k)
      BY <2>2, <3>1 DEF Phase, Of, IndInv, TypeOK
    <3> QED BY <3>1, <3>2 DEF CallInv, Caller
  <2> QED BY <2>1, <2>2 DEF KilledBy
<1> QED BY <1>1, AlwaysIndInv, PTL

-----------------------------------------------------------------------------
(***************************************************************************)
(* At most once: the refinement of RpcCall.                                *)
(***************************************************************************)

\* Nothing that the caller sees happens.
Hidden == UNCHANGED <<req, executed, result>>

\* rpc_call returns: that is a failure, or a success with the handler's result.
LEMMA ReturnRefines ==
  ASSUME IndInv, NEW k \in Call, NEW r \in Result, result[k] = None, req[k] \in Request,
         Returnable(k, r), result' = [result EXCEPT ![k] = r], UNCHANGED <<req, executed>>
  PROVE Abstract!Next
<1>1. result'[k] = r /\ result' = [result EXCEPT ![k] = result'[k]] /\ r # None /\ req[k] # None
  BY NotNone DEF IndInv, Shape
<1>2. CASE r.ret = "failed"
  <2>1. Abstract!Fail(k)
    BY <1>1, <1>2 DEF Abstract!Fail
  <2> QED BY <2>1 DEF Abstract!Next
<1>3. CASE r.ret # "failed"
  <2>1. executed[k] = 1 /\ AnswerTo(k).layout = "rsp" /\ r = Accept(AnswerTo(k))
    BY <1>3 DEF Returnable
  <2>2. Crash.layout # "rsp" /\ Nothing.layout # "rsp"
    BY DEF Crash, Nothing
  <2>3. Answered(req[k]) = r
    BY <2>1, <2>2 DEF Answered, AnswerTo
  <2>4. Abstract!Succeed(k)
    BY <2>1, <2>3 DEF Abstract!Succeed
  <2> QED BY <2>4 DEF Abstract!Next
<1> QED BY <1>2, <1>3

\* A client's steps: asking, failing, succeeding; the others are hidden.
LEMMA ClientRefines ==
  ASSUME IndInv, NEW c \in Client, ClientStep(c)
  PROVE Abstract!Next \/ Hidden
<1>1. CASE Connect(c) \/ Write(c) \/ ClientKilled(c) \/ ReadHeader(c) \/ Release(c)
  BY <1>1 DEF Connect, Write, ClientKilled, ReadHeader, Release, Hidden, serverVars
<1>2. ASSUME \/ ConnectFails(c) \/ WriteFails(c) \/ ReadNothing(c) \/ ReadBody(c)
             \/ ReadAnswerFails(c)
      PROVE Abstract!Next
  <2>1. /\ cpc[c] \in {"connect", "write", "read"} /\ callSN' = callSN
        /\ UNCHANGED <<req, executed>>
    BY <1>2 DEF ConnectFails, WriteFails, ReadNothing, ReadBody, ReadAnswerFails, serverVars
  <2>2. PICK k \in Call : k = Of(c)
    BY <2>1, Current DEF IndInv
  <2>3. Phase(k) = cpc[c] /\ CallInv(k)
    BY <2>1, <2>2, AtCall DEF IndInv
  <2>4. result[k] = None /\ req[k] \in Request
    BY <2>1, <2>3 DEF CallInv, Caller
  <2>5. Returnable(k, Failed)
    BY FailedResult DEF Returnable
  <2>6. CASE ConnectFails(c) \/ WriteFails(c) \/ ReadNothing(c) \/ ReadAnswerFails(c)
    <3>1. result' = [result EXCEPT ![k] = Failed]
      BY <2>2, <2>6 DEF ConnectFails, WriteFails, ReadNothing, ReadAnswerFails, Return
    <3> QED BY <2>1, <2>4, <2>5, <3>1, FailedResult, ReturnRefines
  <2>7. CASE ReadBody(c)
    <3>1. /\ Accept(AnswerTo(k)) \in Result /\ Returnable(k, Accept(AnswerTo(k)))
          /\ Return(c, Accept(AnswerTo(k)), Tail(down[Of(c)]))
      BY <2>2, <2>7, BodyIsAnswer
    <3>2. result' = [result EXCEPT ![k] = Accept(AnswerTo(k))]
      BY <2>2, <3>1 DEF Return
    <3> QED BY <2>1, <2>4, <3>1, <3>2, ReturnRefines
  <2> QED BY <1>2, <2>6, <2>7
<1> QED BY <1>1, <1>2 DEF ClientStep

\* The start of a call asks for it.
LEMMA StartRefines ==
  ASSUME IndInv, NEW c \in Client, NEW r \in Requests[c], StartCall(c, r)
  PROVE Abstract!Next
<1>1. r \in Request
  BY DEF Request
<1>2. callSN[c] \in 0..MaxCalls /\ callSN[c] < MaxCalls /\ MaxCalls \in Nat
  <2>1. MaxCalls \in Nat
    BY RpcAssumption
  <2> QED BY <2>1 DEF IndInv, TypeOK, StartCall
<1>3. PICK k \in Call : k = <<c, callSN[c] + 1>>
  <2>1. callSN[c] + 1 \in 1..MaxCalls
    BY <1>2
  <2> QED BY <2>1 DEF Call
<1>4. Phase(k) = "future"
  BY <1>2, <1>3 DEF Phase
<1>5. req[k] = None
  BY <1>4 DEF IndInv, CallInv, Caller
<1>6. req' = [req EXCEPT ![k] = r] /\ UNCHANGED <<executed, result>>
  BY <1>3 DEF StartCall, serverVars
<1>7. Abstract!Ask(k, r)
  BY <1>5, <1>6 DEF Abstract!Ask
<1> QED BY <1>1, <1>7 DEF Abstract!Next

\* The server's steps: a handler runs, once; the others are hidden.
LEMMA ServerRefines ==
  ASSUME IndInv, ServerStep
  PROVE Abstract!Next \/ Hidden
<1>1. CASE \/ Run \/ RunFails \/ Loop \/ Exit \/ SelectTimesOut \/ AcceptConn \/ AcceptFails
           \/ ReadRequest \/ ReadRefused \/ ReadRequestFails
           \/ SendField \/ SendBody \/ ServerKilled
  BY <1>1 DEF Run, RunFails, Loop, Exit, SelectTimesOut, AcceptConn, AcceptFails, ReadRequest,
              ReadRefused, ReadRequestFails, SendField, SendBody, ServerKilled, End, Hidden,
              clientVars
<1>2. ASSUME Execute \/ ExecuteCrashes PROVE Abstract!Next \/ Hidden
  <2>1. Ready /\ Runs(Head(up[cur])) /\ UNCHANGED <<req, result>>
    BY <1>2 DEF Execute, ExecuteCrashes, End, clientVars
  <2>2. PICK k \in Call : k = cur
    BY <2>1 DEF Ready, IndInv, Shape
  <2>3. req[k] \in Request /\ executed[k] = 0
    BY <2>1, <2>2, ReadyRequest
  <2>4. executed' = executed \/ executed' = [executed EXCEPT ![k] = 1]
    BY <2>1, <2>2, <2>3 DEF Runs
  <2>5. CASE executed' = executed
    BY <2>1, <2>5 DEF Hidden
  <2>6. CASE executed' = [executed EXCEPT ![k] = 1]
    <3>1. Abstract!Execute(k)
      BY <2>1, <2>3, <2>6, NotNone DEF Abstract!Execute
    <3> QED BY <3>1 DEF Abstract!Next
  <2> QED BY <2>4, <2>5, <2>6
<1> QED BY <1>1, <1>2 DEF ServerStep

\* Every step of the program is a step of RpcCall or leaves its variables alone.
LEMMA StepRefines == IndInv /\ [Next]_vars => [Abstract!Next]_(Abstract!callVars)
<1> SUFFICES ASSUME IndInv, [Next]_vars PROVE Abstract!Next \/ Hidden
  BY DEF Hidden, Abstract!callVars
<1>1. CASE \E c \in Client : ClientStep(c) \/ \E r \in Requests[c] : StartCall(c, r)
  BY <1>1, ClientRefines, StartRefines
<1>2. CASE ServerStep
  BY <1>2, ServerRefines
<1>3. CASE OnSignal \/ (\E k \in Call : NetworkFails(k)) \/ UNCHANGED vars
  BY <1>3 DEF OnSignal, NetworkFails, vars, clientVars, serverVars, Hidden
<1> QED BY <1>1, <1>2, <1>3 DEF Next

\* For any number of clients and calls, and whatever the network does: a call is
\* executed at most once, and one that rpc_call reports as a success was executed
\* and has the result of its own handler.
THEOREM ExecutedAtMostOnce == Spec => AtMostOnce
<1>1. Init => Abstract!Init
  BY DEF Init, Abstract!Init
<1> QED BY <1>1, StepRefines, AlwaysIndInv, PTL DEF Spec, AtMostOnce, Abstract!Spec
=============================================================================
