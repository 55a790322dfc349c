----------------------------- MODULE GrpcProofs -----------------------------
(***************************************************************************)
(* Proofs about the server and the clients of xmake/grpc-c, for any number *)
(* of calls and any heap with room for one tag more than there are calls.  *)
(*                                                                         *)
(* TagsOwned is proved with Heap, which also says what the call field of a *)
(* tag holds: its calls are distinct, so a tag is free whenever            *)
(* handle_new_call allocates one.  SuccessIsAnswered needs, across the two *)
(* programs, that no answer of the server is completed twice (Carried).    *)
(***************************************************************************)
EXTENDS Grpc, FiniteSetTheorems, TLAPS

\* A heap with types ty and calls cl, the operations po being outstanding and the
\* events qu not taken: what is named is allocated, and named once; a tag has a
\* call from the moment its request is matched until it is freed.
Heap(ty, cl, po, qu) ==
  /\ ty \in [Tag -> {"free", "new_call", "finish"}]
  /\ cl \in [Tag -> Call \cup {None}]
  /\ po \subseteq Tag \cup {None}
  /\ qu \subseteq [tag : Tag \cup {None}, success : BOOLEAN]
  /\ \A e1, e2 \in qu : e1.tag = e2.tag => e1 = e2
  /\ \A e \in qu : e.tag \notin po
  /\ \A t \in po \ {None} : ty[t] # "free"
  /\ \A e \in qu : e.tag # None => ty[e.tag] # "free"
  /\ \A t \in Tag : /\ ty[t] = "free" => cl[t] = None
                    /\ ty[t] = "finish" => cl[t] # None
                    /\ t \in po /\ ty[t] = "new_call" => cl[t] = None
  /\ \A e \in qu : e.tag # None /\ ty[e.tag] = "new_call" =>
                     (e.success <=> cl[e.tag] # None)
  /\ \A s, t \in Tag : cl[s] = cl[t] => s = t \/ cl[s] = None

\* No tag is lost.
AllNamed(ty, po, qu) ==
  \A t \in Tag : ty[t] # "free" => t \in po \/ \E e \in qu : e.tag = t

\* Nobody listens, or t alone does.
Deaf(ty) == \A t \in Tag : ty[t] # "new_call"
OnlyListener(ty, t) == \A s \in Tag : ty[s] = "new_call" <=> s = t

\* The server's side: where main is, and what that says of the heap.
ServerInv ==
  /\ Heap(type, call, posted, queue)
  /\ spc \in {"start", "loop", "shutdown", "drain", "exited"}
  /\ held \subseteq {"cq", "server", "creds"}
  /\ deaf \in BOOLEAN
  /\ spc = "start" => \A t \in Tag : type[t] = "free"
  /\ spc = "loop" => AllNamed(type, posted, queue)
  /\ IF spc = "loop" /\ ~deaf THEN \E t \in Tag : OnlyListener(type, t) ELSE Deaf(type)
  /\ None \in posted => spc = "drain"
  /\ \A e \in queue : e.tag = None => spc = "drain"
  /\ refs = {call[t] : t \in Tag} \ {None}

\* Between the two programs: the call of a tag has been matched, and is
\* answered no earlier than its batch is completed.
Carried ==
  \A t \in Tag : call[t] # None =>
    \/ rpc[call[t]] = "matched"
    \/ rpc[call[t]] = "answered" /\ type[t] = "finish" /\ t \notin posted

\* The client's side: what main of client c holds, by where it is.
ClientAt(c) ==
  /\ cpc[c] = "start" => has[c] = {}
  /\ cpc[c] = "batch" => has[c] = Objects
  /\ cpc[c] = "cancelled" => has[c] \cap Objects \subseteq {"cq", "channel", "call"}
  /\ cpc[c] = "timed_out" => has[c] \subseteq Received
  /\ read[c] # "null" /\ (read[c] = "message" => rpc[c] = "answered")
  /\ cpc[c] \in {"drain", "succeeded"} => read[c] = "message"
  /\ cpc[c] = "drain" => has[c] \subseteq {"cq"} /\ outcome[c] = "ok"
  /\ cpc[c] = "succeeded" => has[c] = {} /\ outcome[c] = "ok"
  /\ cpc[c] = "failed" => has[c] = {}
  /\ cpc[c] \notin {"wait", "cancelled"} => todo[c] = {}
  /\ cpc[c] \in {"start", "batch"} => rpc[c] = "unsent"
  /\ outcome[c] = "ok" => rpc[c] = "answered"

ClientInv == ClientTypeOK /\ \A c \in Call : ClientAt(c)

IndInv == CoreTypeOK /\ ServerInv /\ Carried /\ ClientInv

-----------------------------------------------------------------------------
(***************************************************************************)
(* The heap of server.c.                                                   *)
(***************************************************************************)

\* A tag is free when a request has been matched: every allocated tag names a call
\* of its own, and there are more addresses than calls.
LEMMA RoomForAnswer ==
  ASSUME NEW ty, NEW cl, NEW po, NEW qu, Heap(ty, cl, po, qu),
         \A t \in Tag : ty[t] = "new_call" => cl[t] # None
  PROVE  \E t \in Tag : ty[t] = "free"
<1> SUFFICES ASSUME \A t \in Tag : ty[t] # "free"
             PROVE  FALSE
  OBVIOUS
<1>1. \A t \in Tag : cl[t] \in Call
  BY DEF Heap
<1> DEFINE f == [t \in Tag |-> cl[t]]
<1>2. f \in Injection(Tag, Call)
  <2>1. f \in [Tag -> Call]
    BY <1>1
  <2>2. \A s, t \in Tag : f[s] = f[t] => s = t
    BY <1>1, CoreAssumption DEF Heap
  <2> QED
    BY <2>1, <2>2 DEF Injection, IsInjective
<1>3. Cardinality(Tag) <= Cardinality(Call)
  BY <1>2, FS_Injection, CoreAssumption, TagAssumption
<1>4. Cardinality(Tag) \in Nat /\ Cardinality(Call) \in Nat
  BY FS_CardinalityType, CoreAssumption, TagAssumption
<1> QED
  BY <1>3, <1>4, TagAssumption

\* The address that calloc returns is free, if there is one.
LEMMA CallocFree ==
  ASSUME NEW ty, \E t \in Tag : ty[t] = "free"
  PROVE  Calloc(ty) \in Tag /\ ty[Calloc(ty)] = "free"
  BY DEF Calloc

\* request_new_call leaves one listener, or none if it was refused, and every
\* other tag as it was.
LEMMA Requested ==
  ASSUME NEW ty, NEW cl, NEW po, Heap(ty, cl, po, queue'), AllNamed(ty, po, queue'),
         Deaf(ty), \E t \in Tag : ty[t] = "free", RequestNewCall(ty, cl, po)
  PROVE  /\ Heap(type', call', posted', queue')
         /\ AllNamed(type', posted', queue')
         /\ deaf' \in BOOLEAN
         /\ IF ~deaf' THEN \E t \in Tag : OnlyListener(type', t) ELSE Deaf(type')
         /\ call' = cl
         /\ None \in posted' => None \in po
         /\ \A t \in Tag : cl[t] # None =>
              type'[t] = ty[t] /\ (t \in posted' => t \in po)
<1> DEFINE a == Calloc(ty)
<1>1. a \in Tag /\ ty[a] = "free" /\ cl[a] = None
  BY CallocFree DEF Heap
<1> HIDE DEF a
<1>2. CASE deaf' = TRUE /\ type' = ty /\ call' = cl /\ posted' = po
  BY <1>2
<1>3. CASE /\ type' = [ty EXCEPT ![a] = "new_call"] /\ call' = cl
           /\ posted' = po \cup {a} /\ deaf' = FALSE
  <2>1. /\ type'[a] = "new_call"
        /\ \A t \in Tag \ {a} : type'[t] = ty[t]
        /\ type' \in [Tag -> {"free", "new_call", "finish"}]
    BY <1>1, <1>3 DEF Heap
  <2>2. OnlyListener(type', a)
    BY <1>1, <2>1 DEF OnlyListener, Deaf
  <2>3. \A e \in queue' : e.tag # a
    BY <1>1, TagAssumption DEF Heap
  <2>4. Heap(type', call', posted', queue')
    BY <1>1, <1>3, <2>1, <2>3, TagAssumption DEF Heap
  <2>5. AllNamed(type', posted', queue')
    BY <1>1, <1>3, <2>1 DEF AllNamed
  <2>6. None \in posted' => None \in po
    BY <1>1, <1>3, TagAssumption
  <2> QED
    BY <1>1, <1>3, <2>1, <2>2, <2>4, <2>5, <2>6
<1> QED
  BY <1>2, <1>3 DEF RequestNewCall, a

\* Taking an event leaves the tag it names without a name, and no other.
LEMMA Taken ==
  ASSUME NEW e, Heap(type, call, posted, queue), Take(e)
  PROVE  /\ Heap(type, call, posted, queue')
         /\ e \in [tag : Tag \cup {None}, success : BOOLEAN]
         /\ e.tag \notin posted
         /\ \A d \in queue' : d.tag # e.tag
         /\ AllNamed(type, posted, queue) =>
              \A t \in Tag \ {e.tag} : type[t] # "free" =>
                t \in posted \/ \E d \in queue' : d.tag = t
<1>1. e \in queue /\ queue' = queue \ {e}
  BY DEF Take
<1>2. \A d \in queue : d # e => d.tag # e.tag
  BY <1>1 DEF Heap
<1>3. Heap(type, call, posted, queue')
  BY <1>1 DEF Heap
<1> QED
  BY <1>1, <1>2, <1>3 DEF Heap, AllNamed

\* Freeing a tag that nothing names leaves a heap.
LEMMA Freed ==
  ASSUME NEW t \in Tag, NEW qu, Heap(type, call, posted, qu),
         t \notin posted, \A e \in qu : e.tag # t
  PROVE  Heap([type EXCEPT ![t] = "free"], [call EXCEPT ![t] = None], posted, qu)
<1> DEFINE ty == [type EXCEPT ![t] = "free"]
           cl == [call EXCEPT ![t] = None]
<1>1. /\ ty[t] = "free" /\ cl[t] = None
      /\ \A s \in Tag \ {t} : ty[s] = type[s] /\ cl[s] = call[s]
      /\ ty \in [Tag -> {"free", "new_call", "finish"}]
      /\ cl \in [Tag -> Call \cup {None}]
  BY DEF Heap
<1> HIDE DEF ty, cl
<1>2. Heap(ty, cl, posted, qu)
  BY <1>1 DEF Heap
<1> QED
  BY <1>2 DEF ty, cl

\* handle_new_call hands the call from the tag of the request to the tag of the
\* answer; that one is outstanding, the other is free.
LEMMA Handed ==
  ASSUME NEW t \in Tag, NEW f \in Tag, NEW qu, Heap(type, call, posted, qu),
         t \notin posted, \A e \in qu : e.tag # t, call[t] # None,
         type[t] = "new_call", type[f] = "free"
  PROVE  /\ f # t
         /\ Heap([type EXCEPT ![f] = "finish", ![t] = "free"],
                 [call EXCEPT ![f] = call[t], ![t] = None], posted \cup {f}, qu)
<1> DEFINE ty == [type EXCEPT ![f] = "finish", ![t] = "free"]
           cl == [call EXCEPT ![f] = call[t], ![t] = None]
<1>1. /\ f # t
      /\ ty[t] = "free" /\ cl[t] = None /\ ty[f] = "finish" /\ cl[f] = call[t]
      /\ \A s \in Tag \ {t, f} : ty[s] = type[s] /\ cl[s] = call[s]
      /\ ty \in [Tag -> {"free", "new_call", "finish"}]
      /\ cl \in [Tag -> Call \cup {None}]
  BY DEF Heap
<1> HIDE DEF ty, cl
<1>2. \A e \in qu : e.tag # f
  BY TagAssumption DEF Heap
<1>3. \A s \in Tag : s # t => call[s] # call[t]
  BY DEF Heap
<1>4. Heap(ty, cl, posted \cup {f}, qu)
  <2>1. \A e \in qu : /\ e.tag \notin posted \cup {f}
                      /\ e.tag # None => ty[e.tag] # "free"
                      /\ e.tag # None /\ ty[e.tag] = "new_call" =>
                           (e.success <=> cl[e.tag] # None)
    BY <1>1, <1>2 DEF Heap
  <2>2. \A s \in Tag : /\ ty[s] = "free" => cl[s] = None
                       /\ ty[s] = "finish" => cl[s] # None
                       /\ s \in posted \cup {f} /\ ty[s] = "new_call" => cl[s] = None
                       /\ s \in posted \cup {f} => ty[s] # "free"
    BY <1>1, TagAssumption DEF Heap
  <2>3. \A r, s \in Tag : cl[r] = cl[s] => r = s \/ cl[r] = None
    BY <1>1, <1>3 DEF Heap
  <2>4. /\ \A s \in (posted \cup {f}) \ {None} : ty[s] # "free"
        /\ posted \cup {f} \subseteq Tag \cup {None}
    BY <2>2 DEF Heap
  <2> QED
    BY <1>1, <2>1, <2>2, <2>3, <2>4 DEF Heap
<1> QED
  BY <1>1, <1>4 DEF ty, cl

-----------------------------------------------------------------------------
(***************************************************************************)
(* The server.                                                             *)
(***************************************************************************)

\* main before its loop.
LEMMA StartKeeps ==
  ASSUME ServerInv, Carried, Start \/ StartFails, UNCHANGED rpc
  PROVE  ServerInv' /\ Carried'
<1>1. CASE StartFails
  BY <1>1 DEF StartFails, ServerInv, Carried, AllNamed
<1>2. CASE Start
  <2>1. /\ Heap(type, call, posted, queue') /\ AllNamed(type, posted, queue')
        /\ Deaf(type) /\ refs' = refs /\ RequestNewCall(type, call, posted)
    BY <1>2 DEF Start, ServerInv, AllNamed, Deaf
  <2>2. \E t \in Tag : type[t] = "free"
    <3>1. Cardinality(Tag) \in Nat /\ Cardinality(Call) \in Nat
      BY FS_CardinalityType, CoreAssumption, TagAssumption
    <3>2. Tag # {}
      BY <3>1, FS_EmptySet, TagAssumption
    <3> QED
      BY <1>2, <3>2 DEF Start, ServerInv
  <2>3. /\ Heap(type', call', posted', queue') /\ AllNamed(type', posted', queue')
        /\ deaf' \in BOOLEAN
        /\ IF ~deaf' THEN \E t \in Tag : OnlyListener(type', t) ELSE Deaf(type')
        /\ call' = call /\ (None \in posted' => None \in posted)
        /\ \A t \in Tag : call[t] # None =>
             type'[t] = type[t] /\ (t \in posted' => t \in posted)
    BY <2>1, <2>2, Requested
  <2>4. Carried'
    BY <2>3 DEF Carried
  <2>5. ServerInv'
    BY <1>2, <2>1, <2>3 DEF Start, ServerInv
  <2> QED
    BY <2>4, <2>5
<1> QED
  BY <1>1, <1>2

\* The event of a matched request.
LEMMA NextNewCallKeeps ==
  ASSUME ServerInv, Carried, NEW e, NextNewCall(e), UNCHANGED rpc
  PROVE  ServerInv' /\ Carried'
<1> DEFINE t == e.tag
<1>1. /\ Heap(type, call, posted, queue') /\ t \notin posted
      /\ \A d \in queue' : d.tag # t
      /\ e \in [tag : Tag \cup {None}, success : BOOLEAN]
      /\ \A s \in Tag \ {t} : type[s] # "free" =>
           s \in posted \/ \E d \in queue' : d.tag = s
  BY Taken DEF NextNewCall, ServerInv
<1>2. t \in Tag /\ type[t] = "new_call" /\ call[t] \in Call /\ call[t] # None
      /\ rpc[call[t]] = "matched"
  <2>1. t \in Tag /\ type[t] = "new_call" /\ e.success /\ e \in queue
    BY <1>1 DEF NextNewCall, Take, ServerInv
  <2>2. call[t] # None
    BY <2>1, TagAssumption DEF ServerInv, Heap
  <2> QED
    BY <2>1, <2>2 DEF ServerInv, Heap, Carried
<1>3. /\ spc = "loop" /\ spc' = "loop" /\ held' = held /\ ~deaf
      /\ queue' \subseteq queue /\ OnlyListener(type, t)
  BY <1>2 DEF NextNewCall, Take, ServerInv, Deaf, OnlyListener
<1>4. None \notin posted /\ \A d \in queue' : d.tag # None
  BY <1>3 DEF ServerInv
<1>5. refs = {call[s] : s \in Tag} \ {None} /\ call \in [Tag -> Call \cup {None}]
      /\ type \in [Tag -> {"free", "new_call", "finish"}]
  BY DEF ServerInv, Heap
<1> HIDE DEF t
<1>6. ASSUME NEW ty, NEW cl, NEW po, Heap(ty, cl, po, queue'), AllNamed(ty, po, queue'),
             Deaf(ty), ty[t] = "free", None \notin po, RequestNewCall(ty, cl, po),
             refs' = {cl[s] : s \in Tag} \ {None},
             \A s \in Tag : cl[s] # None =>
               \/ rpc[cl[s]] = "matched"
               \/ rpc[cl[s]] = "answered" /\ ty[s] = "finish" /\ s \notin po
      PROVE  ServerInv' /\ Carried'
  <2>1. /\ Heap(type', call', posted', queue') /\ AllNamed(type', posted', queue')
        /\ deaf' \in BOOLEAN
        /\ IF ~deaf' THEN \E s \in Tag : OnlyListener(type', s) ELSE Deaf(type')
        /\ call' = cl /\ (None \in posted' => None \in po)
        /\ \A s \in Tag : cl[s] # None =>
             type'[s] = ty[s] /\ (s \in posted' => s \in po)
    BY <1>2, <1>6, Requested
  <2>2. Carried'
    BY <1>6, <2>1 DEF Carried
  <2>3. ServerInv'
    BY <1>3, <1>4, <1>6, <2>1 DEF ServerInv
  <2> QED
    BY <2>2, <2>3
<1>7. CASE \* the batch is started
      /\ RequestNewCall([type EXCEPT ![Calloc(type)] = "finish", ![t] = "free"],
                        [call EXCEPT ![Calloc(type)] = call[t], ![t] = None],
                        posted \cup {Calloc(type)})
      /\ UNCHANGED refs
  <2> DEFINE f == Calloc(type)
             ty == [type EXCEPT ![f] = "finish", ![t] = "free"]
             cl == [call EXCEPT ![f] = call[t], ![t] = None]
             po == posted \cup {f}
  <2>1. f \in Tag /\ type[f] = "free"
    <3>1. \A s \in Tag : type[s] = "new_call" => call[s] # None
      BY <1>2, <1>3 DEF OnlyListener
    <3> QED
      BY <1>1, <3>1, RoomForAnswer, CallocFree
  <2> HIDE DEF f
  <2>2. f # t /\ Heap(ty, cl, po, queue')
    BY <1>1, <1>2, <2>1, Handed
  <2>3. /\ ty[t] = "free" /\ cl[t] = None /\ ty[f] = "finish" /\ cl[f] = call[t]
        /\ \A s \in Tag \ {t, f} : ty[s] = type[s] /\ cl[s] = call[s]
    BY <1>2, <1>5, <2>1, <2>2
  <2>4. call[f] = None
    BY <2>1 DEF ServerInv, Heap
  <2>5. RequestNewCall(ty, cl, po) /\ refs' = refs
    BY <1>7 DEF f
  <2> HIDE DEF ty, cl
  <2>6. AllNamed(ty, po, queue')
    BY <1>1, <2>1, <2>3 DEF AllNamed
  <2>7. Deaf(ty)
    BY <1>3, <2>1, <2>3 DEF Deaf, OnlyListener
  <2>8. \A c : c \in {cl[s] : s \in Tag} \ {None} <=> c \in {call[s] : s \in Tag} \ {None}
    BY <1>2, <2>1, <2>3, <2>4
  <2>9. refs' = {cl[s] : s \in Tag} \ {None}
    BY <1>5, <2>5, <2>8
  <2>10. \A s \in Tag : cl[s] # None =>
           \/ rpc[cl[s]] = "matched"
           \/ rpc[cl[s]] = "answered" /\ ty[s] = "finish" /\ s \notin po
    BY <1>2, <2>1, <2>3 DEF Carried
  <2>11. None \notin po
    BY <1>4, <2>1, TagAssumption
  <2> HIDE DEF po
  <2> QED
    BY <1>6, <2>2, <2>3, <2>5, <2>6, <2>7, <2>9, <2>10, <2>11
<1>8. CASE \* grpc_call_start_batch failed
      /\ RequestNewCall([type EXCEPT ![t] = "free"], [call EXCEPT ![t] = None], posted)
      /\ refs' = refs \ {call[t]}
  <2> DEFINE ty == [type EXCEPT ![t] = "free"]
             cl == [call EXCEPT ![t] = None]
  <2>1. Heap(ty, cl, posted, queue')
    BY <1>1, <1>2, Freed
  <2>2. /\ ty[t] = "free" /\ cl[t] = None
        /\ \A s \in Tag \ {t} : ty[s] = type[s] /\ cl[s] = call[s]
    BY <1>2, <1>5
  <2>3. RequestNewCall(ty, cl, posted) /\ refs' = refs \ {call[t]}
    BY <1>8
  <2> HIDE DEF ty, cl
  <2>4. AllNamed(ty, posted, queue')
    BY <1>1, <2>2 DEF AllNamed
  <2>5. Deaf(ty)
    BY <1>3, <2>2 DEF Deaf, OnlyListener
  <2>6. \A s \in Tag : s # t => call[s] # call[t]
    BY <1>2 DEF ServerInv, Heap
  <2>7. \A c : c \in {cl[s] : s \in Tag} \ {None}
                 <=> c \in ({call[s] : s \in Tag} \ {None}) \ {call[t]}
    BY <1>2, <2>2, <2>6
  <2>8. refs' = {cl[s] : s \in Tag} \ {None}
    BY <1>5, <2>3, <2>7
  <2>9. \A s \in Tag : cl[s] # None =>
          \/ rpc[cl[s]] = "matched"
          \/ rpc[cl[s]] = "answered" /\ ty[s] = "finish" /\ s \notin posted
    BY <1>2, <2>2 DEF Carried
  <2> QED
    BY <1>4, <1>6, <2>1, <2>2, <2>3, <2>4, <2>5, <2>8, <2>9
<1> QED
  BY <1>7, <1>8 DEF NextNewCall, HandleNewCall, t

\* A tag whose event has been taken is freed: the only listener, and main leaves
\* its loop, or the tag of an answer, with its call.
LEMMA NextFreeKeeps ==
  ASSUME ServerInv, Carried, NEW e, NextRefused(e) \/ NextFinish(e), UNCHANGED rpc
  PROVE  ServerInv' /\ Carried'
<1> DEFINE t == e.tag
<1>1. /\ Heap(type, call, posted, queue') /\ t \notin posted
      /\ \A d \in queue' : d.tag # t
      /\ e \in [tag : Tag \cup {None}, success : BOOLEAN] /\ e \in queue
      /\ \A s \in Tag \ {t} : type[s] # "free" =>
           s \in posted \/ \E d \in queue' : d.tag = s
  BY Taken DEF NextRefused, NextFinish, Take, ServerInv
<1>2. t \in Tag /\ spc = "loop" /\ Free(t) /\ queue' \subseteq queue
      /\ posted' = posted /\ held' = held /\ deaf' = deaf
  BY <1>1 DEF NextRefused, NextFinish, Take, ServerInv
<1>3. Heap(type', call', posted', queue')
  BY <1>1, <1>2, Freed DEF Free
<1>4. /\ type'[t] = "free" /\ call'[t] = None
      /\ \A s \in Tag \ {t} : type'[s] = type[s] /\ call'[s] = call[s]
  BY <1>2 DEF Free, ServerInv, Heap
<1>5. Carried'
  BY <1>2, <1>4 DEF Carried
<1>6. refs = {call[s] : s \in Tag} \ {None}
  BY DEF ServerInv
<1>7. None \notin posted' /\ \A d \in queue' : d.tag # None
  BY <1>2 DEF ServerInv
<1>8. CASE NextRefused(e)
  <2>1. call[t] = None /\ type[t] = "new_call" /\ spc' = "shutdown" /\ refs' = refs
    BY <1>1, <1>2, <1>8, TagAssumption DEF NextRefused, ServerInv, Heap
  <2>2. OnlyListener(type, t)
    BY <1>2, <2>1 DEF ServerInv, Deaf, OnlyListener
  <2>3. Deaf(type')
    BY <1>4, <2>2 DEF Deaf, OnlyListener
  <2>4. \A c : c \in {call'[s] : s \in Tag} \ {None} <=> c \in {call[s] : s \in Tag} \ {None}
    BY <1>2, <1>4, <2>1
  <2>5. refs' = {call'[s] : s \in Tag} \ {None}
    BY <1>6, <2>1, <2>4
  <2>6. ServerInv'
    BY <1>2, <1>3, <1>7, <2>1, <2>3, <2>5 DEF ServerInv
  <2> QED
    BY <1>5, <2>6
<1>9. CASE NextFinish(e)
  <2>1. type[t] = "finish" /\ call[t] # None /\ spc' = spc /\ refs' = refs \ {call[t]}
    BY <1>2, <1>9 DEF NextFinish, ServerInv, Heap
  <2>2. \A s \in Tag : s # t => call[s] # call[t]
    BY <1>2, <2>1 DEF ServerInv, Heap
  <2>3. \A c : c \in {call'[s] : s \in Tag} \ {None}
                 <=> c \in ({call[s] : s \in Tag} \ {None}) \ {call[t]}
    BY <1>2, <1>4, <2>1, <2>2
  <2>4. refs' = {call'[s] : s \in Tag} \ {None}
    BY <1>6, <2>1, <2>3
  <2>5. \A s \in Tag : type'[s] = "new_call" <=> type[s] = "new_call"
    BY <1>4, <2>1
  <2>6. IF spc' = "loop" /\ ~deaf' THEN \E s \in Tag : OnlyListener(type', s)
                                   ELSE Deaf(type')
    BY <1>2, <2>1, <2>5 DEF ServerInv, OnlyListener, Deaf
  <2>7. AllNamed(type', posted', queue')
    BY <1>1, <1>2, <1>4 DEF AllNamed
  <2>8. ServerInv'
    BY <1>2, <1>3, <1>7, <2>1, <2>4, <2>6, <2>7 DEF ServerInv
  <2> QED
    BY <1>5, <2>8
<1> QED
  BY <1>8, <1>9

\* main after its loop.
LEMMA EndKeeps ==
  ASSUME ServerInv, Carried, Shutdown \/ Destroy \/ (\E e \in queue : Drain(e)),
         UNCHANGED rpc
  PROVE  ServerInv' /\ Carried'
<1>1. CASE Shutdown
  <2>1. Heap(type', call', posted', queue')
    <3>1. \A e \in queue : e.tag # None
      BY <1>1 DEF Shutdown, ServerInv
    <3> QED
      BY <1>1, <3>1, TagAssumption DEF Shutdown, ServerInv, Heap
  <2>2. Carried'
    BY <1>1, TagAssumption DEF Shutdown, Carried
  <2> QED
    BY <1>1, <2>1, <2>2 DEF Shutdown, ServerInv, Deaf
<1>2. CASE Destroy
  BY <1>2 DEF Destroy, ServerInv, Carried, Deaf
<1>3. ASSUME NEW e \in queue, Drain(e)
      PROVE  ServerInv' /\ Carried'
  <2>1. Heap(type, call, posted, queue') /\ queue' \subseteq queue
    BY <1>3, Taken DEF Drain, Take, ServerInv
  <2> QED
    BY <1>3, <2>1 DEF Drain, ServerInv, Carried, Deaf
<1> QED
  BY <1>1, <1>2, <1>3

\* Every step of server.c.
LEMMA ServerKeeps ==
  ASSUME ServerInv, Carried, ServerStep \/ StartFails, UNCHANGED rpc
  PROVE  ServerInv' /\ Carried'
  BY StartKeeps, NextNewCallKeeps, NextFreeKeeps, EndKeeps DEF ServerStep

-----------------------------------------------------------------------------
(***************************************************************************)
(* The library on the server's side.                                       *)
(***************************************************************************)

\* An operation that is completed becomes an event that names the same tag.
LEMMA Completed ==
  ASSUME NEW t \in posted, NEW b \in BOOLEAN, Heap(type, call, posted, queue),
         NEW cl \in [Tag -> Call \cup {None}], Complete(t, b),
         \A s \in Tag : s # t => cl[s] = call[s],
         t # None => \/ cl[t] = call[t] /\ (type[t] = "new_call" => ~b)
                     \/ type[t] = "new_call" /\ b /\ cl[t] # None /\ cl[t] \notin refs,
         refs = {call[s] : s \in Tag} \ {None}
  PROVE  /\ Heap(type, cl, posted', queue')
         /\ AllNamed(type, posted, queue) => AllNamed(type, posted', queue')
<1> DEFINE e == [tag |-> t, success |-> b]
<1>1. posted' = posted \ {t} /\ queue' = queue \cup {e}
  BY DEF Complete
<1>2. t \in Tag \cup {None} /\ e \in [tag : Tag \cup {None}, success : BOOLEAN]
      /\ e.tag = t /\ e.success = b
  BY DEF Heap
<1> HIDE DEF e
<1>3. \A d \in queue : d.tag # t
  BY DEF Heap
<1>4. \A d1, d2 \in queue' : d1.tag = d2.tag => d1 = d2
  BY <1>1, <1>2, <1>3 DEF Heap
<1>5. \A d \in queue' : /\ d.tag \notin posted'
                        /\ d.tag # None => type[d.tag] # "free"
  BY <1>1, <1>2, <1>3 DEF Heap
<1>6. \A d \in queue' : d.tag # None /\ type[d.tag] = "new_call" =>
                          (d.success <=> cl[d.tag] # None)
  BY <1>1, <1>2, <1>3 DEF Heap
<1>7. \A s \in Tag : s # t => cl[t] # cl[s] \/ cl[s] = None \/ t = None
  BY DEF Heap
<1>8. \A r, s \in Tag : cl[r] = cl[s] => r = s \/ cl[r] = None
  BY <1>7, TagAssumption DEF Heap
<1>9. \A s \in Tag : /\ type[s] = "free" => cl[s] = None
                     /\ type[s] = "finish" => cl[s] # None
                     /\ s \in posted' /\ type[s] = "new_call" => cl[s] = None
  BY <1>1, TagAssumption DEF Heap
<1>10. Heap(type, cl, posted', queue')
  BY <1>1, <1>2, <1>4, <1>5, <1>6, <1>8, <1>9 DEF Heap
<1>11. AllNamed(type, posted, queue) => AllNamed(type, posted', queue')
  BY <1>1, <1>2 DEF AllNamed
<1> QED
  BY <1>10, <1>11

\* Every step of the library for the server.  It takes no answer back, and concerns
\* no call that has not been sent.
LEMMA CoreKeeps ==
  ASSUME CoreTypeOK, ServerInv, Carried, ServerCore
  PROVE  /\ CoreTypeOK' /\ ServerInv' /\ Carried'
         /\ \A c \in Call : /\ rpc[c] = "answered" => rpc'[c] = "answered"
                            /\ rpc[c] = "unsent" => rpc'[c] = "unsent"
<1>1. Heap(type, call, posted, queue) /\ refs = {call[s] : s \in Tag} \ {None}
      /\ call \in [Tag -> Call \cup {None}] /\ posted \subseteq Tag \cup {None}
  BY DEF ServerInv, Heap
<1>2. ASSUME NEW t \in posted \ {None}, NEW c \in Call, MatchCall(c, t)
      PROVE  /\ CoreTypeOK' /\ ServerInv' /\ Carried'
             /\ \A d \in Call : /\ rpc[d] = "answered" => rpc'[d] = "answered"
                                /\ rpc[d] = "unsent" => rpc'[d] = "unsent"
  <2>1. t \in Tag /\ type[t] = "new_call" /\ rpc[c] = "sent" /\ c # None
    BY <1>1, <1>2, CoreAssumption DEF MatchCall
  <2>2. c \notin refs
    BY <1>1, <2>1 DEF Carried
  <2>3. /\ call' \in [Tag -> Call \cup {None}] /\ call'[t] = c
        /\ \A s \in Tag : s # t => call'[s] = call[s]
    BY <1>1, <1>2, <2>1 DEF MatchCall
  <2>4. Complete(t, TRUE) /\ type' = type /\ spc' = spc /\ held' = held /\ deaf' = deaf
        /\ refs' = refs \cup {c} /\ rpc' = [rpc EXCEPT ![c] = "matched"]
    BY <1>2 DEF MatchCall, Advance
  <2>5. /\ Heap(type, call', posted', queue')
        /\ AllNamed(type, posted, queue) => AllNamed(type, posted', queue')
    BY <1>1, <2>1, <2>2, <2>3, <2>4, Completed
  <2>6. posted' \subseteq posted /\ \A e \in queue' : e.tag = t \/ e \in queue
    BY <2>4 DEF Complete
  <2>7. call[t] = None
    BY <1>1, <2>1 DEF Heap
  <2>8. \A d : d \in {call'[s] : s \in Tag} \ {None}
                 <=> d \in ({call[s] : s \in Tag} \ {None}) \cup {c}
    BY <2>1, <2>3, <2>7
  <2>9. refs' = {call'[s] : s \in Tag} \ {None}
    BY <1>1, <2>4, <2>8
  <2>10. ServerInv'
    BY <2>1, <2>4, <2>5, <2>6, <2>9, TagAssumption DEF ServerInv, Deaf, OnlyListener
  <2>11. CoreTypeOK' /\ rpc'[c] = "matched" /\ \A d \in Call \ {c} : rpc'[d] = rpc[d]
    BY <2>4 DEF CoreTypeOK, Progress
  <2>12. \A s \in Tag : s # t /\ call[s] # None => call[s] \in Call \ {c}
    BY <1>1, <2>2
  <2>13. Carried'
    BY <2>3, <2>4, <2>6, <2>11, <2>12 DEF Carried
  <2> QED
    BY <2>1, <2>10, <2>11, <2>13
<1>3. ASSUME NEW t \in posted \ {None}, FailRequest(t)
      PROVE  ServerInv' /\ Carried' /\ rpc' = rpc
  <2>1. t \in Tag /\ type[t] = "new_call" /\ Complete(t, FALSE)
        /\ UNCHANGED <<rpc, spc, type, call, refs, held, deaf>>
    BY <1>1, <1>3 DEF FailRequest
  <2>2. /\ Heap(type, call, posted', queue')
        /\ AllNamed(type, posted, queue) => AllNamed(type, posted', queue')
    BY <1>1, <2>1, Completed
  <2>3. posted' \subseteq posted /\ \A e \in queue' : e.tag = t \/ e \in queue
    BY <2>1 DEF Complete
  <2>4. ServerInv'
    BY <2>1, <2>2, <2>3, TagAssumption DEF ServerInv, Deaf, OnlyListener
  <2> QED
    BY <2>1, <2>3, <2>4 DEF Carried
<1>4. ASSUME NEW t \in posted \ {None}, NEW b \in BOOLEAN, BatchDone(t, b)
      PROVE  /\ CoreTypeOK' /\ ServerInv' /\ Carried'
             /\ \A d \in Call : /\ rpc[d] = "answered" => rpc'[d] = "answered"
                                /\ rpc[d] = "unsent" => rpc'[d] = "unsent"
  <2> DEFINE c == call[t]
  <2>1. t \in Tag /\ type[t] = "finish" /\ Complete(t, b)
        /\ UNCHANGED <<spc, type, call, refs, held, deaf>>
        /\ rpc' = [rpc EXCEPT ![c] = IF b THEN "answered" ELSE "matched"]
    BY <1>1, <1>4 DEF BatchDone, Advance
  <2>2. c \in Call /\ c # None /\ rpc[c] = "matched"
    BY <1>1, <2>1 DEF Heap, Carried
  <2>3. /\ Heap(type, call, posted', queue')
        /\ AllNamed(type, posted, queue) => AllNamed(type, posted', queue')
    BY <1>1, <2>1, Completed
  <2>4. posted' = posted \ {t} /\ \A e \in queue' : e.tag = t \/ e \in queue
    BY <2>1 DEF Complete
  <2>5. ServerInv'
    BY <2>1, <2>3, <2>4, TagAssumption DEF ServerInv, Deaf, OnlyListener
  <2>6. CoreTypeOK' /\ rpc'[c] \in {"matched", "answered"}
        /\ \A d \in Call \ {c} : rpc'[d] = rpc[d]
    BY <2>1, <2>2 DEF CoreTypeOK, Progress
  <2>7. \A s \in Tag : s # t /\ call[s] # None => call[s] \in Call \ {c}
    BY <1>1, <2>1 DEF Heap
  <2>8. Carried'
    BY <2>1, <2>4, <2>6, <2>7 DEF Carried
  <2> QED
    BY <2>2, <2>5, <2>6, <2>8
<1>5. ASSUME ShutdownDone
      PROVE  ServerInv' /\ Carried' /\ rpc' = rpc
  <2>1. posted = {None} /\ Complete(None, TRUE) /\ spc = "drain"
        /\ UNCHANGED <<rpc, spc, type, call, refs, held, deaf>>
    BY <1>5 DEF ShutdownDone, ServerInv
  <2>2. Heap(type, call, posted', queue')
    BY <1>1, <2>1, Completed
  <2>3. posted' = {}
    BY <2>1 DEF Complete
  <2>4. ServerInv'
    BY <2>1, <2>2, <2>3 DEF ServerInv, Deaf
  <2> QED
    BY <2>1, <2>3, <2>4 DEF Carried
<1> QED
  BY <1>2, <1>3, <1>4, <1>5 DEF ServerCore, Completion, CoreTypeOK

-----------------------------------------------------------------------------
(***************************************************************************)
(* A client.                                                               *)
(***************************************************************************)

\* What a stage has created is all there is to release, and what it releases
\* when the next object cannot be created is all of that.
LEMMA Creation == /\ Created(4) = Objects
                  /\ \A n \in 1..4 : Created(n - 1) \ ReleasedAt(n) = {}
<1>1. /\ CreationOrder[1] = "cq" /\ CreationOrder[2] = "channel"
      /\ CreationOrder[3] = "call" /\ CreationOrder[4] = "payload"
  BY DEF CreationOrder
<1>2. 1..0 = {} /\ 1..1 = {1} /\ 1..2 = {1, 2} /\ 1..3 = {1, 2, 3} /\ 1..4 = {1, 2, 3, 4}
  OBVIOUS
<1>3. /\ Created(0) = {} /\ Created(1) = {"cq"} /\ Created(2) = {"cq", "channel"}
      /\ Created(3) = {"cq", "channel", "call"} /\ Created(4) = Objects
  BY <1>1, <1>2 DEF Created, Objects
<1>4. /\ ReleasedAt(2) = {"cq"} /\ ReleasedAt(3) = {"channel", "cq"}
      /\ ReleasedAt(4) = {"call", "channel", "cq"}
  BY DEF ReleasedAt
<1>5. ASSUME NEW n \in 1..4
      PROVE  Created(n - 1) \ ReleasedAt(n) = {}
  <2>1. CASE n = 1
    BY <1>3, <2>1
  <2>2. CASE n = 2
    BY <1>3, <1>4, <2>2
  <2>3. CASE n = 3
    BY <1>3, <1>4, <2>3
  <2>4. CASE n = 4
    BY <1>3, <1>4, <2>4
  <2> QED
    BY <1>2, <2>1, <2>2, <2>3, <2>4
<1> QED
  BY <1>3, <1>5

\* A step of client c, or of the library for it, concerns no other client; the
\* network hears of it only when the batch is started.
LEMMA ClientKeeps ==
  ASSUME CoreTypeOK, ClientInv, NEW c \in Call, ClientStep(c) \/ ClientCore(c)
  PROVE  /\ CoreTypeOK' /\ ClientInv'
         /\ rpc' = rpc \/ (rpc[c] = "unsent" /\ rpc' = [rpc EXCEPT ![c] = "sent"])
<1> USE DEF CoreTypeOK, Progress, ClientInv, ClientTypeOK, Stages, Returned
<1>1. ASSUME ClientAt(c)',
             \A d \in Call \ {c} : /\ cpc'[d] = cpc[d] /\ has'[d] = has[d]
                                   /\ todo'[d] = todo[d] /\ outcome'[d] = outcome[d]
                                   /\ read'[d] = read[d] /\ rpc'[d] = rpc[d],
             ClientTypeOK', CoreTypeOK'
      PROVE  CoreTypeOK' /\ ClientInv'
  <2>1. \A d \in Call \ {c} : ClientAt(d)'
    BY <1>1 DEF ClientAt
  <2> QED
    BY <1>1, <2>1
<1> USE DEF Go, Goto, Return, Release
<1>2. CASE Prepare(c)
  BY <1>1, <1>2, Creation DEF Prepare, ClientAt, Objects
<1>3. CASE PrepareFails(c)
  <2>1. has' = [has EXCEPT ![c] = {}]
    BY <1>3, Creation DEF PrepareFails
  <2> QED
    BY <1>1, <1>3, <2>1 DEF PrepareFails, ClientAt
<1>4. CASE StartBatch(c)
  BY <1>1, <1>4 DEF StartBatch, Advance, ClientAt
<1>5. CASE StartBatchFails(c)
  BY <1>1, <1>5 DEF StartBatchFails, ReleaseUnread, ClientAt
<1>6. CASE WaitTimesOut(c)
  BY <1>1, <1>6 DEF WaitTimesOut, ClientAt, Objects, Received
<1>7. CASE ReturnTimedOut(c)
  BY <1>1, <1>7 DEF ReturnTimedOut, ClientAt, Objects, Received
<1>8. CASE TakeCompletion(c)
  BY <1>1, <1>8 DEF TakeCompletion, ClientAt
<1>9. CASE CheckFails(c)
  BY <1>1, <1>9 DEF CheckFails, ReleaseAll, ClientAt
<1>10. CASE CheckPasses(c)
  BY <1>1, <1>10 DEF CheckPasses, Unpack, Usable, ClientAt, Objects
<1>10a. CASE UnpackFails(c)
  BY <1>1, <1>10a DEF UnpackFails, Unpack, Usable, ReleaseAll, ClientAt
<1>11. CASE DrainClient(c)
  BY <1>1, <1>11 DEF DrainClient, ClientAt
<1> USE DEF Flying, Receive, Received, Objects
<1>12. CASE RecvInitial(c)
  BY <1>1, <1>12 DEF RecvInitial, ClientAt
<1>13. CASE RecvMessage(c)
  BY <1>1, <1>13 DEF RecvMessage, ClientAt
<1>14. ASSUME NEW o \in {"bad", "ok"}, RecvStatus(c, o)
       PROVE  CoreTypeOK' /\ ClientInv' /\ rpc' = rpc
  BY <1>1, <1>14 DEF RecvStatus, ClientAt
<1> QED
  BY <1>2, <1>3, <1>4, <1>5, <1>6, <1>7, <1>8, <1>9, <1>10, <1>11, <1>12, <1>13, <1>14, <1>10a
     DEF ClientStep, ClientCore

-----------------------------------------------------------------------------
(***************************************************************************)
(* Both programs.                                                          *)
(***************************************************************************)

\* Nothing is allocated, asked for or created yet.
LEMMA InitIndInv == Init => IndInv
<1> SUFFICES ASSUME Init
             PROVE  IndInv
  OBVIOUS
<1> USE DEF Init, CoreInit, ServerInit, ClientInit
<1>1. CoreTypeOK
  BY DEF CoreTypeOK, Progress
<1>2. ServerInv /\ Carried
  BY DEF ServerInv, Carried, Heap, Deaf
<1>3. ClientInv
  BY DEF ClientInv, ClientTypeOK, ClientAt, Stages, Returned
<1> QED
  BY <1>1, <1>2, <1>3 DEF IndInv

\* A step of one program leaves the other's part of the invariant alone, and what
\* the network says in between true.
LEMMA NextIndInv == IndInv /\ [Next]_vars => IndInv'
<1> SUFFICES ASSUME IndInv, [Next]_vars
             PROVE  IndInv'
  OBVIOUS
<1>1. CoreTypeOK /\ ServerInv /\ Carried /\ ClientInv
  BY DEF IndInv
<1>2. CASE Server
  <2>1. ServerInv' /\ Carried'
    BY <1>1, <1>2, ServerKeeps DEF Server
  <2>2. CoreTypeOK' /\ ClientInv'
    BY <1>1, <1>2 DEF Server, clientVars, CoreTypeOK, ClientInv, ClientTypeOK, ClientAt
  <2> QED
    BY <2>1, <2>2 DEF IndInv
<1>3. CASE Core
  <2>1. /\ CoreTypeOK' /\ ServerInv' /\ Carried'
        /\ \A c \in Call : /\ rpc[c] = "answered" => rpc'[c] = "answered"
                           /\ rpc[c] = "unsent" => rpc'[c] = "unsent"
    BY <1>1, <1>3, CoreKeeps DEF Core
  <2>2. ClientInv'
    BY <1>1, <1>3, <2>1 DEF Core, clientVars, ClientInv, ClientTypeOK, ClientAt
  <2> QED
    BY <2>1, <2>2 DEF IndInv
<1>4. CASE Client
  <2>1. PICK c \in Call : ClientStep(c) \/ ClientCore(c)
    BY <1>4 DEF Client
  <2>2. /\ CoreTypeOK' /\ ClientInv'
        /\ rpc' = rpc \/ (rpc[c] = "unsent" /\ rpc' = [rpc EXCEPT ![c] = "sent"])
    BY <1>1, <2>1, ClientKeeps
  <2>3. UNCHANGED serverVars
    BY <1>4 DEF Client
  <2>4. ServerInv'
    BY <1>1, <2>3 DEF serverVars, ServerInv
  <2>5. \A d \in Call : rpc[d] \in {"matched", "answered"} => rpc'[d] = rpc[d]
    BY <1>1, <2>2 DEF CoreTypeOK
  <2>6. Carried'
    BY <1>1, <2>3, <2>5 DEF serverVars, Carried, ServerInv, Heap
  <2> QED
    BY <2>2, <2>4, <2>6 DEF IndInv
<1>5. CASE UNCHANGED vars
  <2>1. CoreTypeOK' /\ ServerInv' /\ Carried'
    BY <1>1, <1>5 DEF vars, serverVars, CoreTypeOK, ServerInv, Carried
  <2>2. ClientInv'
    BY <1>1, <1>5 DEF vars, clientVars, ClientInv, ClientTypeOK, ClientAt
  <2> QED
    BY <2>1, <2>2 DEF IndInv
<1> QED
  BY <1>2, <1>3, <1>4, <1>5 DEF Next

\* The invariant holds throughout.
LEMMA Invariance == Spec => []IndInv
  BY InitIndInv, NextIndInv, PTL DEF Spec

\* The tags of server.c are never used after they are freed, freed twice or lost
\* while main is in its loop, one request at most is out, and a call is
\* unreferenced exactly once.
THEOREM TagsAreOwned == Spec => []TagsOwned
<1>1. IndInv => TagsOwned
  <2> SUFFICES ASSUME IndInv
               PROVE  TagsOwned
    OBVIOUS
  <2>1. ServerInv /\ Heap(type, call, posted, queue)
    BY DEF IndInv, ServerInv
  <2>2. refs = {call[t] : t \in Tag} \ {None}
    BY <2>1 DEF ServerInv
  <2>3. \A t \in Tag : type[t] = "free" => call[t] = None
    BY <2>1 DEF Heap
  <2>4. TypeOK
    BY <2>1, <2>2 DEF IndInv, ServerInv, ClientInv, TypeOK, ServerTypeOK, Heap
  <2>5. InFlight \subseteq Live
    BY <2>1 DEF InFlight, Live, Heap
  <2>6. spc = "loop" => Live \subseteq InFlight
    BY <2>1, TagAssumption DEF InFlight, Live, ServerInv, AllNamed
  <2>7. Cardinality(Listening) = IF spc = "loop" /\ ~deaf THEN 1 ELSE 0
    <3>1. CASE spc = "loop" /\ ~deaf
      <4>1. PICK t \in Tag : OnlyListener(type, t)
        BY <2>1, <3>1 DEF ServerInv
      <4>2. Listening = {t}
        BY <4>1 DEF Listening, OnlyListener
      <4> QED
        BY <3>1, <4>2, FS_Singleton
    <3>2. CASE ~(spc = "loop" /\ ~deaf)
      <4>1. Listening = {}
        BY <2>1, <3>2 DEF ServerInv, Deaf, Listening
      <4> QED
        BY <3>2, <4>1, FS_EmptySet
    <3> QED
      BY <3>1, <3>2
  <2>8. refs = {call[t] : t \in Live} \ {None}
    BY <2>2, <2>3 DEF Live
  <2>9. /\ \A e1, e2 \in queue : e1.tag = e2.tag => e1 = e2
        /\ \A e \in queue : e.tag \notin posted
        /\ \A t1, t2 \in Live : call[t1] = call[t2] => t1 = t2 \/ call[t1] = None
    BY <2>1 DEF Heap, Live
  <2> QED
    BY <2>4, <2>5, <2>6, <2>7, <2>8, <2>9 DEF TagsOwned
<1> QED
  BY <1>1, Invariance, PTL

\* Every path of client.c releases what it created and received, but for a call
\* that timed out.
THEOREM ClientsRelease == Spec => []NothingKept
<1>1. IndInv => NothingKept
  BY DEF IndInv, ClientInv, ClientAt, NothingKept, Returned
<1> QED
  BY <1>1, Invariance, PTL

\* A client unpacks a message the library delivered, never NULL, and only when the
\* server has answered its own call; without it it does not report success.
THEOREM SuccessMeansAnswered == Spec => []SuccessIsAnswered
<1>1. IndInv => SuccessIsAnswered
  BY DEF IndInv, ClientInv, ClientAt, SuccessIsAnswered
<1> QED
  BY <1>1, Invariance, PTL
=============================================================================
