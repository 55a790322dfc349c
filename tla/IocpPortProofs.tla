--------------------------- MODULE IocpPortProofs ---------------------------
(***************************************************************************)
(* Lemmas about the completion port and the overlapped operations of       *)
(* IocpPort, on which the proofs about the echo servers rest: which IoData *)
(* a step moves, and how many packets end a worker.                        *)
(***************************************************************************)
EXTENDS IocpPort, FiniteSetTheorems, TLAPS

\* The parts of OnePerIo.
PendUnique == \A p, q \in pend : p.io = q.io => p = q
QueueUnique ==
  \A i, j \in 1..Len(queue) :
    queue[i].io = queue[j].io /\ queue[i].io # Null => i = j

USE PortAssumption

-----------------------------------------------------------------------------
(***************************************************************************)
(* The IoData that operations and packets are about.                       *)
(***************************************************************************)

\* A packet at the end of the queue adds the IoData it is about.
LEMMA QueueAppend ==
  ASSUME NEW pkt \in Packet, queue \in Seq(Packet), QueueUnique,
         pkt.io \notin QueuedIo, queue' = Append(queue, pkt)
  PROVE  /\ queue' \in Seq(Packet)
         /\ QueueUnique'
         /\ QueuedIo' = QueuedIo \cup ({pkt.io} \ {Null})
<1>1. queue' \in Seq(Packet) /\ Len(queue') = Len(queue) + 1 /\ Len(queue) \in Nat
  OBVIOUS
<1>2. \A i \in 1..Len(queue) : queue'[i] = queue[i]
  OBVIOUS
<1>3. queue'[Len(queue) + 1] = pkt
  OBVIOUS
<1>4. 1..Len(queue') = 1..Len(queue) \cup {Len(queue) + 1}
  BY <1>1
<1>5. \A i \in 1..Len(queue) : queue[i].io # Null => queue[i].io \in QueuedIo
  BY DEF QueuedIo
<1>6. QueueUnique'
  BY <1>1, <1>2, <1>3, <1>4, <1>5 DEF QueueUnique
<1>7. QueuedIo' = {queue'[i].io : i \in 1..Len(queue')} \ {Null}
  BY DEF QueuedIo
<1>8. QueuedIo' = QueuedIo \cup ({pkt.io} \ {Null})
  BY <1>2, <1>3, <1>4, <1>7 DEF QueuedIo
<1> QED
  BY <1>1, <1>6, <1>8

\* The packet at the head of the queue takes the IoData it is about with it.
LEMMA QueueTail ==
  ASSUME queue \in Seq(Packet), QueueUnique, queue # <<>>, queue' = Tail(queue)
  PROVE  /\ Head(queue) \in Packet
         /\ queue' \in Seq(Packet)
         /\ QueueUnique'
         /\ QueuedIo = QueuedIo' \cup ({Head(queue).io} \ {Null})
         /\ Head(queue).io \notin QueuedIo'
<1>1. /\ queue' \in Seq(Packet) /\ Len(queue) \in Nat \ {0}
      /\ Len(queue') = Len(queue) - 1 /\ Head(queue) = queue[1]
      /\ Head(queue) \in Packet
  OBVIOUS
<1>2. \A i \in 1..Len(queue') : i + 1 \in 1..Len(queue) /\ queue'[i] = queue[i + 1]
  BY <1>1
<1>3. QueueUnique'
  <2> SUFFICES ASSUME NEW i \in 1..Len(queue'), NEW j \in 1..Len(queue'),
                      queue'[i].io = queue'[j].io, queue'[i].io # Null
               PROVE  i = j
    BY DEF QueueUnique
  <2>1. i + 1 = j + 1
    BY <1>2 DEF QueueUnique
  <2> QED
    BY <1>1, <2>1
<1>4. QueuedIo' = {queue'[i].io : i \in 1..Len(queue')} \ {Null}
  BY DEF QueuedIo
<1>5. ASSUME NEW x \in QueuedIo, x # queue[1].io PROVE x \in QueuedIo'
  <2>1. PICK i \in 1..Len(queue) : queue[i].io = x
    BY DEF QueuedIo
  <2>2. i - 1 \in 1..Len(queue') /\ queue'[i - 1] = queue[i]
    BY <1>1, <1>2, <1>5, <2>1
  <2> QED
    BY <1>4, <2>1, <2>2 DEF QueuedIo
<1>6. ASSUME NEW x \in QueuedIo' PROVE x \in QueuedIo /\ x # queue[1].io
  <2>1. PICK i \in 1..Len(queue') : queue'[i].io = x /\ x # Null
    BY <1>4
  <2>2. i + 1 \in 1..Len(queue) /\ queue[i + 1].io = x
    BY <1>2, <2>1
  <2>3. x # queue[1].io
    <3> SUFFICES ASSUME x = queue[1].io PROVE FALSE
      OBVIOUS
    <3>1. 1 \in 1..Len(queue)
      BY <1>1
    <3>2. i + 1 = 1
      BY <2>1, <2>2, <3>1 DEF QueueUnique
    <3> QED
      BY <3>2
  <2> QED
    BY <2>1, <2>2, <2>3 DEF QueuedIo
<1>7. queue[1].io # Null => queue[1].io \in QueuedIo
  BY <1>1 DEF QueuedIo
<1>8. QueuedIo = QueuedIo' \cup ({queue[1].io} \ {Null})
  <2>1. Null \notin QueuedIo /\ Null \notin QueuedIo'
    BY <1>4 DEF QueuedIo
  <2> QED
    BY <1>5, <1>6, <1>7, <2>1
<1> QED
  BY <1>1, <1>3, <1>6, <1>8

\* closesocket cancels operations; it neither adds nor removes one.
LEMMA CloseKeeps ==
  ASSUME NEW s, PortTypeOK, PendUnique, CloseSocket(s)
  PROVE  /\ PendUnique' /\ PendingIo' = PendingIo
         /\ pend' \in SUBSET Op
         /\ sock' \in [Sock -> {"free", "idle", "up", "down"}]
         /\ bound' \in SUBSET Sock
         /\ \A x \in Sock \ {s} : sock'[x] = sock[x]
         /\ (\A p \in pend : p.port) => \A p \in pend' : p.port
<1> DEFINE Cancel(p) == IF p.sock = s THEN [p EXCEPT !.sock = Invalid] ELSE p
<1>1. pend' = {Cancel(p) : p \in pend}
  BY DEF CloseSocket
<1>2. \A p \in pend : Cancel(p) \in Op /\ Cancel(p).io = p.io /\ Cancel(p).port = p.port
  BY DEF PortTypeOK, Op
<1> HIDE DEF Cancel
<1>3. PendUnique'
  BY <1>1, <1>2 DEF PendUnique
<1>4. PendingIo' = PendingIo
  BY <1>1, <1>2 DEF PendingIo
<1>5. pend' \in SUBSET Op
  BY <1>1, <1>2
<1>6. (\A p \in pend : p.port) => \A p \in pend' : p.port
  BY <1>1, <1>2
<1> QED
  BY <1>3, <1>4, <1>5, <1>6 DEF CloseSocket, PortTypeOK

\* An operation that is accepted adds the IoData it is about.
LEMMA IssueKeeps ==
  ASSUME NEW d \in Io, NEW what \in {"recv", "send"}, NEW s, PortTypeOK,
         PendUnique, d \notin PendingIo, Issue(d, what, s),
         UNCHANGED <<sock, bound, queue>>
  PROVE  /\ PortTypeOK' /\ PendUnique' /\ PendingIo' = PendingIo \cup {d}
         /\ s \in bound /\ (\A p \in pend : p.port) => \A p \in pend' : p.port
<1> DEFINE new == [io |-> d, op |-> what, sock |-> s, port |-> s \in bound]
<1>1. pend' = pend \cup {new} /\ s \in Sock
  BY DEF Issue, Connected
<1>2. new \in Op /\ new.io = d /\ new.port = (s \in bound)
  BY <1>1 DEF Op
<1> HIDE DEF new
<1>3. \A p \in pend : p.io # d
  BY DEF PendingIo
<1>4. PendUnique'
  BY <1>1, <1>2, <1>3 DEF PendUnique
<1>5. PendingIo' = PendingIo \cup {d}
  BY <1>1, <1>2 DEF PendingIo
<1> QED
  BY <1>1, <1>2, <1>4, <1>5 DEF PortTypeOK

-----------------------------------------------------------------------------
(***************************************************************************)
(* The packets without IoData, which end the workers.                      *)
(***************************************************************************)

NullAt == {i \in 1..Len(queue) : queue[i].io = Null}

\* They are finitely many.
LEMMA NullFinite ==
  ASSUME queue \in Seq(Packet)
  PROVE  IsFiniteSet(NullAt) /\ Cardinality(NullAt) \in Nat
<1>1. Len(queue) \in Nat
  OBVIOUS
<1>2. IsFiniteSet(1..Len(queue))
  BY <1>1, FS_Interval
<1>3. NullAt \subseteq 1..Len(queue)
  BY DEF NullAt
<1> QED
  BY <1>2, <1>3, FS_Subset, FS_CardinalityType

\* The packet of a completed operation is none of them.
LEMMA NullAppend ==
  ASSUME NEW pkt \in Packet, pkt.io # Null, queue \in Seq(Packet),
         queue' = Append(queue, pkt)
  PROVE  NullAt' = NullAt
<1>1. /\ Len(queue) \in Nat /\ Len(queue') = Len(queue) + 1
      /\ queue'[Len(queue) + 1] = pkt
      /\ \A i \in 1..Len(queue) : queue'[i] = queue[i]
  OBVIOUS
<1>2. NullAt' = {i \in 1..Len(queue') : queue'[i].io = Null}
  BY DEF NullAt
<1>3. \A i : i \in NullAt' <=> i \in NullAt
  BY <1>1, <1>2 DEF NullAt
<1> QED
  BY <1>3

\* A worker that takes one leaves one less.
LEMMA NullTail ==
  ASSUME queue \in Seq(Packet), queue # <<>>, queue' = Tail(queue)
  PROVE  Cardinality(NullAt')
           = Cardinality(NullAt) - (IF Head(queue).io = Null THEN 1 ELSE 0)
<1>1. /\ Len(queue) \in Nat \ {0} /\ Len(queue') = Len(queue) - 1
      /\ Head(queue) = queue[1]
      /\ \A i \in 1..Len(queue') : queue'[i] = queue[i + 1]
  OBVIOUS
<1>2. NullAt' = {i \in 1..Len(queue') : queue'[i].io = Null}
  BY DEF NullAt
<1> DEFINE f == [i \in NullAt' |-> i + 1]
<1>3. f \in Bijection(NullAt', NullAt \ {1})
  <2>1. \A i \in NullAt' : i \in Nat /\ f[i] = i + 1 /\ i + 1 \in NullAt \ {1}
    BY <1>1, <1>2 DEF NullAt
  <2>2. \A i \in NullAt \ {1} : i - 1 \in NullAt' /\ (i - 1) + 1 = i
    BY <1>1, <1>2 DEF NullAt
  <2>3. f \in [NullAt' -> NullAt \ {1}]
    BY <2>1
  <2>4. \A i, j \in NullAt' : f[i] = f[j] => i = j
    BY <2>1
  <2>5. \A j \in NullAt \ {1} : \E i \in NullAt' : f[i] = j
    BY <2>1, <2>2
  <2> QED
    BY <2>3, <2>4, <2>5 DEF Bijection, Injection, Surjection, IsInjective
<1>4. IsFiniteSet(NullAt) /\ Cardinality(NullAt) \in Nat
  BY NullFinite
<1>5. IsFiniteSet(NullAt \ {1})
  BY <1>4, FS_RemoveElement
<1>6. Cardinality(NullAt') = Cardinality(NullAt \ {1})
  <2>1. IsFiniteSet(1..Len(queue'))
    BY <1>1, FS_Interval
  <2>2. IsFiniteSet(NullAt')
    BY <1>2, <2>1, FS_Subset
  <2>3. ExistsBijection(NullAt', NullAt \ {1})
    BY <1>3 DEF ExistsBijection
  <2> QED
    BY <2>2, <2>3, FS_Bijection
<1>7. 1 \in NullAt <=> queue[1].io = Null
  BY <1>1 DEF NullAt
<1>8. Cardinality(NullAt \ {1})
        = IF 1 \in NullAt THEN Cardinality(NullAt) - 1 ELSE Cardinality(NullAt)
  BY <1>4, FS_RemoveElement
<1>9. CASE queue[1].io = Null
  BY <1>1, <1>6, <1>7, <1>8, <1>9
<1>10. CASE queue[1].io # Null
  BY <1>1, <1>4, <1>6, <1>7, <1>8, <1>10
<1> QED
  BY <1>9, <1>10

\* Posting n of them at once leaves the packets before them.
LEMMA ExitsAppended ==
  ASSUME NEW n \in Nat, queue \in Seq(Packet),
         queue' = queue \o [i \in 1..n |-> [io |-> Null, size |-> 0]]
  PROVE  /\ queue' \in Seq(Packet)
         /\ Len(queue) \in Nat /\ Len(queue') = Len(queue) + n
         /\ \A i \in 1..Len(queue) : queue'[i] = queue[i]
         /\ \A i \in (Len(queue) + 1)..(Len(queue) + n) :
              queue'[i].io = Null /\ queue'[i].size = 0
<1> DEFINE ends == [i \in 1..n |-> [io |-> Null, size |-> 0]]
<1>1. /\ ends \in Seq(Packet) /\ Len(ends) = n
      /\ \A i \in 1..n : ends[i].io = Null /\ ends[i].size = 0
  BY DEF Packet
<1> HIDE DEF ends
<1>2. queue' = queue \o ends
  BY DEF ends
<1>3. /\ queue' \in Seq(Packet) /\ Len(queue) \in Nat /\ Len(queue') = Len(queue) + n
      /\ \A i \in 1..Len(queue) : queue'[i] = queue[i]
  BY <1>1, <1>2
<1>4. ASSUME NEW i \in Len(queue) + 1 .. Len(queue) + n
      PROVE  queue'[i].io = Null /\ queue'[i].size = 0
  <2>1. queue'[i] = ends[i - Len(queue)] /\ i - Len(queue) \in 1..n
    BY <1>1, <1>2, <1>3
  <2> QED
    BY <1>1, <2>1
<1> QED
  BY <1>3, <1>4

\* They concern no IoData.
LEMMA ExitsPosted ==
  ASSUME NEW n \in Nat, queue \in Seq(Packet), QueueUnique,
         queue' = queue \o [i \in 1..n |-> [io |-> Null, size |-> 0]]
  PROVE  /\ queue' \in Seq(Packet) /\ QueueUnique' /\ QueuedIo' = QueuedIo
         /\ Len(queue) \in Nat /\ Len(queue') = Len(queue) + n
         /\ \A i \in 1..Len(queue) : queue'[i] = queue[i]
         /\ \A i \in (Len(queue) + 1)..(Len(queue) + n) :
              queue'[i].io = Null /\ queue'[i].size = 0
<1>3. /\ queue' \in Seq(Packet) /\ Len(queue) \in Nat /\ Len(queue') = Len(queue) + n
      /\ \A i \in 1..Len(queue) : queue'[i] = queue[i]
  BY ExitsAppended
<1>4. ASSUME NEW i \in Len(queue) + 1 .. Len(queue) + n
      PROVE  queue'[i].io = Null /\ queue'[i].size = 0
  BY ExitsAppended
<1>5. 1..Len(queue') = (1..Len(queue)) \cup (Len(queue) + 1 .. Len(queue) + n)
  BY <1>3
<1>6. QueueUnique'
  BY <1>3, <1>4, <1>5 DEF QueueUnique
<1>7. QueuedIo' = {queue'[i].io : i \in 1..Len(queue')} \ {Null}
  BY DEF QueuedIo
<1>8. QueuedIo' = QueuedIo
  BY <1>3, <1>4, <1>5, <1>7 DEF QueuedIo
<1> QED
  BY <1>3, <1>4, <1>6, <1>8

\* They are then n.
LEMMA NullPosted ==
  ASSUME NEW n \in Nat, queue \in Seq(Packet), QueueUnique, NullAt = {},
         queue' = queue \o [i \in 1..n |-> [io |-> Null, size |-> 0]]
  PROVE  /\ queue' \in Seq(Packet) /\ QueueUnique' /\ QueuedIo' = QueuedIo
         /\ Cardinality(NullAt') = n
<1>1. /\ queue' \in Seq(Packet) /\ QueueUnique' /\ QueuedIo' = QueuedIo
      /\ Len(queue) \in Nat /\ Len(queue') = Len(queue) + n
      /\ \A i \in 1..Len(queue) : queue'[i] = queue[i]
      /\ \A i \in (Len(queue) + 1)..(Len(queue) + n) : queue'[i].io = Null
  BY ExitsPosted
<1>2. \A i \in 1..Len(queue) : queue[i].io # Null
  BY DEF NullAt
<1>3. 1..Len(queue') = (1..Len(queue)) \cup (Len(queue) + 1 .. Len(queue) + n)
  BY <1>1
<1>4. NullAt' = Len(queue) + 1 .. Len(queue) + n
  <2>1. NullAt' = {i \in 1..Len(queue') : queue'[i].io = Null}
    BY DEF NullAt
  <2> QED
    BY <1>1, <1>2, <1>3, <2>1
<1>5. Cardinality(NullAt') = n
  <2>1. \A a, b \in Int : Cardinality(a..b) = IF a > b THEN 0 ELSE b - a + 1
    BY FS_Interval
  <2>2. PICK l \in Nat : l = Len(queue)
    BY <1>1
  <2>3. Cardinality((l + 1)..(l + n)) = n
    <3>1. l + 1 \in Int /\ l + n \in Int /\ (l + n) - (l + 1) + 1 = n /\ (l + 1 > l + n => n = 0)
      OBVIOUS
    <3> QED
      BY <2>1, <3>1
  <2>4. NullAt' = (l + 1)..(l + n)
    BY <1>4, <2>2
  <2> QED
    BY <2>3, <2>4
<1> QED
  BY <1>1, <1>5
=============================================================================
