-------------------------- MODULE CTryAsioGoProofs --------------------------
(***************************************************************************)
(* Proofs about three systems that have nothing in common but this module: *)
(* the exceptions for C of c_try_catch, for an array of any size and any   *)
(* program; the session server of cmake/asio/net, for any connections and  *)
(* any number of descriptors; and the AcceptEx echo server in Go of        *)
(* go/iocp, for any number of connections, IOData and workers.             *)
(***************************************************************************)
EXTENDS CTry, AsioSession, IocpGo, IocpPortProofs

-----------------------------------------------------------------------------
(***************************************************************************)
(* Exceptions for C: the invariant.                                        *)
(***************************************************************************)

Frame == [active : Seq(0..MaxCalls), outer : Seq(Nat)]
Element == [block : Nat, mask : {{}}, result : Codes \cup Signals \cup {"none"}]

Types ==
  /\ depth \in 0..UIntMax
  /\ buf \in [0..(Size - 1) -> Element]
  /\ entered \in Seq(Frame) /\ Len(entered) <= MaxBlocks
  /\ open \in Seq(Nat)
  /\ active \in Seq(0..MaxCalls) /\ calls \in 0..MaxCalls
  /\ mask = {} /\ strays \in BOOLEAN /\ fate \in Fates
  /\ caught # <<>> => caught.read = caught.thrown

\* With the blocks e entered so far: those in o lie one inside the other, each
\* in a function that is active when a is.
Chain(e, o, a) ==
  \A k \in 1..Len(o) :
    /\ o[k] \in 1..Len(e)
    /\ e[o[k]].outer = SubSeq(o, 1, k - 1)
    /\ IsPrefix(e[o[k]].active, a)

Nesting ==
  /\ Chain(entered, open, active)
  /\ \A b \in 1..Len(entered) : Chain(entered, entered[b].outer, entered[b].active)

\* Every block in o has an element of the array f below n.
Held(f, o, n) == \A k \in 1..Len(o) : \E i \in 0..(n - 1) : f[i].block = o[k]

\* Wherever an exception takes the depth back to, the blocks around the one it
\* arrives in have their elements below.
Reachable(f, e, n) ==
  \A i \in 0..(n - 1) : f[i].block \in 1..Len(e) /\ Held(f, e[f[i].block].outer, i)

Elements ==
  Running => depth <= Size /\ Held(buf, open, depth) /\ Reachable(buf, entered, depth)

\* Until a block is left by return, break or goto.
Straight ==
  ~strays =>
    /\ Running => depth = Len(open)
    /\ \A k \in 1..Len(open) : k <= Size => buf[k - 1].block = open[k]
    /\ fate = "wild" => open = <<>>
    /\ fate = "overrun" => Len(open) > Size
    /\ fate # "dead frame"

IndInv == Types /\ Nesting /\ Elements /\ Straight /\ fate # "killed"
USE SizeAssumption

-----------------------------------------------------------------------------
(***************************************************************************)
(* Prefixes, chains and elements.                                          *)
(***************************************************************************)

\* What IsPrefix says of the elements.
LEMMA PrefixIs ==
  ASSUME NEW S, NEW s \in Seq(S), NEW t \in Seq(S)
  PROVE  IsPrefix(s, t) <=> Len(s) <= Len(t) /\ \A i \in 1..Len(s) : s[i] = t[i]
<1>1. CASE Len(s) <= Len(t)
  <2>1. /\ SubSeq(s, 1, Len(s)) \in Seq(S) /\ Len(SubSeq(s, 1, Len(s))) = Len(s)
        /\ \A i \in 1..Len(s) : SubSeq(s, 1, Len(s))[i] = s[i]
    OBVIOUS
  <2>2. /\ SubSeq(t, 1, Len(s)) \in Seq(S) /\ Len(SubSeq(t, 1, Len(s))) = Len(s)
        /\ \A i \in 1..Len(s) : SubSeq(t, 1, Len(s))[i] = t[i]
    BY <1>1
  <2>3. SubSeq(s, 1, Len(s)) = SubSeq(t, 1, Len(s))
          <=> \A i \in 1..Len(s) : SubSeq(s, 1, Len(s))[i] = SubSeq(t, 1, Len(s))[i]
    BY <2>1, <2>2
  <2> QED
    BY <1>1, <2>1, <2>2, <2>3 DEF IsPrefix
<1>2. CASE ~(Len(s) <= Len(t))
  BY <1>2 DEF IsPrefix
<1> QED
  BY <1>1, <1>2

\* The outer part of a sequence.
LEMMA OuterPart ==
  ASSUME NEW S, NEW o \in Seq(S), NEW n \in 0..Len(o)
  PROVE  /\ SubSeq(o, 1, n) \in Seq(S) /\ Len(SubSeq(o, 1, n)) = n
         /\ \A k \in 1..n : SubSeq(o, 1, n)[k] = o[k]
         /\ \A k \in 1..n : SubSeq(SubSeq(o, 1, n), 1, k - 1) = SubSeq(o, 1, k - 1)
         /\ SubSeq(o, 1, Len(o)) = o
<1>1. /\ SubSeq(o, 1, n) \in Seq(S) /\ Len(SubSeq(o, 1, n)) = n
      /\ \A k \in 1..n : SubSeq(o, 1, n)[k] = o[k]
  OBVIOUS
<1>2. ASSUME NEW k \in 1..n
      PROVE  SubSeq(SubSeq(o, 1, n), 1, k - 1) = SubSeq(o, 1, k - 1)
  <2> DEFINE p == SubSeq(o, 1, n)
  <2>1. /\ SubSeq(p, 1, k - 1) \in Seq(S) /\ Len(SubSeq(p, 1, k - 1)) = k - 1
        /\ \A i \in 1..(k - 1) : SubSeq(p, 1, k - 1)[i] = p[i]
    <3> HIDE DEF p
    <3>1. p \in Seq(S) /\ Len(p) = n
      BY <1>1 DEF p
    <3> QED
      BY <3>1
  <2>2. /\ SubSeq(o, 1, k - 1) \in Seq(S) /\ Len(SubSeq(o, 1, k - 1)) = k - 1
        /\ \A i \in 1..(k - 1) : SubSeq(o, 1, k - 1)[i] = o[i]
    OBVIOUS
  <2>3. \A i \in 1..(k - 1) : SubSeq(p, 1, k - 1)[i] = SubSeq(o, 1, k - 1)[i]
    BY <1>1, <2>1, <2>2
  <2> HIDE DEF p
  <2>4. SubSeq(p, 1, k - 1) = SubSeq(o, 1, k - 1)
    BY <2>1, <2>2, <2>3
  <2> QED
    BY <2>4 DEF p
<1>3. SubSeq(o, 1, Len(o)) = o
  OBVIOUS
<1> QED
  BY <1>1, <1>2, <1>3

\* What the innermost block leaves behind.
LEMMA FrontOf ==
  ASSUME NEW S, NEW o \in Seq(S), o # <<>>
  PROVE  /\ Front(o) \in Seq(S) /\ Len(o) \in Nat \ {0} /\ Len(Front(o)) = Len(o) - 1
         /\ \A k \in 1..(Len(o) - 1) : Front(o)[k] = o[k]
<1>1. Len(o) \in Nat \ {0} /\ Len(o) - 1 \in 0..Len(o)
  OBVIOUS
<1>2. PICK n \in 0..Len(o) : n = Len(o) - 1
  BY <1>1
<1>3. Front(o) = SubSeq(o, 1, n)
  BY <1>2 DEF Front
<1>4. SubSeq(o, 1, n) \in Seq(S) /\ Len(SubSeq(o, 1, n)) = n
  BY OuterPart
<1>5. \A k \in 1..n : SubSeq(o, 1, n)[k] = o[k]
  BY OuterPart
<1> QED
  BY <1>1, <1>2, <1>3, <1>4, <1>5

\* A function that is below another stays below those which that one calls.
LEMMA BelowCall ==
  ASSUME NEW S, NEW s \in Seq(S), NEW t \in Seq(S), NEW x \in S, IsPrefix(s, t)
  PROVE  IsPrefix(s, Append(t, x))
<1>1. Len(s) <= Len(t) /\ \A i \in 1..Len(s) : s[i] = t[i]
  BY PrefixIs
<1> DEFINE u == Append(t, x)
<1>2. u \in Seq(S) /\ Len(u) = Len(t) + 1 /\ \A i \in 1..Len(s) : u[i] = t[i]
  BY <1>1
<1> HIDE DEF u
<1>3. IsPrefix(s, u)
  BY <1>1, <1>2, PrefixIs
<1> QED
  BY <1>3 DEF u

\* It stays there when that one returns.
LEMMA BelowReturn ==
  ASSUME NEW S, NEW s \in Seq(S), NEW t \in Seq(S), IsPrefix(s, t), Len(s) < Len(t)
  PROVE  IsPrefix(s, Front(t))
<1>1. Len(s) <= Len(t) /\ \A i \in 1..Len(s) : s[i] = t[i]
  BY PrefixIs
<1>2. Len(s) \in Nat /\ Len(t) \in Nat /\ t # <<>>
  OBVIOUS
<1> DEFINE u == Front(t)
<1>3. u \in Seq(S) /\ Len(u) = Len(t) - 1 /\ \A i \in 1..(Len(t) - 1) : u[i] = t[i]
  BY <1>2, FrontOf
<1> HIDE DEF u
<1>4. IsPrefix(s, u)
  BY <1>1, <1>2, <1>3, PrefixIs
<1> QED
  BY <1>4 DEF u

\* The outer blocks of a chain are a chain, and have elements if all have.
LEMMA OuterChain ==
  ASSUME NEW e, NEW o \in Seq(Nat), NEW a, NEW n \in 0..Len(o)
  PROVE  /\ Chain(e, o, a) => Chain(e, SubSeq(o, 1, n), a)
         /\ \A f, m : Held(f, o, m) => Held(f, SubSeq(o, 1, n), m)
<1> DEFINE p == SubSeq(o, 1, n)
<1>1. \A k \in 1..n : k \in 1..Len(o)
  OBVIOUS
<1>2. /\ Len(p) = n /\ \A k \in 1..n : p[k] = o[k]
      /\ \A k \in 1..n : SubSeq(p, 1, k - 1) = SubSeq(o, 1, k - 1)
  BY OuterPart
<1> HIDE DEF p
<1>3. Chain(e, o, a) => Chain(e, p, a)
  BY <1>1, <1>2 DEF Chain
<1>4. \A f, m : Held(f, o, m) => Held(f, p, m)
  BY <1>1, <1>2 DEF Held
<1> QED
  BY <1>3, <1>4 DEF p

\* What was entered stays as it is when one more block is.
LEMMA ChainKept ==
  ASSUME NEW e \in Seq(Frame), NEW r \in Frame, NEW o, NEW a, Chain(e, o, a)
  PROVE  Chain(Append(e, r), o, a)
<1>1. /\ Len(Append(e, r)) = Len(e) + 1
      /\ \A b \in 1..Len(e) : b \in 1..Len(Append(e, r)) /\ Append(e, r)[b] = e[b]
  OBVIOUS
<1> QED
  BY <1>1 DEF Chain
\* A block entered inside the chain makes it longer.
LEMMA ChainGrows ==
  ASSUME NEW e, NEW o \in Seq(Nat), NEW a, Chain(e, o, a), NEW b \in Nat, b \in 1..Len(e),
         e[b].outer = o, IsPrefix(e[b].active, a)
  PROVE  Chain(e, Append(o, b), a)
<1> DEFINE p == Append(o, b)
<1>1. p \in Seq(Nat) /\ Len(p) = Len(o) + 1 /\ p[Len(o) + 1] = b /\ Len(o) \in Nat
  OBVIOUS
<1>2. \A k \in 1..Len(o) : p[k] = o[k]
  OBVIOUS
<1>3. SubSeq(p, 1, Len(o)) = o
  <2>1. /\ SubSeq(p, 1, Len(o)) \in Seq(Nat) /\ Len(SubSeq(p, 1, Len(o))) = Len(o)
        /\ \A k \in 1..Len(o) : SubSeq(p, 1, Len(o))[k] = p[k]
    <3>1. Len(o) \in 0..Len(p)
      BY <1>1
    <3> HIDE DEF p
    <3> QED
      BY <1>1, <3>1, OuterPart
  <2> HIDE DEF p
  <2> QED
    BY <1>2, <2>1
<1> HIDE DEF p
<1>4. \A k \in 1..Len(o) : SubSeq(p, 1, k - 1) = SubSeq(o, 1, k - 1)
  <2>1. Len(o) \in 0..Len(p)
    BY <1>1
  <2>2. \A k \in 1..Len(o) : SubSeq(SubSeq(p, 1, Len(o)), 1, k - 1) = SubSeq(p, 1, k - 1)
    BY <1>1, <2>1, OuterPart
  <2> QED
    BY <1>3, <2>2
<1>5. Chain(e, p, a)
  <2> SUFFICES ASSUME NEW k \in 1..Len(p)
               PROVE  /\ p[k] \in 1..Len(e) /\ e[p[k]].outer = SubSeq(p, 1, k - 1)
                      /\ IsPrefix(e[p[k]].active, a)
    BY DEF Chain
  <2>1. CASE k \in 1..Len(o)
    BY <1>2, <1>4, <2>1 DEF Chain
  <2>2. CASE k = Len(o) + 1
    BY <1>1, <1>3, <2>2
  <2> QED
    BY <1>1, <2>1, <2>2
<1> QED
  BY <1>5 DEF p

\* Blocks keep their elements when the array changes above them.
LEMMA HeldKept ==
  ASSUME NEW f, NEW g, NEW n \in Nat, NEW o, Held(f, o, n),
         \A i \in 0..(n - 1) : g[i].block = f[i].block
  PROVE  Held(g, o, n)
BY DEF Held

\* A place in the chain has elements below those of the blocks inside it.
LEMMA HeldOuter ==
  ASSUME NEW f, NEW e, NEW n \in Nat, NEW o \in Seq(Nat), NEW a, Chain(e, o, a),
         Held(f, o, n), Reachable(f, e, n), o # <<>>
  PROVE  n > 0 /\ Held(f, Front(o), n - 1)
<1>1. Len(o) \in Nat /\ Len(o) \in 1..Len(o)
  OBVIOUS
<1>2. PICK i \in 0..(n - 1) : f[i].block = o[Len(o)]
  BY <1>1 DEF Held
<1>3. e[o[Len(o)]].outer = Front(o)
  BY <1>1 DEF Chain, Front
<1>4. Held(f, Front(o), i)
  BY <1>2, <1>3 DEF Reachable
<1>5. \A j \in 0..(i - 1) : j \in 0..((n - 1) - 1)
  BY <1>2
<1> QED
  BY <1>2, <1>4, <1>5 DEF Held

\* Unsigned arithmetic near the ends.
LEMMA Unsigned ==
  /\ \A n \in 0..UIntMax : Inc(n) \in 0..UIntMax /\ Dec(n) \in 0..UIntMax
  /\ \A n \in 0..UIntMax : n < UIntMax => Inc(n) = n + 1
  /\ \A n \in 0..UIntMax : n > 0 => Dec(n) = n - 1
  /\ Dec(0) = UIntMax
BY DEF Inc, Dec
-----------------------------------------------------------------------------
(***************************************************************************)
(* The steps of a program.                                                 *)
(***************************************************************************)

\* At the start no block is entered.
LEMMA InitIndInv == Init => IndInv
<1> SUFFICES ASSUME Init PROVE IndInv
  OBVIOUS
<1>1. Types
  <2>1. buf \in [0..(Size - 1) -> Element]
    BY DEF Init, Element, Unset
  <2>2. entered \in Seq(Frame) /\ Len(entered) = 0 /\ open \in Seq(Nat)
    BY DEF Init
  <2>3. active \in Seq(0..MaxCalls)
    <3>1. 0 \in 0..MaxCalls /\ active = <<0>>
      BY DEF Init
    <3> QED
      BY <3>1
  <2>4. depth \in 0..UIntMax /\ calls \in 0..MaxCalls /\ 0 <= MaxBlocks
    BY DEF Init
  <2>5. mask = {} /\ strays \in BOOLEAN /\ fate \in Fates /\ caught = <<>>
    BY DEF Init, Fates
  <2> QED
    BY <2>1, <2>2, <2>3, <2>4, <2>5 DEF Types
<1>2. Nesting
  BY DEF Init, Nesting, Chain
<1>3. Elements
  BY DEF Init, Elements, Held, Reachable
<1>4. Straight
  BY DEF Init, Straight, Running
<1> QED
  BY <1>1, <1>2, <1>3, <1>4 DEF Init, IndInv

\* TRY enters a block inside all the open ones.
LEMMA TryKeeps ==
  ASSUME IndInv, Try
  PROVE  IndInv'
<1> DEFINE b == Len(entered) + 1
           r == [active |-> active, outer |-> open]
<1>1. /\ Types /\ Nesting /\ Elements /\ Straight /\ Running
      /\ depth <= Size /\ Held(buf, open, depth) /\ Reachable(buf, entered, depth)
  BY DEF IndInv, Try, Elements
<1>2. /\ b \in 1..MaxBlocks /\ entered' = Append(entered, r) /\ open' = Append(open, b)
      /\ depth' = Inc(depth) /\ UNCHANGED <<active, calls, mask, caught, strays>>
  BY DEF Try, Block
<1>3. r \in Frame /\ r.active = active /\ r.outer = open
  BY <1>1 DEF Types, Frame
<1>4. /\ entered' \in Seq(Frame) /\ Len(entered) \in Nat /\ Len(entered') = b
      /\ entered'[b] = r /\ \A c \in 1..Len(entered) : entered'[c] = entered[c]
  BY <1>1, <1>2, <1>3 DEF Types
<1>5. /\ open' \in Seq(Nat) /\ Len(open) \in Nat /\ Len(open') = Len(open) + 1
      /\ open'[Len(open) + 1] = b /\ \A k \in 1..Len(open) : open'[k] = open[k]
  BY <1>1, <1>2, <1>4 DEF Types
<1>6. depth \in Nat /\ Inc(depth) = depth + 1 /\ Inc(depth) \in 0..UIntMax
  BY <1>1, Unsigned DEF Types
<1> HIDE DEF b, r
<1>7. Nesting'
  <2>1. \A o, a : Chain(entered, o, a) => Chain(entered', o, a)
    BY <1>1, <1>2, <1>3, ChainKept DEF Types
  <2>2. Chain(entered', open, active)
    BY <1>1, <2>1 DEF Nesting
  <2>3. IsPrefix(active, active)
    BY <1>1, PrefixIs DEF Types
  <2>4. b \in Nat /\ b \in 1..Len(entered') /\ open \in Seq(Nat)
    BY <1>1, <1>2, <1>4 DEF Types
  <2>5. Chain(entered', open', active)
    BY <1>2, <1>3, <1>4, <2>2, <2>3, <2>4, ChainGrows
  <2>6. ASSUME NEW c \in 1..Len(entered')
        PROVE  Chain(entered', entered'[c].outer, entered'[c].active)
    <3>1. CASE c = b
      BY <1>3, <1>4, <2>2, <3>1
    <3>2. CASE c \in 1..Len(entered)
      BY <1>1, <1>4, <2>1, <3>2 DEF Nesting
    <3> QED
      BY <1>4, <3>1, <3>2 DEF b
  <2> QED
    BY <1>2, <2>5, <2>6 DEF Nesting
<1>8. CASE depth < Size
  <2>1. /\ buf' = [buf EXCEPT ![depth] = [@ EXCEPT !.block = b, !.mask = mask]]
        /\ fate' = fate /\ fate = "running"
    BY <1>1, <1>8 DEF Try, Running, b
  <2>2. /\ buf' \in [0..(Size - 1) -> Element] /\ buf'[depth].block = b
        /\ \A i \in 0..(depth - 1) : buf'[i] = buf[i]
        /\ \A i \in 0..(Size - 1) : i # depth => buf'[i] = buf[i]
    <3>1. depth \in 0..(Size - 1) /\ b \in Nat /\ mask = {}
      BY <1>1, <1>2, <1>6, <1>8 DEF Types
    <3>2. buf \in [0..(Size - 1) -> Element]
      BY <1>1 DEF Types
    <3>3. /\ buf' = [buf EXCEPT ![depth] = buf'[depth]]
          /\ buf'[depth] = [buf[depth] EXCEPT !.block = b, !.mask = mask]
      BY <2>1, <3>1, <3>2 DEF Element
    <3>4. buf'[depth] \in Element /\ buf'[depth].block = b
      <4>1. PICK el \in Element : el = buf[depth]
        BY <3>1, <3>2
      <4>2. mask \in {{}}
        BY <3>1
      <4>3. [el EXCEPT !.block = b, !.mask = mask] \in Element
        BY <3>1, <4>1, <4>2 DEF Element
      <4>4. [el EXCEPT !.block = b, !.mask = mask].block = b
        BY <4>1 DEF Element
      <4> QED
        BY <3>3, <4>1, <4>3, <4>4
    <3>5. /\ buf' \in [0..(Size - 1) -> Element]
          /\ \A i \in 0..(Size - 1) : i # depth => buf'[i] = buf[i]
      BY <3>1, <3>2, <3>3, <3>4
    <3> QED
      BY <3>1, <3>4, <3>5
  <2>3. Types'
    BY <1>1, <1>2, <1>4, <1>5, <1>6, <2>1, <2>2 DEF Types
  <2>4. Elements'
    <3>1. Held(buf', open, depth)
      BY <1>1, <1>6, <2>2, HeldKept
    <3>2. Held(buf', open', depth + 1)
      <4> SUFFICES ASSUME NEW k \in 1..Len(open')
                   PROVE  \E i \in 0..((depth + 1) - 1) : buf'[i].block = open'[k]
        BY DEF Held
      <4>1. CASE k \in 1..Len(open)
        <5>1. PICK i \in 0..(depth - 1) : buf'[i].block = open[k]
          BY <3>1, <4>1 DEF Held
        <5>2. i \in 0..((depth + 1) - 1)
          BY <1>6, <5>1
        <5> QED
          BY <1>5, <4>1, <5>1, <5>2
      <4>2. CASE k = Len(open) + 1
        <5>1. depth \in 0..((depth + 1) - 1)
          BY <1>6
        <5> QED
          BY <1>5, <2>2, <4>2, <5>1
      <4> QED
        BY <1>5, <4>1, <4>2
    <3>3. Reachable(buf', entered', depth + 1)
      <4> SUFFICES ASSUME NEW i \in 0..((depth + 1) - 1)
                   PROVE  /\ buf'[i].block \in 1..Len(entered')
                          /\ Held(buf', entered'[buf'[i].block].outer, i)
        BY DEF Reachable
      <4>1. CASE i = depth
        BY <1>2, <1>3, <1>4, <2>2, <3>1, <4>1 DEF Types
      <4>2. CASE i \in 0..(depth - 1)
        <5>1. buf[i].block \in 1..Len(entered) /\ Held(buf, entered[buf[i].block].outer, i)
          BY <1>1, <4>2 DEF Reachable
        <5>2. i \in Nat /\ \A j \in 0..(i - 1) : buf'[j].block = buf[j].block
          BY <1>6, <2>2, <4>2
        <5>3. Held(buf', entered[buf[i].block].outer, i)
          BY <5>1, <5>2, HeldKept
        <5> QED
          BY <1>4, <2>2, <4>2, <5>1, <5>3 DEF b
      <4> QED
        BY <1>6, <4>1, <4>2
    <3> QED
      BY <1>2, <1>6, <1>8, <3>2, <3>3 DEF Elements
  <2>5. Straight'
    <3> SUFFICES ASSUME ~strays
                 PROVE  /\ depth' = Len(open')
                        /\ \A k \in 1..Len(open') : k <= Size => buf'[k - 1].block = open'[k]
      BY <1>2, <2>1 DEF Straight
    <3>1. depth = Len(open) /\ \A k \in 1..Len(open) : k <= Size => buf[k - 1].block = open[k]
      BY <1>1 DEF Straight
    <3>2. ASSUME NEW k \in 1..Len(open'), k <= Size PROVE buf'[k - 1].block = open'[k]
      <4>1. CASE k \in 1..Len(open)
        <5>1. k - 1 \in 0..(Size - 1) /\ k - 1 # depth
          BY <3>1, <3>2, <4>1
        <5> QED
          BY <1>5, <2>2, <3>1, <3>2, <4>1, <5>1
      <4>2. CASE k = Len(open) + 1
        BY <1>5, <2>2, <3>1, <4>2
      <4> QED
        BY <1>5, <4>1, <4>2
    <3> QED
      BY <1>2, <1>5, <1>6, <3>1, <3>2
  <2> QED
    BY <1>7, <2>1, <2>3, <2>4, <2>5 DEF IndInv
<1>9. CASE ~(depth < Size)
  <2>1. fate' = "overrun" /\ buf' = buf /\ fate = "running" /\ depth = Size
    BY <1>1, <1>6, <1>9 DEF Try, Running
  <2>2. Types'
    BY <1>1, <1>2, <1>4, <1>5, <1>6, <2>1 DEF Types, Fates
  <2>3. Elements'
    BY <2>1 DEF Elements, Running
  <2>4. Straight'
    <3> SUFFICES ASSUME ~strays
                 PROVE  /\ \A k \in 1..Len(open') : k <= Size => buf'[k - 1].block = open'[k]
                        /\ Len(open') > Size
      BY <1>2, <2>1 DEF Straight, Running
    <3>1. depth = Len(open) /\ \A k \in 1..Len(open) : k <= Size => buf[k - 1].block = open[k]
      BY <1>1 DEF Straight
    <3> QED
      BY <1>5, <2>1, <3>1
  <2> QED
    BY <1>7, <2>1, <2>2, <2>3, <2>4 DEF IndInv
<1> QED
  BY <1>8, <1>9
\* The end of the body takes the depth back below the block's element; break and
\* goto do not.
LEMMA LeaveKeeps ==
  ASSUME IndInv, EndOfBody \/ BreakOut
  PROVE  IndInv'
<1>1. /\ Types /\ Nesting /\ Elements /\ Straight /\ fate = "running" /\ fate' = fate
      /\ depth <= Size /\ Held(buf, open, depth) /\ Reachable(buf, entered, depth)
      /\ depth \in Nat
  BY DEF IndInv, EndOfBody, BreakOut, Elements, Running, Types
<1>2. /\ open # <<>> /\ open' = Front(open)
      /\ UNCHANGED <<buf, entered, active, calls, mask, caught>>
  BY DEF EndOfBody, BreakOut, InBlock
<1>3. /\ open' \in Seq(Nat) /\ Len(open) \in Nat \ {0} /\ Len(open') = Len(open) - 1
      /\ \A k \in 1..(Len(open) - 1) : open'[k] = open[k]
  BY <1>1, <1>2, FrontOf DEF Types
<1>4. Nesting'
  <2>1. PICK n \in 0..Len(open) : n = Len(open) - 1
    BY <1>3
  <2>2. open' = SubSeq(open, 1, n)
    BY <1>2, <2>1 DEF Front
  <2>3. Chain(entered, open', active)
    BY <1>1, <2>2, OuterChain DEF Types, Nesting
  <2> QED
    BY <1>1, <1>2, <2>3 DEF Nesting
<1>5. depth > 0 /\ Held(buf, open', depth - 1)
  BY <1>1, <1>2, HeldOuter DEF Types, Nesting
<1>6. CASE EndOfBody
  <2>1. depth' = depth - 1 /\ strays' = strays
    BY <1>1, <1>5, <1>6, Unsigned DEF EndOfBody, Types
  <2>2. Types'
    BY <1>1, <1>2, <1>3, <1>5, <2>1 DEF Types
  <2>3. Elements'
    <3>1. depth' <= Size /\ \A i \in 0..(depth' - 1) : i \in 0..(depth - 1)
      BY <1>1, <2>1
    <3>2. Reachable(buf, entered, depth')
      BY <1>1, <3>1 DEF Reachable
    <3> QED
      BY <1>2, <1>5, <2>1, <3>1, <3>2 DEF Elements
  <2>4. Straight'
    BY <1>1, <1>2, <1>3, <2>1 DEF Straight, Running
  <2> QED
    BY <1>1, <1>4, <2>2, <2>3, <2>4 DEF IndInv
<1>7. CASE BreakOut
  <2>1. depth' = depth /\ strays' = TRUE
    BY <1>7 DEF BreakOut
  <2>2. Types'
    BY <1>1, <1>2, <1>3, <2>1 DEF Types
  <2>3. Elements'
    <3>1. Held(buf, open', depth)
      <4>1. \A i \in 0..((depth - 1) - 1) : i \in 0..(depth - 1)
        BY <1>1
      <4> QED
        BY <1>5, <4>1 DEF Held
    <3> QED
      BY <1>1, <1>2, <2>1, <3>1 DEF Elements
  <2>4. Straight'
    BY <2>1 DEF Straight
  <2> QED
    BY <1>1, <1>4, <2>2, <2>3, <2>4 DEF IndInv
<1> QED
  BY <1>6, <1>7

\* What is kept of a block.
LEMMA FrameOf ==
  ASSUME Types, NEW b \in 1..Len(entered)
  PROVE  entered[b].active \in Seq(0..MaxCalls) /\ entered[b].outer \in Seq(Nat)
<1>1. entered[b] \in Frame
  BY DEF Types
<1> QED
  BY <1>1 DEF Frame

\* A call extends the functions that are active.
LEMMA CallKeeps ==
  ASSUME IndInv, CallFunction
  PROVE  IndInv'
<1>1. Types /\ Nesting /\ Elements /\ Straight
  BY DEF IndInv
<1>2. /\ UNCHANGED <<depth, buf, entered, open, mask, caught, strays, fate>>
      /\ active' = Append(active, calls + 1) /\ calls' = calls + 1
      /\ calls + 1 \in 0..MaxCalls
  BY <1>1 DEF CallFunction, Types
<1>3. Types'
  BY <1>1, <1>2 DEF Types
<1>4. Chain(entered, open, active')
  <2> SUFFICES ASSUME NEW k \in 1..Len(open)
               PROVE  IsPrefix(entered[open[k]].active, active')
    BY <1>1 DEF Nesting, Chain
  <2>1. PICK s \in Seq(0..MaxCalls) : s = entered[open[k]].active
    <3>1. open[k] \in 1..Len(entered)
      BY <1>1 DEF Nesting, Chain
    <3> QED
      BY <1>1, <3>1, FrameOf
  <2>2. IsPrefix(s, active)
    BY <1>1, <2>1 DEF Nesting, Chain
  <2>3. active \in Seq(0..MaxCalls)
    BY <1>1 DEF Types
  <2>4. \A x \in 0..MaxCalls : IsPrefix(s, Append(active, x))
    BY <2>2, <2>3, BelowCall
  <2> QED
    BY <1>2, <2>1, <2>4
<1>5. Nesting'
  BY <1>1, <1>2, <1>4 DEF Nesting
<1>6. Elements' /\ Straight'
  BY <1>1, <1>2 DEF Elements, Straight, Running
<1> QED
  BY <1>2, <1>3, <1>5, <1>6 DEF IndInv
\* return takes the innermost blocks with it: what stays open was entered by the
\* functions that stay active.
LEMMA ReturnKeeps ==
  ASSUME IndInv, ReturnFunction
  PROVE  IndInv'
<1>1. /\ Types /\ Nesting /\ Elements /\ Straight /\ fate = "running"
      /\ depth <= Size /\ Held(buf, open, depth) /\ Reachable(buf, entered, depth)
  BY DEF IndInv, ReturnFunction, Elements, Running
<1>2. /\ UNCHANGED <<depth, buf, entered, calls, mask, caught, fate>>
      /\ active' = Front(active) /\ Len(active) > 1
      /\ strays' = (strays \/ open' # open)
  BY DEF ReturnFunction
<1>3. PICK n \in 0..Len(open) :
        /\ n > 0 => entered[open[n]].active # active
        /\ open' = SubSeq(open, 1, n)
  BY DEF ReturnFunction
<1>4. /\ open \in Seq(Nat) /\ Len(open) \in Nat /\ active \in Seq(0..MaxCalls)
      /\ Len(active) \in Nat /\ active # <<>> /\ n \in Nat
  BY <1>1, <1>2 DEF Types
<1>5. open' \in Seq(Nat) /\ Len(open') = n /\ \A k \in 1..n : open'[k] = open[k]
  BY <1>3, <1>4, OuterPart
<1>6. active' \in Seq(0..MaxCalls)
  BY <1>2, <1>4, FrontOf
<1>7. Types'
  <2>1. strays' \in BOOLEAN
    BY <1>2
  <2> QED
    BY <1>1, <1>2, <1>5, <1>6, <2>1 DEF Types
<1>8. Chain(entered, open', active')
  <2>1. Chain(entered, open', active)
    BY <1>1, <1>3, <1>4, OuterChain DEF Nesting
  <2> SUFFICES ASSUME NEW k \in 1..n
               PROVE  IsPrefix(entered[open[k]].active, active')
    BY <1>5, <2>1 DEF Chain
  <2> DEFINE s == entered[open[k]].active
             t == entered[open[n]].active
  <2>2. n > 0 /\ n \in 1..Len(open) /\ k \in 1..Len(open)
    BY <1>4
  <2>3. /\ open[k] \in 1..Len(entered) /\ open[n] \in 1..Len(entered)
        /\ IsPrefix(s, active) /\ IsPrefix(t, active)
        /\ entered[open[n]].outer = SubSeq(open, 1, n - 1)
    BY <1>1, <2>2 DEF Nesting, Chain
  <2>4. s \in Seq(0..MaxCalls) /\ t \in Seq(0..MaxCalls)
    BY <1>1, <2>3, FrameOf
  <2>5. IsPrefix(s, t)
    <3>1. CASE k = n
      BY <2>4, <3>1, PrefixIs
    <3>2. CASE k # n
      <4>1. k \in 1..(n - 1) /\ n - 1 \in 0..Len(open)
        BY <1>4, <3>2
      <4>2. PICK m \in 0..Len(open) : m = n - 1
        BY <4>1
      <4>3. Len(SubSeq(open, 1, m)) = m /\ \A j \in 1..m : SubSeq(open, 1, m)[j] = open[j]
        BY <1>4, OuterPart
      <4>4. Chain(entered, SubSeq(open, 1, m), t)
        BY <1>1, <2>3, <4>2 DEF Nesting
      <4> QED
        BY <4>1, <4>2, <4>3, <4>4 DEF Chain
    <3> QED
      BY <3>1, <3>2
  <2>6. t # active
    BY <1>3, <2>2
  <2> HIDE DEF s, t
  <2>7. Len(s) < Len(active)
    <3>1. Len(t) # Len(active)
      <4> SUFFICES ASSUME Len(t) = Len(active) PROVE FALSE
        OBVIOUS
      <4>1. \A i \in 1..Len(t) : t[i] = active[i]
        BY <1>4, <2>3, <2>4, PrefixIs
      <4> QED
        BY <1>4, <2>4, <2>6, <4>1
    <3>2. Len(s) <= Len(t) /\ Len(t) <= Len(active)
      BY <2>3, <2>5 DEF IsPrefix
    <3> QED
      BY <1>4, <2>4, <3>1, <3>2
  <2>8. IsPrefix(s, Front(active))
    BY <1>4, <2>3, <2>4, <2>7, BelowReturn
  <2> QED
    BY <1>2, <2>8 DEF s
<1>9. Nesting'
  BY <1>1, <1>2, <1>8 DEF Nesting
<1>10. Elements'
  <2>1. Held(buf, open', depth)
    BY <1>1, <1>3, <1>4, OuterChain
  <2> QED
    BY <1>1, <1>2, <2>1 DEF Elements
<1>11. Straight'
  <2>1. CASE open' = open
    BY <1>1, <1>2, <2>1 DEF Straight, Running
  <2>2. CASE open' # open
    BY <1>2, <2>2 DEF Straight
  <2> QED
    BY <2>1, <2>2
<1> QED
  BY <1>1, <1>2, <1>7, <1>9, <1>10, <1>11 DEF IndInv

\* Where an exception arrives as long as no block was left by return, break or goto:
\* in the innermost of the open blocks.
LEMMA RaiseArrives ==
  ASSUME IndInv, Running, ~strays, open # <<>>, NEW x \in Codes \cup Signals, NEW m,
         Raise(x, m)
  PROVE  /\ depth > 0 /\ buf[depth - 1].block = Last(open)
         /\ open' = Front(open) /\ active' = entered[Last(open)].active
         /\ mask' = {} /\ caught' = [thrown |-> x, read |-> x] /\ fate' = "running"
<1>1. Types /\ Nesting /\ Elements /\ Straight /\ open \in Seq(Nat) /\ depth \in 0..UIntMax
  BY DEF IndInv, Types
<1>2. Len(open) \in Nat \ {0} /\ depth = Len(open) /\ depth <= Size
  <2>1. depth = Len(open) /\ depth <= Size
    BY <1>1 DEF Straight, Elements
  <2>2. Len(open) \in Nat \ {0}
    BY <1>1
  <2> QED
    BY <2>1, <2>2
<1>3. buf[depth - 1].block = open[depth] /\ Last(open) = open[depth]
  <2>1. \A k \in 1..Len(open) : k <= Size => buf[k - 1].block = open[k]
    BY <1>1 DEF Straight
  <2>2. depth \in 1..Len(open)
    BY <1>2
  <2> QED
    BY <1>2, <2>1, <2>2 DEF Last
<1>4. Dec(depth) = depth - 1 /\ depth - 1 < Size /\ depth - 1 \in 0..(Size - 1)
  <2>1. Dec(depth) = depth - 1
    BY <1>1, <1>2, Unsigned
  <2> QED
    BY <1>2, <2>1
<1>5. /\ open[depth] \in 1..Len(entered) /\ IsPrefix(entered[open[depth]].active, active)
      /\ entered[open[depth]].outer = Front(open)
  BY <1>1, <1>2 DEF Nesting, Chain, Front
<1>6. /\ depth' = depth - 1 /\ buf' = [buf EXCEPT ![depth - 1].result = x]
      /\ open' = Front(open) /\ active' = entered[Last(open)].active
      /\ mask' = buf[depth - 1].mask /\ fate' = fate
      /\ caught' = [thrown |-> x, read |-> buf'[depth - 1].result]
  BY <1>3, <1>4, <1>5 DEF Raise, Restored
<1>7. buf \in [0..(Size - 1) -> Element] /\ buf[depth - 1] \in Element
  BY <1>1, <1>4 DEF Types
<1>8. buf[depth - 1].mask = {} /\ buf'[depth - 1].result = x
  BY <1>4, <1>6, <1>7 DEF Element
<1> QED
  BY <1>2, <1>3, <1>6, <1>8 DEF Running

\* An exception takes the depth back to the element it is thrown through, and the
\* blocks around the one it arrives in have their elements below.
LEMMA RaiseKeeps ==
  ASSUME IndInv, Running, NEW x \in Codes \cup Signals, NEW m, Raise(x, m),
         UNCHANGED <<entered, calls, strays>>
  PROVE  IndInv'
<1> DEFINE i == depth - 1
           b == buf[i].block
<1>1. /\ Types /\ Nesting /\ Elements /\ Straight /\ fate = "running"
      /\ depth <= Size /\ Held(buf, open, depth) /\ Reachable(buf, entered, depth)
      /\ depth \in 0..UIntMax
  BY DEF IndInv, Elements, Running, Types
<1>2. CASE depth = 0
  <2>1. depth' = UIntMax /\ ~(UIntMax < Size) /\ Dec(depth) = UIntMax
    <3>1. Dec(depth) = UIntMax
      BY <1>2, Unsigned
    <3>2. depth' = Dec(depth)
      BY DEF Raise
    <3>3. ~(UIntMax < Size)
      OBVIOUS
    <3> QED
      BY <3>1, <3>2, <3>3
  <2>2. fate' = "wild" /\ UNCHANGED <<buf, open, active, mask, caught>>
    BY <1>2, <2>1 DEF Raise
  <2>3. Types'
    BY <1>1, <2>1, <2>2 DEF Types, Fates
  <2>4. Nesting' /\ Elements'
    BY <1>1, <2>2 DEF Nesting, Elements, Running
  <2>5. Straight'
    BY <1>1, <1>2, <2>2 DEF Straight, Running, Types
  <2> QED
    BY <2>2, <2>3, <2>4, <2>5 DEF IndInv
<1>3. CASE depth > 0
  <2>1. Dec(depth) = i /\ i < Size /\ i \in 0..(Size - 1) /\ i \in 0..(depth - 1)
    BY <1>1, <1>3, Unsigned
  <2>2. depth' = i /\ buf' = [buf EXCEPT ![i].result = x]
    BY <2>1 DEF Raise
  <2>3. b \in 1..Len(entered) /\ Held(buf, entered[b].outer, i)
    BY <1>1, <2>1 DEF Reachable
  <2>4. buf \in [0..(Size - 1) -> Element]
    BY <1>1 DEF Types
  <2>5. /\ buf' \in [0..(Size - 1) -> Element] /\ buf'[i].result = x
        /\ \A j \in 0..(Size - 1) : buf'[j].block = buf[j].block
    <3>1. PICK el \in Element : el = buf[i]
      BY <2>1, <2>4
    <3>2. [el EXCEPT !.result = x] \in Element /\ [el EXCEPT !.result = x].block = el.block
      BY <3>1 DEF Element
    <3>3. buf'[i] = [el EXCEPT !.result = x] /\ [el EXCEPT !.result = x].result = x
      BY <2>1, <2>2, <2>4, <3>1 DEF Element
    <3>4. \A j \in 0..(Size - 1) : j # i => buf'[j] = buf[j]
      BY <2>1, <2>2, <2>4
    <3>5. buf' = [buf EXCEPT ![i] = buf'[i]]
      BY <2>1, <2>2, <2>4
    <3>6. buf' \in [0..(Size - 1) -> Element]
      BY <2>1, <2>4, <3>2, <3>3, <3>5
    <3> QED
      BY <3>1, <3>2, <3>3, <3>4, <3>6
  <2>6. buf[i].mask = {}
    BY <2>1, <2>4 DEF Element
  <2>7. entered[b].active \in Seq(0..MaxCalls) /\ entered[b].outer \in Seq(Nat)
    BY <1>1, <2>3, FrameOf
  <2>8. CASE IsPrefix(entered[b].active, active)
    <3>1. /\ open' = entered[b].outer /\ active' = entered[b].active /\ mask' = {}
          /\ caught' = [thrown |-> x, read |-> x] /\ fate' = "running"
      BY <1>1, <2>1, <2>2, <2>5, <2>6, <2>8 DEF Raise, Restored
    <3>2. Types'
      <4>1. caught'.read = caught'.thrown
        BY <3>1
      <4>2. depth' \in 0..UIntMax
        BY <1>1, <2>1, <2>2
      <4> QED
        BY <1>1, <2>5, <2>7, <3>1, <4>1, <4>2 DEF Types
    <3>3. Nesting'
      BY <1>1, <2>3, <3>1 DEF Nesting
    <3>4. Elements'
      <4> HIDE DEF i, b
      <4>1. i \in Nat /\ i <= Size /\ \A j \in 0..(i - 1) : j \in 0..(Size - 1) /\ j \in 0..(depth - 1)
        BY <1>1, <2>1
      <4>2. Held(buf', open', i)
        BY <2>3, <2>5, <3>1, <4>1, HeldKept
      <4>3. ASSUME NEW j \in 0..(i - 1)
            PROVE  /\ buf'[j].block \in 1..Len(entered)
                   /\ Held(buf', entered[buf'[j].block].outer, j)
        <5>1. /\ buf'[j].block = buf[j].block /\ buf[j].block \in 1..Len(entered)
              /\ Held(buf, entered[buf[j].block].outer, j)
          BY <1>1, <2>5, <4>1 DEF Reachable
        <5>2. j \in Nat /\ \A k \in 0..(j - 1) : buf'[k].block = buf[k].block
          BY <2>5, <4>1
        <5>3. Held(buf', entered[buf[j].block].outer, j)
          BY <5>1, <5>2, HeldKept
        <5> QED
          BY <5>1, <5>3
      <4>4. Reachable(buf', entered', i)
        BY <4>3 DEF Reachable
      <4> QED
        BY <2>2, <4>1, <4>2, <4>4 DEF Elements
    <3>5. Straight'
      <4> SUFFICES ASSUME ~strays
                   PROVE  /\ depth' = Len(open')
                          /\ \A k \in 1..Len(open') : k <= Size => buf'[k - 1].block = open'[k]
        BY <3>1 DEF Straight, Running
      <4>1. depth = Len(open) /\ \A k \in 1..Len(open) : k <= Size => buf[k - 1].block = open[k]
        BY <1>1 DEF Straight, Running
      <4>2. open \in Seq(Nat) /\ open # <<>>
        BY <1>1, <1>3, <4>1 DEF Types
      <4>3. open' = Front(open)
        BY <4>2, RaiseArrives
      <4>4. Len(open) \in Nat /\ Len(open') = Len(open) - 1 /\ \A k \in 1..(Len(open) - 1) : open'[k] = open[k]
        BY <4>2, <4>3, FrontOf
      <4>5. ASSUME NEW k \in 1..Len(open'), k <= Size PROVE buf'[k - 1].block = open'[k]
        <5>1. k - 1 \in 0..(Size - 1) /\ k \in 1..(Len(open) - 1) /\ k \in 1..Len(open)
          BY <4>4, <4>5
        <5> QED
          BY <2>5, <4>1, <4>4, <4>5, <5>1
      <4> QED
        BY <2>2, <4>1, <4>4, <4>5
    <3> QED
      BY <3>1, <3>2, <3>3, <3>4, <3>5 DEF IndInv
  <2>9. CASE ~IsPrefix(entered[b].active, active)
    <3>1. fate' = "dead frame" /\ UNCHANGED <<open, active, mask, caught>>
      BY <2>1, <2>2, <2>9 DEF Raise
    <3>2. strays
      <4> SUFFICES ASSUME ~strays PROVE FALSE
        OBVIOUS
      <4>1. depth = Len(open) /\ open \in Seq(Nat)
        BY <1>1 DEF Straight, Running, Types
      <4>2. open # <<>>
        BY <1>3, <4>1
      <4>3. fate' = "running"
        BY <4>2, RaiseArrives
      <4> QED
        BY <3>1, <4>3
    <3>3. Types'
      <4>1. depth' \in 0..UIntMax
        BY <1>1, <2>1, <2>2
      <4> QED
        BY <1>1, <2>5, <3>1, <4>1 DEF Types, Fates
    <3>4. Nesting' /\ Elements' /\ Straight'
      BY <1>1, <3>1, <3>2 DEF Nesting, Elements, Straight, Running
    <3> QED
      BY <3>1, <3>3, <3>4 DEF IndInv
  <2> QED
    BY <2>8, <2>9
<1> QED
  BY <1>1, <1>2, <1>3

\* A fault is raised like a throw: its signal is never blocked.
LEMMA FaultRaises ==
  ASSUME IndInv, NEW s \in Signals, Fault(s)
  PROVE  Running /\ Raise(s, mask \cup {s}) /\ UNCHANGED <<entered, calls, strays>>
<1>1. mask = {}
  BY DEF IndInv, Types
<1> QED
  BY <1>1 DEF Fault

\* Every step keeps the invariant.
LEMMA NextIndInv == IndInv /\ [Next]_vars => IndInv'
<1> SUFFICES ASSUME IndInv, [Next]_vars PROVE IndInv'
  OBVIOUS
<1>1. CASE Try
  BY <1>1, TryKeeps
<1>2. CASE EndOfBody \/ BreakOut
  BY <1>2, LeaveKeeps
<1>3. ASSUME NEW x \in Codes, Throw(x) PROVE IndInv'
  <2>1. Running /\ Raise(x, mask) /\ UNCHANGED <<entered, calls, strays>>
    BY <1>3 DEF Throw
  <2> QED
    BY <2>1, RaiseKeeps
<1>4. ASSUME NEW s \in Signals, Fault(s) PROVE IndInv'
  <2>1. Running /\ Raise(s, mask \cup {s}) /\ UNCHANGED <<entered, calls, strays>>
    BY <1>4, FaultRaises
  <2> QED
    BY <2>1, RaiseKeeps
<1>5. CASE CallFunction
  BY <1>5, CallKeeps
<1>6. CASE ReturnFunction
  BY <1>6, ReturnKeeps
<1>7. CASE UNCHANGED vars
  BY <1>7 DEF vars, IndInv, Types, Nesting, Elements, Straight, Running
<1> QED
  BY <1>1, <1>2, <1>3, <1>4, <1>5, <1>6, <1>7 DEF Next

\* What the invariant says of the handlers.
LEMMA IndInvNested == IndInv => HandlersNested
<1> SUFFICES ASSUME IndInv PROVE HandlersNested
  OBVIOUS
<1>1. Types /\ Nesting /\ Elements /\ Straight /\ fate # "killed"
  BY DEF IndInv
<1>2. TypeOK
  <2>1. ToSet(open) \subseteq DOMAIN entered
    <3>1. \A k \in 1..Len(open) : open[k] \in 1..Len(entered)
      BY <1>1 DEF Nesting, Chain
    <3>2. DOMAIN open = 1..Len(open) /\ DOMAIN entered = 1..Len(entered)
      BY <1>1 DEF Types
    <3> QED
      BY <3>1, <3>2 DEF ToSet
  <2>2. ToSet(active) \subseteq 0..MaxCalls
    BY <1>1 DEF Types, ToSet
  <2> QED
    BY <1>1, <2>1, <2>2 DEF Types, TypeOK
<1>3. Running => \A k \in DOMAIN open : \E i \in 0..(depth - 1) : buf[i].block = open[k]
  <2>1. DOMAIN open = 1..Len(open)
    BY <1>1 DEF Types
  <2> QED
    BY <1>1, <2>1 DEF Elements, Held
<1> QED
  BY <1>1, <1>2, <1>3 DEF HandlersNested, Straight, Types

\* The macros of except.h keep nested handlers for an array of any size, any codes
\* and signals and any program.  While blocks end at their CATCH or EXCEPT or by
\* an exception, the array holds exactly the open blocks, so that neither a dead
\* frame nor an element outside the array is jumped through and only a full array
\* is overrun.  After return, break or goto out of a block every open block still
\* has an element below depth.  CATCH reads what was thrown, and no fault meets
\* its signal blocked.
THEOREM HandlersStayNested == Spec => []HandlersNested
<1>1. Init => IndInv
  BY InitIndInv
<1>2. IndInv /\ [Next]_vars => IndInv'
  BY NextIndInv
<1>3. IndInv => HandlersNested
  BY IndInvNested
<1> QED
  BY <1>1, <1>2, <1>3, PTL DEF Spec

\* Something is thrown or faults while the program runs.
Raised(x) == (x \in Codes /\ Throw(x)) \/ (x \in Signals /\ Fault(x))

\* THROW and sig: as long as no block was left by return, break or goto, what is
\* raised with a block open is caught by the innermost of them, in the
\* function that entered it, with no signal blocked, and CATCH compares with it.
THEOREM CaughtByInnermost ==
  Spec => [][\A x \in Codes \cup Signals : Raised(x) /\ ~strays /\ open # <<>> =>
               /\ open' = Front(open) /\ active' = entered[Last(open)].active
               /\ mask' = {} /\ caught' = [thrown |-> x, read |-> x]
               /\ fate' = "running"]_vars
<1> DEFINE A(x) == Raised(x) /\ ~strays /\ open # <<>> =>
                     /\ open' = Front(open) /\ active' = entered[Last(open)].active
                     /\ mask' = {} /\ caught' = [thrown |-> x, read |-> x]
                     /\ fate' = "running"
<1>1. Init => IndInv
  BY InitIndInv
<1>2. IndInv /\ [Next]_vars => IndInv'
  BY NextIndInv
<1>3. IndInv => \A x \in Codes \cup Signals : A(x)
  <2> SUFFICES ASSUME IndInv, NEW x \in Codes \cup Signals, Raised(x), ~strays, open # <<>>
               PROVE  /\ open' = Front(open) /\ active' = entered[Last(open)].active
                      /\ mask' = {} /\ caught' = [thrown |-> x, read |-> x]
                      /\ fate' = "running"
    OBVIOUS
  <2>1. CASE x \in Codes /\ Throw(x)
    <3>1. Running /\ Raise(x, mask)
      BY <2>1 DEF Throw
    <3> QED
      BY <3>1, RaiseArrives
  <2>2. CASE x \in Signals /\ Fault(x)
    <3>1. Running /\ Raise(x, mask \cup {x})
      BY <2>2, FaultRaises
    <3> QED
      BY <3>1, RaiseArrives
  <2> QED
    BY <2>1, <2>2 DEF Raised
<1> QED
  BY <1>1, <1>2, <1>3, PTL DEF Spec

-----------------------------------------------------------------------------
(***************************************************************************)
(* The sessions of cmake/asio/net, for any set of connections and any      *)
(* number of descriptors.                                                  *)
(***************************************************************************)

\* The socket, the reader and the writer of a session agree.
Agree(c) ==
  /\ c \in sockets <=> reader[c] \notin {"none", "failed"}
  /\ c \in sockets => writer[c] \in {"start", "waiting"}
  /\ writer[c] = "waiting" => c \in sockets

\* KeptExactly speaks of the time after initNet; before it there is no session,
\* which is what the first step of run needs.
AsioInv ==
  /\ AsioTypeOK
  /\ io \in {"starting", "running"} => \A c \in Conn : Agree(c)
  /\ io = "crashed" => \E c \in Conn : sent[c] = "short"

\* Before initNet there is no session.
LEMMA InitAsio == AsioInit => AsioInv
  BY DEF AsioInit, AsioInv, AsioTypeOK, Agree

\* A step of the listener, of a coroutine or of a peer leaves every session
\* with a socket, a reader and a writer that agree.
LEMMA NextAsio == AsioInv /\ [AsioNext]_asioVars => AsioInv'
<1> SUFFICES ASSUME AsioInv, [AsioNext]_asioVars
             PROVE  AsioInv'
  OBVIOUS
<1> USE DEF AsioInv, AsioTypeOK, Agree, peerVars, sessionVars
<1>1. CASE InitNet
  BY <1>1 DEF InitNet
<1>2. CASE Signal
  BY <1>2 DEF Signal
<1>3. ASSUME NEW c \in Conn, Accept(c)
      PROVE  AsioInv'
  <2>1. reader'[c] = "start" /\ writer'[c] = "start" /\ c \in sockets'
    BY <1>3 DEF Accept
  <2>2. \A d \in Conn \ {c} : /\ reader'[d] = reader[d] /\ writer'[d] = writer[d]
                              /\ d \in sockets' <=> d \in sockets
    BY <1>3 DEF Accept
  <2> QED
    BY <1>3, <2>1, <2>2 DEF Accept
<1>4. ASSUME NEW c \in Conn, AcceptFails(c)
      PROVE  AsioInv'
  BY <1>4 DEF AcceptFails
<1>5. ASSUME NEW c \in Conn, ReaderStarts(c)
      PROVE  AsioInv'
  BY <1>5 DEF ReaderStarts
<1>6. ASSUME NEW c \in Conn, ReaderGetsLength(c)
      PROVE  AsioInv'
  BY <1>6 DEF ReaderGetsLength
<1>7. ASSUME NEW c \in Conn, ReaderGetsBody(c)
      PROVE  AsioInv'
  BY <1>7 DEF ReaderGetsBody
<1>8. ASSUME NEW c \in Conn, ReaderFails(c)
      PROVE  AsioInv'
  <2>1. reader'[c] = "failed" /\ writer'[c] # "waiting" /\ c \notin sockets'
    BY <1>8 DEF ReaderFails, Stop
  <2>2. \A d \in Conn \ {c} : /\ reader'[d] = reader[d] /\ writer'[d] = writer[d]
                              /\ d \in sockets' <=> d \in sockets
    BY <1>8 DEF ReaderFails, Stop
  <2>3. AsioTypeOK'
    BY <1>8 DEF ReaderFails, Stop
  <2> QED
    BY <1>8, <2>1, <2>2, <2>3 DEF ReaderFails
<1>9. ASSUME NEW c \in Conn, WriterRuns(c)
      PROVE  AsioInv'
  BY <1>9 DEF WriterRuns
<1>10. ASSUME NEW c \in Conn, Peer(c)
       PROVE  AsioInv'
  BY <1>10 DEF Peer, Connect, Send, Leave
<1>11. CASE UNCHANGED asioVars
  BY <1>11 DEF asioVars
<1> QED
  BY <1>1, <1>2, <1>3, <1>4, <1>5, <1>6, <1>7, <1>8, <1>9, <1>10, <1>11
     DEF AsioNext, Listen, Reader

\* While io_context::run runs, a session's socket is open exactly until its
\* reader fails and its writer never waits on a closed one; and the process
\* crashes only over a message that is too short.
THEOREM SessionsKeptExactly == AsioSpec => []KeptExactly
<1>1. AsioInv => KeptExactly
  BY DEF AsioInv, KeptExactly, Agree
<1> QED
  BY <1>1, InitAsio, NextAsio, PTL DEF AsioSpec

\* What a step may never do while run runs: close the socket of a session, other
\* than by its own reader, which has lost its peer before the message was
\* complete.
ClosedByReader ==
  \A c \in Conn : c \in sockets /\ c \notin sockets' /\ io' = "running" =>
    reader[c] \in {"length", "body"} /\ reader'[c] = "failed" /\ peer[c] = "gone"

\* No step closes a served session: neither the peer's leaving nor a failure
\* of another session gives its descriptor back.
THEOREM OnlyReaderCloses == AsioSpec => [][ClosedByReader]_asioVars
<1>1. AsioInv /\ [AsioNext]_asioVars => [ClosedByReader]_asioVars
  <2> SUFFICES ASSUME AsioInv, AsioNext
               PROVE  ClosedByReader
    OBVIOUS
  <2> SUFFICES ASSUME NEW c \in Conn, c \in sockets, c \notin sockets', io' = "running"
               PROVE  reader[c] \in {"length", "body"} /\ reader'[c] = "failed"
                      /\ peer[c] = "gone"
    BY DEF ClosedByReader
  <2>1. ASSUME NEW d \in Conn, ReaderFails(d)
        PROVE  reader[c] \in {"length", "body"} /\ reader'[c] = "failed"
               /\ peer[c] = "gone"
    <3>1. c = d
      BY <2>1 DEF ReaderFails, Stop
    <3> QED
      BY <2>1, <3>1 DEF ReaderFails, AsioInv, AsioTypeOK
  <2>2. ~InitNet /\ ~Signal
    BY DEF InitNet, Signal, sessionVars
  <2>3. \A d \in Conn : /\ ~Listen(d) /\ ~WriterRuns(d) /\ ~Peer(d)
                        /\ ~ReaderStarts(d) /\ ~ReaderGetsLength(d)
                        /\ ~ReaderGetsBody(d)
    BY DEF Listen, Accept, AcceptFails, WriterRuns, Peer, ReaderStarts,
           ReaderGetsLength, ReaderGetsBody, sessionVars
  <2> QED
    BY <2>1, <2>2, <2>3 DEF AsioNext, Reader
<1> QED
  BY <1>1, InitAsio, NextAsio, PTL DEF AsioSpec

-----------------------------------------------------------------------------
(***************************************************************************)
(* The AcceptEx server in Go: the collector takes the place of free, and   *)
(* nothing is known of the IOData once it has taken one the kernel uses.   *)
(***************************************************************************)

\* What main and the workers hold is typed, is not collected, and is one's only.
GoHeld ==
  /\ GoTypeOK
  /\ InHand \subseteq live
  /\ \A v, w \in Busy : wio[v] = wio[w] => v = w
  /\ mdata \notin {wio[w] : w \in Busy}

\* Every IOData is in one place and has a socket of its own.
GoOwn ==
  /\ OnePerIo /\ InHand \cap InFlight = {}
  /\ \A d \in InHand \cup InFlight : Open(cliSock[d])
  /\ \A d, e \in InHand \cup InFlight : cliSock[d] = cliSock[e] => d = e

\* What main holds, by where it is.
GoHands ==
  /\ mpc \in {"accept", "wait", "send"} => mdata # Null
  /\ mdata # Null => mpc \in {"accept", "wait", "send", "panic"}
  /\ accept # "none" => mpc \in {"wait", "panic"}

\* A packet without IOData has no bytes: it never reaches the echo.
GoEnds ==
  /\ \A i \in 1..Len(queue) : queue[i].io = Null => queue[i].size = 0
  /\ \A w \in Worker : wpc[w] = "work" /\ wio[w] = Null => wsize[w] = 0

GoInv == GoHeld /\ GoHands /\ GoEnds /\ GoOwn /\ Intact

\* A state the process takes a step from.
GoReady == GoInv /\ mpc \notin {"done", "panic"}

\* What holds whatever the collector has taken, and what holds before.
GoSafe == GoTypeOK /\ GoHands /\ GoEnds /\ (~astray => GoInv)

-----------------------------------------------------------------------------
(***************************************************************************)
(* closeIO, postRead and postWrite on an IOData in hand.                   *)
(***************************************************************************)

\* The state after one of them: at most d has gone to the kernel, and the sockets
\* of all others are as open as before.
GoHanded(d) ==
  /\ PortTypeOK' /\ PendUnique' /\ isRead' \in [Io -> BOOLEAN]
  /\ queue' = queue /\ live' = live /\ astray' = astray /\ cliSock' = cliSock
  /\ PendingIo \subseteq PendingIo' /\ PendingIo' \subseteq PendingIo \cup {d}
  /\ \A e \in InHand \cup InFlight : e # d \/ e \in PendingIo' => Open(cliSock[e])'

\* The kernel takes the IOData over, or its socket and nobody else's is closed.
LEMMA GoPost ==
  ASSUME GoHeld, GoOwn, NEW d \in InHand,
         closeIO(d) \/ postRead(d) \/ postWrite(d)
  PROVE  GoHanded(d)
<1>1. /\ PortTypeOK /\ PendUnique /\ d \in Io /\ isRead \in [Io -> BOOLEAN]
      /\ cliSock \in [Io -> Sock \cup {Invalid}] /\ d \notin PendingIo
      /\ d \notin InFlight
  BY DEF GoHeld, GoTypeOK, GoOwn, OnePerIo, PendUnique, InFlight
<1>2. CASE closeIO(d)
  <2>1. CloseSocket(cliSock[d]) /\ UNCHANGED <<queue, live, astray, isRead, cliSock>>
    BY <1>2 DEF closeIO, CloseSocket, heapVars
  <2>2. /\ PendUnique' /\ PendingIo' = PendingIo /\ PortTypeOK'
        /\ \A x \in Sock \ {cliSock[d]} : sock'[x] = sock[x]
    BY <1>1, <2>1, CloseKeeps DEF PortTypeOK
  <2>3. ASSUME NEW e \in InHand \cup InFlight, e # d \/ e \in PendingIo'
        PROVE  Open(cliSock[e])'
    <3>1. e # d /\ Open(cliSock[e]) /\ cliSock[e] # cliSock[d]
      BY <1>1, <2>2, <2>3 DEF GoOwn, InFlight
    <3> QED
      BY <2>1, <2>2, <3>1 DEF Open
  <2> QED
    BY <1>1, <2>1, <2>2, <2>3 DEF GoHanded
<1>3. ASSUME NEW what \in {"recv", "send"}, NEW b \in BOOLEAN,
             isRead' = [isRead EXCEPT ![d] = b], Issue(d, what, cliSock[d]),
             UNCHANGED <<sock, bound, queue, live, astray, cliSock>>
      PROVE  GoHanded(d)
  <2>1. PortTypeOK' /\ PendUnique' /\ PendingIo' = PendingIo \cup {d}
    BY <1>1, <1>3, IssueKeeps
  <2>2. \A e \in InHand \cup InFlight : Open(cliSock[e])'
    BY <1>3 DEF GoOwn, Open
  <2> QED
    BY <1>1, <1>3, <2>1, <2>2 DEF GoHanded
<1>4. CASE postRead(d)
  BY <1>2, <1>3, <1>4 DEF postRead, Issue, Connected
<1>5. CASE postWrite(d)
  BY <1>2, <1>3, <1>5 DEF postWrite, Issue, Connected
<1> QED
  BY <1>2, <1>4, <1>5

\* Whoever held it lets it go: what is left is owned.
LEMMA GoLetsGo ==
  ASSUME GoHeld, GoOwn, NEW d \in InHand, GoHanded(d), InHand' = InHand \ {d}
  PROVE  GoOwn' /\ InFlight' \subseteq InFlight \cup {d}
<1>1. QueuedIo' = QueuedIo
  BY DEF QueuedIo, GoHanded
<1>2. /\ InFlight' \subseteq InFlight \cup {d} /\ PendingIo' \cap QueuedIo' = {}
      /\ d \in InFlight' => d \in PendingIo'
  BY <1>1 DEF InFlight, GoHanded, GoOwn, OnePerIo
<1>3. OnePerIo'
  BY <1>2 DEF GoHanded, GoOwn, OnePerIo, PendUnique
<1>4. InHand' \cap InFlight' = {}
  BY <1>2 DEF GoOwn
<1>5. \A e \in InHand' \cup InFlight' : e \in InHand \cup InFlight
  BY <1>2
<1>6. \A e \in InHand' \cup InFlight' : Open(cliSock[e])'
  <2> SUFFICES ASSUME NEW e \in InHand' \cup InFlight' PROVE Open(cliSock[e])'
    OBVIOUS
  <2>1. e # d \/ e \in PendingIo'
    BY <1>2
  <2> QED
    BY <1>5, <2>1 DEF GoHanded
<1>7. \A e, f \in InHand' \cup InFlight' : cliSock'[e] = cliSock'[f] => e = f
  BY <1>5 DEF GoHanded, GoOwn
<1> QED
  BY <1>2, <1>3, <1>4, <1>6, <1>7 DEF GoOwn

-----------------------------------------------------------------------------
(***************************************************************************)
(* The steps of the server in Go.                                          *)
(***************************************************************************)

\* At the start there is no IOData.
LEMMA GoStarts == GoInit => GoSafe
<1> SUFFICES ASSUME GoInit PROVE GoSafe
  OBVIOUS
<1>1. /\ sock = [s \in Sock |-> "free"] /\ bound = {} /\ pend = {} /\ queue = <<>>
      /\ live = {} /\ astray = FALSE /\ isRead = [d \in Io |-> TRUE] /\ cliSock = [d \in Io |-> Invalid]
      /\ accept = "none" /\ mpc = "open" /\ mdata = Null
      /\ wpc = [w \in Worker |-> "get"] /\ wio = [w \in Worker |-> Null]
      /\ wsize = [w \in Worker |-> 0]
  BY DEF GoInit, PortInit
<1>2. Busy = {}
  BY <1>1 DEF Busy
<1>3. InHand = {}
  BY <1>1, <1>2 DEF InHand
<1>4. Len(queue) = 0 /\ 1..Len(queue) = {}
  BY <1>1
<1>5. PendingIo = {} /\ QueuedIo = {}
  BY <1>1, <1>4 DEF PendingIo, QueuedIo
<1>6. GoHeld
  <2>1. PortTypeOK
    BY <1>1 DEF PortTypeOK
  <2> QED
    BY <1>1, <1>2, <1>3, <2>1 DEF GoHeld, GoTypeOK
<1>7. GoOwn
  BY <1>1, <1>3, <1>4, <1>5 DEF GoOwn, OnePerIo, InFlight
<1>8. GoHands /\ GoEnds
  BY <1>1, <1>4 DEF GoHands, GoEnds
<1> QED
  BY <1>1, <1>5, <1>6, <1>7, <1>8 DEF GoSafe, GoInv, GoHeld, InFlight, Intact

\* What main and the workers hold after a step of a worker or of main.
LEMMA GoHolding ==
  /\ Busy' = {w \in Worker : wpc'[w] = "work" /\ wio'[w] # Null}
  /\ InHand' = {wio'[w] : w \in Busy'} \cup ({mdata'} \ {Null})
BY DEF Busy, InHand

\* A worker takes a packet; with an error it returns and nobody has the IOData.
LEMMA GoGet ==
  ASSUME GoReady, NEW w \in Worker, Get(w)
  PROVE  GoInv'
<1> DEFINE d == Head(queue).io
<1>1. GoHeld /\ GoHands /\ GoEnds /\ GoOwn /\ InFlight \subseteq live
  BY DEF GoReady, GoInv, Intact
<1>2. /\ queue \in Seq(Packet) /\ QueueUnique /\ queue # <<>> /\ queue' = Tail(queue)
      /\ wpc \in [Worker -> {"get", "work", "returned"}]
      /\ wio \in [Worker -> Io \cup {Null}] /\ wsize \in [Worker -> {0, 1}]
  BY <1>1 DEF Get, GoHeld, GoTypeOK, PortTypeOK, GoOwn, OnePerIo, QueueUnique
<1>3. /\ Head(queue) \in Packet /\ queue' \in Seq(Packet) /\ QueueUnique'
      /\ QueuedIo = QueuedIo' \cup ({d} \ {Null}) /\ d \notin QueuedIo'
  BY <1>2, QueueTail
<1>4. PICK pc \in {"work", "returned"} :
        /\ wpc' = [wpc EXCEPT ![w] = pc] /\ (pc = "returned" => d # Null)
        /\ wpc[w] = "get"
        /\ wio' = [wio EXCEPT ![w] = d] /\ wsize' = [wsize EXCEPT ![w] = Head(queue).size]
        /\ UNCHANGED <<sock, bound, pend, live, astray, isRead, cliSock, accept, mpc, mdata>>
  BY DEF Get, heapVars, mainVars
<1>5. d \in Io \cup {Null} /\ Head(queue).size \in {0, 1} /\ (d = Null => Head(queue).size = 0)
  <2>1. Len(queue) \in Nat \ {0} /\ Head(queue) = queue[1]
    BY <1>2
  <2>2. 1 \in 1..Len(queue)
    BY <2>1
  <2> QED
    BY <1>1, <1>3, <2>1, <2>2 DEF Packet, GoEnds
<1>6. PendingIo' = PendingIo
  BY <1>4 DEF PendingIo
<1> HIDE DEF d
<1>7. Busy' = IF pc = "work" /\ d # Null THEN Busy \cup {w} ELSE Busy
  BY <1>2, <1>4, GoHolding DEF Busy
<1>8. w \notin Busy /\ wio'[w] = d /\ \A v \in Busy : wio'[v] = wio[v]
  BY <1>2, <1>4 DEF Busy
<1>9. InHand' = IF pc = "work" /\ d # Null THEN InHand \cup {d} ELSE InHand
  <2>1. CASE pc = "work" /\ d # Null
    <3>1. Busy' = Busy \cup {w}
      BY <1>7, <2>1
    <3>2. {wio'[v] : v \in Busy'} = {wio[v] : v \in Busy} \cup {d}
      BY <1>8, <3>1
    <3> QED
      BY <1>4, <2>1, <3>2, GoHolding DEF InHand
  <2>2. CASE ~(pc = "work" /\ d # Null)
    <3>1. {wio'[v] : v \in Busy'} = {wio[v] : v \in Busy}
      BY <1>7, <1>8, <2>2
    <3> QED
      BY <1>4, <2>2, <3>1, GoHolding DEF InHand
  <2> QED
    BY <2>1, <2>2
<1>10. /\ InFlight' \subseteq InFlight
       /\ d # Null => d \in InFlight /\ d \notin InFlight' /\ d \notin InHand
  BY <1>1, <1>3, <1>6 DEF InFlight, GoOwn, OnePerIo
<1>11. GoHeld'
  <2>1. PortTypeOK'
    BY <1>1, <1>3, <1>4 DEF GoHeld, GoTypeOK, PortTypeOK
  <2>2. /\ wpc' \in [Worker -> {"get", "work", "returned"}]
        /\ wio' \in [Worker -> Io \cup {Null}] /\ wsize' \in [Worker -> {0, 1}]
    BY <1>2, <1>4, <1>5
  <2>3. InHand' \subseteq live'
    BY <1>1, <1>4, <1>9, <1>10 DEF GoHeld, GoTypeOK
  <2>4. \A v \in Busy : wio[v] \in InHand
    BY DEF InHand
  <2>5. mdata # Null => mdata \in InHand
    BY DEF InHand
  <2>6. \A u, v \in Busy' : wio'[u] = wio'[v] => u = v
    BY <1>1, <1>7, <1>8, <1>10, <2>4 DEF GoHeld, GoTypeOK
  <2>7. mdata' \notin {wio'[v] : v \in Busy'}
    BY <1>1, <1>4, <1>7, <1>8, <1>10, <2>5 DEF GoHeld, GoTypeOK
  <2> QED
    BY <1>1, <1>4, <2>1, <2>2, <2>3, <2>6, <2>7 DEF GoHeld, GoTypeOK
<1>12. GoOwn'
  <2>1. OnePerIo'
    BY <1>1, <1>3, <1>4, <1>6 DEF GoOwn, OnePerIo, QueueUnique
  <2>2. InHand' \cap InFlight' = {} /\ InHand' \cup InFlight' \subseteq InHand \cup InFlight
    BY <1>1, <1>9, <1>10 DEF GoOwn
  <2>3. \A e \in InHand' \cup InFlight' : Open(cliSock[e])'
    BY <1>1, <1>4, <2>2 DEF GoOwn, Open
  <2> QED
    BY <1>1, <1>4, <2>1, <2>2, <2>3 DEF GoOwn
<1>13. GoEnds'
  <2>1. \A i \in 1..Len(queue') : queue'[i] = queue[i + 1] /\ i + 1 \in 1..Len(queue)
    BY <1>2
  <2>2. \A v \in Worker : wpc'[v] = "work" /\ wio'[v] = Null => wsize'[v] = 0
    BY <1>1, <1>2, <1>4, <1>5 DEF GoEnds
  <2> QED
    BY <1>1, <2>1, <2>2 DEF GoEnds
<1>14. GoHands'
  BY <1>1, <1>4 DEF GoHands
<1>15. Intact'
  BY <1>1, <1>4, <1>10 DEF Intact
<1> QED
  BY <1>11, <1>12, <1>13, <1>14, <1>15 DEF GoInv

\* A worker answers, or closes the connection, and lets the IOData go.
LEMMA GoWork ==
  ASSUME GoReady, NEW w \in Worker, Disconnect(w) \/ Echo(w)
  PROVE  GoInv'
<1> DEFINE d == wio[w]
<1>1. GoHeld /\ GoHands /\ GoEnds /\ GoOwn /\ InFlight \subseteq live
  BY DEF GoReady, GoInv, Intact
<1>2. /\ wpc[w] = "work" /\ d # Null /\ UNCHANGED <<wio, wsize, accept, mpc, mdata>>
      /\ \E pc \in {"get", "returned"} : wpc' = [wpc EXCEPT ![w] = pc]
      /\ closeIO(d) \/ postRead(d) \/ postWrite(d)
  BY <1>1 DEF Disconnect, Echo, mainVars, GoEnds
<1>3. PICK pc \in {"get", "returned"} : wpc' = [wpc EXCEPT ![w] = pc]
  BY <1>2
<1>4. w \in Busy /\ d \in InHand
  BY <1>2 DEF Busy, InHand
<1>5. GoHanded(d)
  BY <1>1, <1>2, <1>4, GoPost
<1>6. wpc \in [Worker -> {"get", "work", "returned"}] /\ wpc'[w] # "work"
      /\ \A v \in Worker \ {w} : wpc'[v] = wpc[v]
  BY <1>1, <1>3 DEF GoHeld, GoTypeOK
<1>7. Busy' = Busy \ {w}
  BY <1>2, <1>6, GoHolding DEF Busy
<1>8. InHand' = InHand \ {d}
  <2>1. \A v \in Busy' : wio[v] # d
    BY <1>1, <1>4, <1>7 DEF GoHeld, GoTypeOK
  <2>2. mdata # d
    BY <1>1, <1>4 DEF GoHeld, GoTypeOK
  <2> QED
    BY <1>2, <1>7, <2>1, <2>2, GoHolding DEF InHand
<1> HIDE DEF d
<1>9. GoOwn' /\ InFlight' \subseteq InFlight \cup {d}
  BY <1>1, <1>4, <1>5, <1>8, GoLetsGo
<1>10. GoHeld'
  <2>1. wpc' \in [Worker -> {"get", "work", "returned"}]
    BY <1>3, <1>6
  <2> QED
    BY <1>1, <1>2, <1>5, <1>7, <1>8, <2>1 DEF GoHeld, GoTypeOK, GoHanded
<1>11. GoHands' /\ GoEnds'
  <2>1. \A v \in Worker : wpc'[v] = "work" => wpc[v] = "work"
    BY <1>6
  <2> QED
    BY <1>1, <1>2, <1>5, <2>1 DEF GoHands, GoEnds, GoHanded
<1>12. Intact'
  BY <1>1, <1>4, <1>5, <1>9 DEF GoHeld, GoHanded, Intact
<1> QED
  BY <1>9, <1>10, <1>11, <1>12 DEF GoInv

\* main closes its connection or sends the first bytes back, and lets the IOData go.
LEMMA GoDrop ==
  ASSUME GoReady, GiveUp \/ AcceptEmpty \/ FirstWrite
  PROVE  GoInv'
<1> DEFINE d == mdata
<1>1. GoHeld /\ GoHands /\ GoEnds /\ GoOwn /\ InFlight \subseteq live
  BY DEF GoReady, GoInv, Intact
<1>2. /\ mpc \in {"accept", "wait", "send"} /\ mpc' \in {"open", "post"} /\ mdata' = Null
      /\ UNCHANGED <<wpc, wio, wsize>>
      /\ closeIO(d) \/ postRead(d) \/ postWrite(d)
  BY DEF GiveUp, AcceptEmpty, FirstWrite, workVars
<1>3. accept' = "none"
  BY <1>1 DEF GiveUp, AcceptEmpty, FirstWrite, GoHands
<1>4. d # Null /\ d \in InHand
  BY <1>1, <1>2 DEF GoHands, InHand
<1>5. GoHanded(d)
  BY <1>1, <1>2, <1>4, GoPost
<1>6. Busy' = Busy
  BY <1>2, GoHolding DEF Busy
<1>7. InHand' = InHand \ {d}
  BY <1>1, <1>2, <1>6, GoHolding DEF InHand, GoHeld, GoTypeOK, Busy
<1> HIDE DEF d
<1>8. GoOwn' /\ InFlight' \subseteq InFlight \cup {d}
  BY <1>1, <1>4, <1>5, <1>7, GoLetsGo
<1>9. GoHeld'
  <2>1. Null \notin {wio[w] : w \in Busy}
    BY DEF Busy
  <2> QED
    BY <1>1, <1>2, <1>3, <1>5, <1>6, <1>7, <2>1 DEF GoHeld, GoTypeOK, GoHanded
<1>10. GoHands' /\ GoEnds'
  BY <1>1, <1>2, <1>3, <1>5 DEF GoHands, GoEnds, GoHanded
<1>11. Intact'
  BY <1>1, <1>4, <1>5, <1>8 DEF GoHeld, GoHanded, Intact
<1> QED
  BY <1>8, <1>9, <1>10, <1>11 DEF GoInv

\* A step that moves no IOData and closes nothing.
LEMMA GoQuiet ==
  ASSUME GoReady, UNCHANGED <<pend, queue, live, astray, isRead, cliSock, mdata, wpc, wio, wsize>>,
         PortTypeOK', accept' \in {"none", "pending", "data", "empty"},
         mpc' \in {"open", "accept", "wait", "send", "post", "cleanup", "done", "panic"},
         GoHands', \A x \in Sock : Open(x) => Open(x)'
  PROVE  GoInv'
<1>1. GoHeld /\ GoEnds /\ GoOwn /\ InFlight \subseteq live
  BY DEF GoReady, GoInv, Intact
<1>2. Busy' = Busy /\ InHand' = InHand
  BY DEF Busy, InHand
<1>3. PendingIo' = PendingIo /\ QueuedIo' = QueuedIo /\ InFlight' = InFlight
  BY DEF PendingIo, QueuedIo, InFlight
<1>4. GoHeld'
  BY <1>1, <1>2 DEF GoHeld, GoTypeOK
<1>5. GoOwn'
  <2>1. OnePerIo'
    BY <1>1, <1>3 DEF GoOwn, OnePerIo
  <2>2. \A d \in InHand \cup InFlight : Open(cliSock[d]) /\ cliSock[d] \in Sock
    BY <1>1 DEF GoOwn, Open
  <2>3. \A d \in InHand' \cup InFlight' : Open(cliSock[d])'
    BY <1>2, <1>3, <2>2 DEF Open
  <2> QED
    BY <1>1, <1>2, <1>3, <2>1, <2>3 DEF GoOwn
<1>6. GoEnds'
  BY <1>1 DEF GoEnds
<1> QED
  BY <1>1, <1>3, <1>4, <1>5, <1>6 DEF GoInv, Intact

\* Steps that concern what a connection does or where a goroutine is, Bind included.
LEMMA GoRest ==
  ASSUME GoReady,
         \/ SocketFails \/ StartAccept \/ Accepted \/ Bind \/ Return
         \/ \E w \in Worker : DisconnectNil(w)
         \/ /\ \E s \in Sock : PeerLeaves(s)
            /\ UNCHANGED <<heapVars, mainVars, workVars>>
  PROVE  GoInv'
<1>1. GoHeld /\ GoHands /\ GoOwn
  BY DEF GoReady, GoInv, Intact
<1>2. UNCHANGED <<pend, queue, live, astray, isRead, cliSock, mdata, wpc, wio, wsize>>
  BY DEF SocketFails, StartAccept, Accepted, Bind, Return,
         DisconnectNil, PeerLeaves, portVars, heapVars, mainVars, workVars
<1>3. /\ accept' \in {"none", "pending", "data", "empty"}
      /\ mpc' \in {"open", "accept", "wait", "send", "post", "cleanup", "done", "panic"}
      /\ GoHands'
  BY <1>1 DEF SocketFails, StartAccept, Accepted, Bind, Return,
         DisconnectNil, mainVars, GoHeld, GoTypeOK, GoHands, GoReady
<1>4. accept = "pending" \/ accept = "data" => mdata \in InHand /\ cliSock[mdata] \in Sock
  <2>1. accept # "none" => mdata # Null
    BY <1>1 DEF GoHands, GoReady
  <2> QED
    BY <1>1, <2>1 DEF GoOwn, InHand, Open
<1>5. sock \in [Sock -> {"free", "idle", "up", "down"}] /\ bound \in SUBSET Sock
  BY <1>1 DEF GoHeld, GoTypeOK, PortTypeOK
<1>6. /\ sock' \in [Sock -> {"free", "idle", "up", "down"}]
      /\ \A x \in Sock : sock[x] # "free" => sock'[x] # "free"
  BY <1>5 DEF SocketFails, StartAccept, Accepted, Bind, Return,
         DisconnectNil, PeerLeaves, portVars
<1>7. bound' \in SUBSET Sock
  BY <1>4, <1>5 DEF SocketFails, StartAccept, Accepted, Bind, Return,
         DisconnectNil, PeerLeaves, portVars
<1>8. PortTypeOK' /\ \A x \in Sock : Open(x) => Open(x)'
  BY <1>1, <1>2, <1>6, <1>7 DEF GoHeld, GoTypeOK, PortTypeOK, Open
<1> QED
  BY <1>2, <1>3, <1>8, GoQuiet

\* main makes an IOData the collector has none of, with a socket of its own.
LEMMA GoOpens == ASSUME GoReady, OpenSocket PROVE GoInv'
<1>1. GoHeld /\ GoHands /\ GoEnds /\ GoOwn /\ InFlight \subseteq live
  BY DEF GoReady, GoInv, Intact
<1>2. /\ mpc = "open" /\ mpc' = "accept"
      /\ UNCHANGED <<bound, pend, queue, astray, accept, wpc, wio, wsize>>
  BY DEF OpenSocket, workVars
<1>3. PICK d \in Io \ live, s \in {x \in Sock : sock[x] = "free"} :
        /\ live' = live \cup {d} /\ mdata' = d
        /\ sock' = [sock EXCEPT ![s] = "idle"]
        /\ cliSock' = [cliSock EXCEPT ![d] = s]
        /\ isRead' = [isRead EXCEPT ![d] = TRUE]
  BY DEF OpenSocket
<1>4. mdata = Null /\ accept = "none" /\ d # Null
  BY <1>1, <1>2, PortAssumption DEF GoHands
<1>5. Busy' = Busy /\ InHand' = InHand \cup {d}
  <2>1. Busy' = Busy
    BY <1>2 DEF Busy
  <2> QED
    BY <1>2, <1>3, <1>4, <2>1, GoHolding DEF InHand
<1>6. PendingIo' = PendingIo /\ QueuedIo' = QueuedIo /\ InFlight' = InFlight
  BY <1>2 DEF PendingIo, QueuedIo, InFlight
<1>7. InHand \subseteq live /\ d \notin InHand /\ d \notin InFlight
  BY <1>1 DEF GoHeld, GoTypeOK
<1>8. GoHeld'
  <2>1. PortTypeOK'
    BY <1>1, <1>2, <1>3 DEF GoHeld, GoTypeOK, PortTypeOK
  <2>2. d \notin {wio[w] : w \in Busy}
    BY <1>7 DEF InHand
  <2>3. live' \subseteq Io /\ InHand' \subseteq live' /\ accept' = "none"
    BY <1>1, <1>2, <1>3, <1>4, <1>5, <1>7 DEF GoHeld, GoTypeOK
  <2>4. isRead' \in [Io -> BOOLEAN] /\ cliSock' \in [Io -> Sock \cup {Invalid}]
    BY <1>1, <1>3 DEF GoHeld, GoTypeOK
  <2> QED
    BY <1>1, <1>2, <1>3, <1>5, <2>1, <2>2, <2>3, <2>4 DEF GoHeld, GoTypeOK
<1>9. GoOwn'
  <2>1. OnePerIo'
    BY <1>1, <1>2, <1>6 DEF GoOwn, OnePerIo
  <2>2. /\ cliSock'[d] = s
        /\ \A e \in InHand \cup InFlight : cliSock'[e] = cliSock[e]
    BY <1>1, <1>3, <1>7 DEF GoHeld, GoTypeOK
  <2>3. \A e \in InHand \cup InFlight : Open(cliSock[e]) /\ cliSock[e] # s
    BY <1>1 DEF GoOwn, Open
  <2>4. \A x \in Sock : sock'[x] = IF x = s THEN "idle" ELSE sock[x]
    BY <1>1, <1>3 DEF GoHeld, GoTypeOK, PortTypeOK
  <2>5. \A e \in InHand' \cup InFlight' : Open(cliSock[e])'
    BY <1>5, <1>6, <2>2, <2>3, <2>4 DEF Open
  <2>6. \A e, f \in InHand' \cup InFlight' : cliSock'[e] = cliSock'[f] => e = f
    BY <1>1, <1>5, <1>6, <2>2, <2>3 DEF GoOwn
  <2>7. InHand' \cap InFlight' = {}
    BY <1>1, <1>5, <1>6, <1>7 DEF GoOwn
  <2> QED
    BY <2>1, <2>5, <2>6, <2>7 DEF GoOwn
<1>10. GoHands' /\ GoEnds'
  BY <1>1, <1>2, <1>3, <1>4 DEF GoHands, GoEnds
<1> QED
  BY <1>1, <1>3, <1>6, <1>8, <1>9, <1>10 DEF GoInv, Intact

\* An operation completes: its IOData moves to the queue, or is forgotten.
LEMMA GoCompletes ==
  ASSUME GoReady, NEW p \in pend, NEW n \in {0, 1}, Complete(p, n),
         UNCHANGED <<live, astray, isRead, cliSock, accept, mpc, mdata, wpc, wio, wsize>>
  PROVE  GoInv'
<1> DEFINE pkt == [io |-> p.io, size |-> n]
<1>1. GoHeld /\ GoHands /\ GoEnds /\ GoOwn /\ InFlight \subseteq live
  BY DEF GoReady, GoInv, Intact
<1>2. p \in Op /\ queue \in Seq(Packet) /\ QueueUnique
  BY <1>1 DEF GoHeld, GoTypeOK, PortTypeOK, GoOwn, OnePerIo, QueueUnique
<1>3. /\ pend' = pend \ {p} /\ UNCHANGED <<sock, bound>>
      /\ queue' = IF p.port THEN Append(queue, pkt) ELSE queue
  BY DEF Complete
<1>4. pkt \in Packet /\ pkt.io = p.io /\ p.io # Null
  BY <1>2, PortAssumption DEF Packet, Op
<1>5. p.io \in PendingIo /\ p.io \notin QueuedIo
  BY <1>1 DEF PendingIo, GoOwn, OnePerIo
<1> HIDE DEF pkt
<1>6. /\ queue' \in Seq(Packet) /\ QueueUnique'
      /\ QueuedIo' \subseteq QueuedIo \cup {p.io}
  <2>1. CASE p.port
    BY <1>2, <1>3, <1>4, <1>5, <2>1, QueueAppend
  <2>2. CASE ~p.port
    BY <1>2, <1>3, <2>2 DEF QueueUnique, QueuedIo
  <2> QED
    BY <2>1, <2>2
<1>7. PendingIo' = PendingIo \ {p.io}
  BY <1>1, <1>3 DEF PendingIo, GoOwn, OnePerIo
<1>8. Busy' = Busy /\ InHand' = InHand /\ InFlight' \subseteq InFlight
  <2>1. Busy' = Busy /\ InHand' = InHand
    BY DEF Busy, InHand
  <2> QED
    BY <1>5, <1>6, <1>7, <2>1 DEF InFlight
<1>9. GoHeld'
  <2>1. PortTypeOK'
    BY <1>1, <1>3, <1>6 DEF GoHeld, GoTypeOK, PortTypeOK
  <2> QED
    BY <1>1, <1>8, <2>1 DEF GoHeld, GoTypeOK
<1>10. GoOwn'
  <2>1. PendingIo' \cap QueuedIo' = {}
    BY <1>1, <1>6, <1>7 DEF GoOwn, OnePerIo
  <2>2. \A q, r \in pend' : q.io = r.io => q = r
    BY <1>1, <1>3 DEF GoOwn, OnePerIo
  <2>3. OnePerIo'
    BY <1>6, <2>1, <2>2 DEF OnePerIo, QueueUnique
  <2>4. \A e \in InHand' \cup InFlight' : Open(cliSock[e])'
    BY <1>1, <1>3, <1>8 DEF GoOwn, Open
  <2> QED
    BY <1>1, <1>8, <2>3, <2>4 DEF GoOwn
<1>11. GoHands'
  BY <1>1 DEF GoHands
<1>12. GoEnds'
  <2>1. \A i \in 1..Len(queue') : queue'[i].io = Null => queue'[i].size = 0
    <3>1. CASE p.port
      <4>1. /\ queue' = Append(queue, pkt) /\ Len(queue) \in Nat /\ Len(queue') = Len(queue) + 1
            /\ queue'[Len(queue) + 1] = pkt /\ \A i \in 1..Len(queue) : queue'[i] = queue[i]
        BY <1>2, <1>3, <1>4, <3>1
      <4> QED
        BY <1>1, <1>4, <4>1 DEF GoEnds
    <3>2. CASE ~p.port
      BY <1>1, <1>3, <3>2 DEF GoEnds
    <3> QED
      BY <3>1, <3>2
  <2> QED
    BY <1>1, <2>1 DEF GoEnds
<1> QED
  BY <1>1, <1>8, <1>9, <1>10, <1>11, <1>12 DEF GoInv, Intact

\* main posts packets without IOData.
LEMMA GoPosts == ASSUME GoReady, Post PROVE GoInv'
<1>1. GoHeld /\ GoHands /\ GoEnds /\ GoOwn /\ InFlight \subseteq live
  BY DEF GoReady, GoInv, Intact
<1> DEFINE n == Cardinality(Worker)
<1>2. n \in Nat
  BY PortAssumption, FS_CardinalityType
<1>3. /\ mpc = "post" /\ mpc' = "cleanup"
      /\ queue' = queue \o [i \in 1..n |-> [io |-> Null, size |-> 0]]
      /\ UNCHANGED <<sock, bound, pend, live, astray, isRead, cliSock, accept, mdata, wpc, wio, wsize>>
  BY DEF Post, heapVars, workVars
<1>4. queue \in Seq(Packet) /\ QueueUnique
  BY <1>1 DEF GoHeld, GoTypeOK, PortTypeOK, GoOwn, OnePerIo, QueueUnique
<1>5. /\ queue' \in Seq(Packet) /\ QueueUnique' /\ QueuedIo' = QueuedIo
      /\ Len(queue) \in Nat /\ Len(queue') = Len(queue) + n
      /\ \A i \in 1..Len(queue) : queue'[i] = queue[i]
      /\ \A i \in (Len(queue) + 1)..(Len(queue) + n) :
           queue'[i].io = Null /\ queue'[i].size = 0
  BY <1>2, <1>3, <1>4, ExitsPosted
<1> HIDE DEF n
<1>6. PendingIo' = PendingIo /\ InFlight' = InFlight
  BY <1>3, <1>5 DEF PendingIo, InFlight
<1>7. Busy' = Busy /\ InHand' = InHand
  BY <1>3 DEF Busy, InHand
<1>8. GoHeld'
  <2>1. PortTypeOK'
    BY <1>1, <1>3, <1>5 DEF GoHeld, GoTypeOK, PortTypeOK
  <2> QED
    BY <1>1, <1>3, <1>7, <2>1 DEF GoHeld, GoTypeOK
<1>9. GoOwn'
  <2>1. OnePerIo'
    BY <1>1, <1>3, <1>5, <1>6 DEF GoOwn, OnePerIo, QueueUnique
  <2> QED
    BY <1>1, <1>3, <1>6, <1>7, <2>1 DEF GoOwn, Open
<1>10. GoHands' /\ GoEnds'
  <2>1. \A i \in 1..Len(queue') : queue'[i].io = Null => queue'[i].size = 0
    BY <1>1, <1>2, <1>5 DEF GoEnds
  <2> QED
    BY <1>1, <1>3, <2>1 DEF GoHands, GoEnds
<1> QED
  BY <1>1, <1>3, <1>6, <1>8, <1>9, <1>10 DEF GoInv, Intact

\* The collector spares what main and the workers refer to, not what the kernel does.
LEMMA GoCollects == ASSUME GoReady, NEW d \in Io, Collect(d), ~astray' PROVE GoInv'
<1>1. GoHeld /\ GoHands /\ GoEnds /\ GoOwn /\ InFlight \subseteq live
  BY DEF GoReady, GoInv, Intact
<1>2. /\ live' = live \ {d} /\ d \notin Roots /\ d \notin InFlight /\ ~astray
      /\ UNCHANGED <<sock, bound, pend, queue, isRead, cliSock, accept, mpc, mdata, wpc, wio, wsize>>
  BY DEF Collect, portVars, mainVars, workVars
<1>3. Busy' = Busy /\ InHand' = InHand
  BY <1>2 DEF Busy, InHand
<1>4. d \notin InHand
  BY <1>2 DEF Roots, InHand, Busy
<1>5. PendingIo' = PendingIo /\ QueuedIo' = QueuedIo /\ InFlight' = InFlight
  BY <1>2 DEF PendingIo, QueuedIo, InFlight
<1>6. GoHeld'
  <2>1. PortTypeOK'
    BY <1>1, <1>2 DEF GoHeld, GoTypeOK, PortTypeOK
  <2>2. live' \subseteq Io /\ InHand' \subseteq live' /\ astray' \in BOOLEAN
    BY <1>1, <1>2, <1>3, <1>4 DEF GoHeld, GoTypeOK, Collect
  <2> QED
    BY <1>1, <1>2, <1>3, <2>1, <2>2 DEF GoHeld, GoTypeOK
<1>7. GoOwn'
  <2>1. OnePerIo'
    BY <1>1, <1>2, <1>5 DEF GoOwn, OnePerIo
  <2> QED
    BY <1>1, <1>2, <1>3, <1>5, <2>1 DEF GoOwn, Open
<1>8. GoHands' /\ GoEnds'
  BY <1>1, <1>2 DEF GoHands, GoEnds
<1> QED
  BY <1>1, <1>2, <1>5, <1>6, <1>7, <1>8 DEF GoInv, Intact

\* Whatever the memory holds, the variables keep their types, main holds an IOData
\* where it uses one, and a packet without IOData is never echoed.
LEMMA GoStays ==
  ASSUME GoTypeOK, GoHands, GoEnds, Alive, Step
  PROVE  GoTypeOK' /\ GoHands' /\ GoEnds'
<1>1. /\ PortTypeOK /\ isRead \in [Io -> BOOLEAN] /\ cliSock \in [Io -> Sock \cup {Invalid}]
      /\ wpc \in [Worker -> {"get", "work", "returned"}]
      /\ wio \in [Worker -> Io \cup {Null}] /\ wsize \in [Worker -> {0, 1}]
  BY DEF GoTypeOK
<1>2. ASSUME NEW d \in Io, closeIO(d) \/ postRead(d) \/ postWrite(d)
      PROVE  /\ PortTypeOK' /\ isRead' \in [Io -> BOOLEAN]
             /\ UNCHANGED <<queue, live, astray, cliSock>>
  <2>1. CASE closeIO(d)
    <3>1. CloseSocket(cliSock[d]) /\ UNCHANGED <<queue, live, astray, isRead, cliSock>>
      BY <2>1 DEF closeIO, heapVars
    <3>2. sock' \in [Sock -> {"free", "idle", "up", "down"}] /\ bound' \in SUBSET Sock
      BY <1>1, <3>1 DEF CloseSocket, PortTypeOK
    <3>3. pend' \in SUBSET Op
      <4>1. \A p \in pend : p \in Op /\ [p EXCEPT !.sock = Invalid] \in Op
        BY <1>1 DEF PortTypeOK, Op
      <4> QED
        BY <3>1, <4>1 DEF CloseSocket
    <3> QED
      BY <1>1, <3>1, <3>2, <3>3 DEF PortTypeOK
  <2>2. ASSUME NEW what \in {"recv", "send"}, NEW b \in BOOLEAN,
               isRead' = [isRead EXCEPT ![d] = b], Issue(d, what, cliSock[d]),
               UNCHANGED <<sock, bound, queue, live, astray, cliSock>>
        PROVE  PortTypeOK' /\ isRead' \in [Io -> BOOLEAN]
    <3> DEFINE new == [io |-> d, op |-> what, sock |-> cliSock[d], port |-> cliSock[d] \in bound]
    <3>1. pend' = pend \cup {new} /\ cliSock[d] \in Sock
      BY <2>2 DEF Issue, Connected
    <3>2. new \in Op
      BY <3>1 DEF Op
    <3> HIDE DEF new
    <3> QED
      BY <1>1, <2>2, <3>1, <3>2 DEF PortTypeOK
  <2> QED
    BY <1>2, <2>1, <2>2 DEF postRead, postWrite
<1>3. CASE \E w \in Worker : Get(w)
  <2>1. PICK w \in Worker : Get(w)
    BY <1>3
  <2>2. /\ queue \in Seq(Packet) /\ queue # <<>> /\ queue' = Tail(queue)
        /\ Head(queue) = queue[1] /\ 1 \in 1..Len(queue) /\ Head(queue) \in Packet
    BY <1>1, <2>1 DEF Get, PortTypeOK
  <2>3. /\ wio' = [wio EXCEPT ![w] = Head(queue).io]
        /\ wsize' = [wsize EXCEPT ![w] = Head(queue).size]
        /\ \E pc \in {"work", "returned"} : wpc' = [wpc EXCEPT ![w] = pc]
        /\ UNCHANGED <<sock, bound, pend, live, astray, isRead, cliSock, accept, mpc, mdata>>
    BY <2>1 DEF Get, heapVars, mainVars
  <2>4. /\ Head(queue).io \in Io \cup {Null} /\ Head(queue).size \in {0, 1}
        /\ Head(queue).io = Null => Head(queue).size = 0
    BY <2>2 DEF Packet, GoEnds
  <2>5. /\ queue' \in Seq(Packet)
        /\ \A i \in 1..Len(queue') : queue'[i] = queue[i + 1] /\ i + 1 \in 1..Len(queue)
    BY <2>2
  <2>6. GoTypeOK'
    BY <1>1, <2>3, <2>4, <2>5 DEF GoTypeOK, PortTypeOK
  <2>7. \A v \in Worker : wpc'[v] = "work" /\ wio'[v] = Null => wsize'[v] = 0
    BY <1>1, <2>3, <2>4 DEF GoEnds
  <2>8. \A i \in 1..Len(queue') : queue'[i].io = Null => queue'[i].size = 0
    BY <2>5 DEF GoEnds
  <2>9. GoHands'
    BY <2>3 DEF GoHands
  <2> QED
    BY <2>6, <2>7, <2>8, <2>9 DEF GoEnds
<1>4. CASE \E w \in Worker : Disconnect(w) \/ Echo(w)
  <2>1. PICK w \in Worker : Disconnect(w) \/ Echo(w)
    BY <1>4
  <2>2. /\ wio[w] \in Io /\ UNCHANGED <<wio, wsize, accept, mpc, mdata>>
        /\ \E pc \in {"get", "returned"} : wpc' = [wpc EXCEPT ![w] = pc]
        /\ closeIO(wio[w]) \/ postRead(wio[w]) \/ postWrite(wio[w])
    BY <1>1, <2>1 DEF Disconnect, Echo, mainVars, GoEnds
  <2>3. /\ PortTypeOK' /\ isRead' \in [Io -> BOOLEAN]
        /\ UNCHANGED <<queue, live, astray, cliSock>>
    BY <1>2, <2>2
  <2>4. /\ wpc' \in [Worker -> {"get", "work", "returned"}]
        /\ \A v \in Worker : wpc'[v] = "work" => wpc[v] = "work"
    BY <1>1, <2>2
  <2> QED
    BY <2>2, <2>3, <2>4 DEF GoTypeOK, GoHands, GoEnds
<1>5. CASE GiveUp \/ AcceptEmpty \/ FirstWrite
  <2>1. /\ mdata \in Io /\ mpc' \in {"open", "post"} /\ mdata' = Null
        /\ UNCHANGED <<wpc, wio, wsize>>
        /\ closeIO(mdata) \/ postRead(mdata) \/ postWrite(mdata)
    BY <1>5 DEF GiveUp, AcceptEmpty, FirstWrite, workVars, GoHands, GoTypeOK
  <2>2. accept' = "none"
    BY <1>5 DEF GiveUp, AcceptEmpty, FirstWrite, GoHands, GoTypeOK
  <2>3. /\ PortTypeOK' /\ isRead' \in [Io -> BOOLEAN]
        /\ UNCHANGED <<queue, live, astray, cliSock>>
    BY <1>2, <2>1
  <2> QED
    BY <2>1, <2>2, <2>3 DEF GoTypeOK, GoHands, GoEnds
<1>6. CASE OpenSocket
  <2>1. /\ mpc = "open" /\ mpc' = "accept"
        /\ UNCHANGED <<bound, pend, queue, astray, accept, wpc, wio, wsize>>
    BY <1>6 DEF OpenSocket, workVars
  <2>2. PICK d \in Io \ live, s \in {x \in Sock : sock[x] = "free"} :
          /\ live' = live \cup {d} /\ mdata' = d
          /\ sock' = [sock EXCEPT ![s] = "idle"]
          /\ cliSock' = [cliSock EXCEPT ![d] = s]
          /\ isRead' = [isRead EXCEPT ![d] = TRUE]
    BY <1>6 DEF OpenSocket
  <2>3. d # Null /\ accept = "none"
    BY <2>1, PortAssumption DEF GoHands
  <2> QED
    BY <1>1, <2>1, <2>2, <2>3 DEF GoTypeOK, PortTypeOK, GoHands, GoEnds
<1>7. CASE SocketFails \/ StartAccept \/ Accepted \/ Bind \/ Return
           \/ (\E w \in Worker : DisconnectNil(w)) \/ Crash
           \/ ((\E s \in Sock : PeerLeaves(s)) /\ UNCHANGED <<heapVars, mainVars, workVars>>)
  <2>1. UNCHANGED <<pend, queue, live, astray, isRead, cliSock, mdata, wpc, wio, wsize>>
    BY <1>7 DEF SocketFails, StartAccept, Accepted, Bind, Return, DisconnectNil, Crash,
         PeerLeaves, portVars, heapVars, mainVars, workVars
  <2>2. /\ accept' \in {"none", "pending", "data", "empty"}
        /\ mpc' \in {"open", "accept", "wait", "send", "post", "cleanup", "done", "panic"}
        /\ GoHands'
    BY <1>7 DEF SocketFails, StartAccept, Accepted, Bind, Return, DisconnectNil, Crash,
         mainVars, GoTypeOK, GoHands, Alive
  <2>3. sock' \in [Sock -> {"free", "idle", "up", "down"}]
    BY <1>1, <1>7 DEF SocketFails, StartAccept, Accepted, Bind, Return, DisconnectNil, Crash,
         PeerLeaves, portVars, PortTypeOK
  <2>4. bound' \in SUBSET Sock
    BY <1>1, <1>7 DEF SocketFails, StartAccept, Accepted, Bind, Return, DisconnectNil, Crash,
         PeerLeaves, portVars, PortTypeOK, Open
  <2>5. PortTypeOK'
    BY <1>1, <2>1, <2>3, <2>4 DEF PortTypeOK
  <2> QED
    BY <2>1, <2>2, <2>5 DEF GoTypeOK, GoEnds
<1>8. CASE Post
  <2> DEFINE n == Cardinality(Worker)
  <2>1. n \in Nat
    BY PortAssumption, FS_CardinalityType
  <2>2. /\ mpc = "post" /\ mpc' = "cleanup"
        /\ queue' = queue \o [i \in 1..n |-> [io |-> Null, size |-> 0]]
        /\ UNCHANGED <<sock, bound, pend, live, astray, isRead, cliSock, accept, mdata, wpc, wio, wsize>>
    BY <1>8 DEF Post, heapVars, workVars
  <2>3. /\ queue' \in Seq(Packet) /\ Len(queue) \in Nat /\ Len(queue') = Len(queue) + n
        /\ \A i \in 1..Len(queue) : queue'[i] = queue[i]
        /\ \A i \in (Len(queue) + 1)..(Len(queue) + n) :
             queue'[i].io = Null /\ queue'[i].size = 0
    BY <1>1, <2>1, <2>2, ExitsAppended DEF PortTypeOK
  <2> HIDE DEF n
  <2>4. \A i \in 1..Len(queue') : queue'[i].io = Null => queue'[i].size = 0
    BY <2>1, <2>3 DEF GoEnds
  <2> QED
    BY <1>1, <2>2, <2>3, <2>4 DEF GoTypeOK, PortTypeOK, GoHands, GoEnds
<1>9. ASSUME NEW p \in pend, NEW m \in {0, 1}, Complete(p, m),
             UNCHANGED <<heapVars, mainVars, workVars>>
      PROVE  GoTypeOK' /\ GoHands' /\ GoEnds'
  <2> DEFINE pkt == [io |-> p.io, size |-> m]
  <2>1. UNCHANGED <<live, astray, isRead, cliSock, accept, mpc, mdata, wpc, wio, wsize>>
    BY <1>9 DEF heapVars, mainVars, workVars
  <2>2. /\ pend' = pend \ {p} /\ UNCHANGED <<sock, bound>>
        /\ queue' = IF p.port THEN Append(queue, pkt) ELSE queue
    BY <1>9 DEF Complete
  <2>3. queue \in Seq(Packet) /\ pkt \in Packet /\ pkt.io # Null
    BY <1>1, PortAssumption DEF PortTypeOK, Op, Packet
  <2> HIDE DEF pkt
  <2>4. /\ queue' \in Seq(Packet)
        /\ \A i \in 1..Len(queue') : queue'[i] = pkt \/ (i \in 1..Len(queue) /\ queue'[i] = queue[i])
    BY <2>2, <2>3
  <2>5. \A i \in 1..Len(queue') : queue'[i].io = Null => queue'[i].size = 0
    BY <2>3, <2>4 DEF GoEnds
  <2> QED
    BY <1>1, <2>1, <2>2, <2>4, <2>5 DEF GoTypeOK, PortTypeOK, GoHands, GoEnds
<1>10. CASE Kernel
  BY <1>7, <1>9, <1>10 DEF Kernel, KernelStep
<1>11. CASE \E d \in Io : Collect(d) \/ Reuse(d)
  <2>1. /\ UNCHANGED <<sock, bound, pend, queue, accept, mpc, mdata, wpc, wio, wsize>>
        /\ live' \subseteq Io /\ astray' \in BOOLEAN
    BY <1>11 DEF Collect, Reuse, portVars, mainVars, workVars, GoTypeOK
  <2>2. isRead' \in [Io -> BOOLEAN] /\ cliSock' \in [Io -> Sock \cup {Invalid}]
    BY <1>1, <1>11 DEF Collect, Reuse
  <2> QED
    BY <1>1, <2>1, <2>2 DEF GoTypeOK, PortTypeOK, GoHands, GoEnds
<1> QED
  BY <1>3, <1>4, <1>5, <1>6, <1>7, <1>8, <1>10, <1>11 DEF Step

\* Every step of the server, of the kernel and of the collector keeps the invariant.
LEMMA GoKeeps == GoSafe /\ [GoNext]_goVars => GoSafe'
<1> SUFFICES ASSUME GoSafe, [GoNext]_goVars PROVE GoSafe'
  OBVIOUS
<1>1. ASSUME Alive, Step, ~astray' PROVE GoInv'
  <2>0. ~astray
    BY <1>1 DEF Step, OpenSocket, SocketFails, StartAccept, GiveUp, Accepted, AcceptEmpty,
         Bind, FirstWrite, Post, Return, Kernel, Get, Disconnect, DisconnectNil, Echo,
         Collect, Reuse, Crash, closeIO, postRead, postWrite, heapVars, GoSafe, GoTypeOK
  <2>1. GoReady
    BY <1>1, <2>0 DEF GoSafe, GoReady, Alive
  <2>2. CASE OpenSocket
    BY <2>1, <2>2, GoOpens
  <2>3. CASE GiveUp \/ AcceptEmpty \/ FirstWrite
    BY <2>1, <2>3, GoDrop
  <2>4. CASE SocketFails \/ StartAccept \/ Accepted \/ Bind \/ Return
    BY <2>1, <2>4, GoRest
  <2>5. CASE Post
    BY <2>1, <2>5, GoPosts
  <2>6. CASE Kernel
    <3>1. UNCHANGED <<heapVars, mainVars, workVars>> /\ KernelStep
      BY <2>6 DEF Kernel
    <3>2. CASE \E s \in Sock : PeerLeaves(s)
      BY <2>1, <3>1, <3>2, GoRest
    <3>3. ASSUME NEW p \in pend, NEW n \in {0, 1}, Complete(p, n) PROVE GoInv'
      <4>1. UNCHANGED <<live, astray, isRead, cliSock, accept, mpc, mdata, wpc, wio, wsize>>
        BY <3>1 DEF heapVars, mainVars, workVars
      <4> QED
        BY <2>1, <3>3, <4>1, GoCompletes
    <3> QED
      BY <3>1, <3>2, <3>3 DEF KernelStep
  <2>7. CASE \E w \in Worker : Get(w)
    BY <2>1, <2>7, GoGet
  <2>8. CASE \E w \in Worker : Disconnect(w) \/ Echo(w)
    BY <2>1, <2>8, GoWork
  <2>9. CASE \E w \in Worker : DisconnectNil(w)
    BY <2>1, <2>9, GoRest
  <2>10. CASE \E d \in Io : Collect(d)
    BY <1>1, <2>1, <2>10, GoCollects
  <2>11. ~Crash /\ \A d \in Io : ~Reuse(d)
    BY <2>0, <2>1 DEF GoReady, GoInv, GoHeld, Intact, Crash, Reuse
  <2> QED
    BY <1>1, <2>2, <2>3, <2>4, <2>5, <2>6, <2>7, <2>8, <2>9, <2>10, <2>11 DEF Step
<1>2. CASE UNCHANGED goVars
  <2>1. UNCHANGED <<sock, bound, pend, queue, live, astray, isRead, cliSock, accept, mpc, mdata,
                    wpc, wio, wsize>>
    BY <1>2 DEF goVars, portVars, heapVars, mainVars, workVars
  <2>2. /\ Busy' = Busy /\ InHand' = InHand
        /\ PendingIo' = PendingIo /\ QueuedIo' = QueuedIo /\ InFlight' = InFlight
    BY <2>1 DEF Busy, InHand, PendingIo, QueuedIo, InFlight
  <2>3. PortTypeOK' <=> PortTypeOK
    BY <2>1 DEF PortTypeOK
  <2>4. GoTypeOK' /\ GoHands' /\ GoEnds'
    BY <2>1, <2>3 DEF GoSafe, GoTypeOK, GoHands, GoEnds
  <2>5. GoInv => GoHeld'
    BY <2>1, <2>2, <2>4 DEF GoInv, GoHeld
  <2>6. GoInv => GoOwn' /\ Intact'
    BY <2>1, <2>2 DEF GoInv, GoOwn, OnePerIo, Open, Intact
  <2> QED
    BY <2>1, <2>4, <2>5, <2>6 DEF GoSafe, GoInv
<1>3. CASE Alive /\ Step
  <2>1. GoTypeOK' /\ GoHands' /\ GoEnds'
    BY <1>3, GoStays DEF GoSafe
  <2> QED
    BY <1>1, <1>3, <2>1 DEF GoSafe
<1> QED
  BY <1>2, <1>3 DEF GoNext, Ended

\* Ownership in go/iocp/main.go, for any number of connections, IOData and workers:
\* as long as the collector has taken no IOData in flight, what a goroutine works on
\* is not collected and is no other's, and every IOData is in one place with an open
\* socket that no other one has.
THEOREM GoDataIsOwned == GoSpec => []Owned
<1>1. GoSafe => Owned
  BY DEF GoSafe, GoInv, GoHeld, GoOwn, Intact, Owned
<1> QED
  BY <1>1, GoStarts, GoKeeps, PTL DEF GoSpec
=============================================================================
