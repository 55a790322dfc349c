----------------------------- MODULE SwissMap ------------------------------
(***************************************************************************)
(* CSwissMap of cmake/swissmap/swissmap.h, an open-addressing hash table   *)
(* probed kWidth control bytes at a time.                                  *)
(*                                                                         *)
(* The control bytes are m_ctrl[0 .. cap+kWidth-1]: one per slot, the      *)
(* sentinel at cap, copies of the first kWidth-1 slots' bytes from cap+1   *)
(* on, and bytes that stay empty behind them when cap < kWidth-1.  A       *)
(* control byte is kEmpty, kDeleted, kSentinel, or H2 of the slot's key.   *)
(* cap is 2^k - 1, so `& m_cap' is the remainder modulo cap + 1.           *)
(*                                                                         *)
(* Every call runs to its end before the next one, but the loop of rehash  *)
(* is one step per slot, with the insertion that caused it pending.  A     *)
(* call of findIndex that finds neither the key nor an empty byte in any   *)
(* group never returns; the map is then hung.                              *)
(***************************************************************************)
EXTENDS Integers, FiniteSets

CONSTANTS Key, Val,
          Vals,      \* the values that are inserted with a key
          None,      \* no value; also the contents of an unconstructed slot
          kWidth,    \* control bytes compared at a time, 16 in the code
          H1, H2,    \* the high and the low bits of the salted hash of a key
          Addr,      \* what the address of m_ctrl contributes to H1
          HashXor(_, _),
          MaxCap     \* bound on the capacity

kEmpty == -128
kDeleted == -2
kSentinel == -1

\* Tables smaller than a group have empty bytes behind the copies; larger ones
\* rely on the limit of insertions.  4 is the least width with that structure.
ASSUME WidthAssumption == kWidth \in Nat /\ kWidth >= 4
ASSUME HashAssumption ==
  /\ H1 \in [Key -> Nat] /\ H2 \in [Key -> 0..127]
  /\ \A k \in Key, a \in Addr : HashXor(H1[k], a) \in Nat
ASSUME NoneAssumption == None \notin Val \cup [k : Key, v : Val]
ASSUME MaxCapAssumption == MaxCap \in Nat
ASSUME ValsAssumption == Vals \in [Key -> SUBSET Val]

VARIABLES
  cap,      \* m_cap
  ctrl,     \* m_ctrl
  slot,     \* m_slot: a record of key and value, or None
  num,      \* m_num
  growth,   \* m_growthInfo
  addr,     \* the bits of m_ctrl's address that salt H1
  old,      \* ctrl, slot and cap as rehash saved them
  pos,      \* rehash's loop index
  todo,     \* the key and value whose insertion rehash is part of
  pc,       \* "idle", "rehash", "hung", or "nested": rehash inside rehash
  ret       \* the last call that returned, and its result

vars == <<cap, ctrl, slot, num, growth, addr, old, pos, todo, pc, ret>>
table == <<cap, ctrl, slot, num, growth, addr>>

Mask(n) == n % (cap + 1)
IsFull(c) == c >= 0

-----------------------------------------------------------------------------
(***************************************************************************)
(* init(n), called by the constructor and by rehash.                       *)
(***************************************************************************)

EmptyCtrl(n) == [i \in 0..(n + kWidth - 1) |-> IF i = n THEN kSentinel ELSE kEmpty]
EmptySlots(n) == [i \in 0..(n - 1) |-> None]
GrowthInfo(n) == (n - n \div 8) - num

NoOld == [cap |-> 0, ctrl |-> EmptyCtrl(0), slot |-> EmptySlots(0)]

Init ==
  /\ cap = 0 /\ ctrl = EmptyCtrl(0) /\ slot = EmptySlots(0)
  /\ num = 0 /\ growth = 0 /\ addr \in Addr
  /\ old = NoOld
  /\ pos = 0 /\ todo = None /\ pc = "idle" /\ ret = None

-----------------------------------------------------------------------------
(***************************************************************************)
(* findIndex.                                                              *)
(***************************************************************************)

\* The t-th group that is probed for k starts here.
Group(k, t) == Mask(HashXor(H1[k], addr) + t * kWidth)

\* Mutant: a slot with the right tag is taken for the key's.
MatchTagOnly(k, g) == {j \in 0..(kWidth - 1) : ctrl[g + j] = H2[k]}

\* Positions j of a group with the key, and with an empty byte.
MatchKey(k, g) ==
  {j \in 0..(kWidth - 1) : /\ ctrl[g + j] = H2[k]
                           /\ slot[Mask(g + j)] # None
                           /\ slot[Mask(g + j)].k = k}
MatchEmpty(g) == {j \in 0..(kWidth - 1) : ctrl[g + j] = kEmpty}

First(S) == CHOOSE j \in S : \A i \in S : j <= i

\* The groups repeat after all of them have been probed.
ProbeCount == (cap + 1) \div kWidth + 1

StopsAt(k, t) == MatchKey(k, Group(k, t)) # {} \/ MatchEmpty(Group(k, t)) # {}
Stops(k) == {t \in 0..(ProbeCount - 1) : StopsAt(k, t)}
Diverges(k) == Stops(k) = {}

LastGroup(k) == Group(k, First(Stops(k)))
Found(k) == MatchKey(k, LastGroup(k)) # {}

\* retIndex: the key's slot, or the first empty byte's index.
RetIndex(k) ==
  LET g == LastGroup(k)
  IN Mask(g + First(IF Found(k) THEN MatchKey(k, g) ELSE MatchEmpty(g)))

-----------------------------------------------------------------------------
(***************************************************************************)
(* find(key, true) where the key is absent and there is room.              *)
(***************************************************************************)

\* Mutant: the copy behind the sentinel is forgotten.
SetCtrlOnce(i, c) == [ctrl EXCEPT ![i] = c]

\* A byte below slot kWidth-1 is kept a second time behind the sentinel.
SetCtrl(i, c) ==
  [ctrl EXCEPT ![i] = c, ![IF i < kWidth - 1 THEN i + cap + 1 ELSE i] = c]

\* The first empty or deleted byte from retIndex on.
FreeIndex(k) ==
  LET r == RetIndex(k)
  IN Mask(r + First({j \in 0..(kWidth - 1) : ctrl[r + j] < kSentinel}))

Store(k, v) ==
  /\ growth > 0
  /\ ctrl' = SetCtrl(FreeIndex(k), H2[k])
  /\ slot' = [slot EXCEPT ![FreeIndex(k)] = [k |-> k, v |-> v]]
  /\ num' = num + 1 /\ growth' = growth - 1
  /\ UNCHANGED <<cap, addr>>

Overwrite(k, v) ==
  /\ slot' = [slot EXCEPT ![RetIndex(k)].v = v]
  /\ UNCHANGED <<cap, ctrl, num, growth, addr>>

-----------------------------------------------------------------------------
(***************************************************************************)
(* rehash(nextCap()).                                                      *)
(***************************************************************************)

NextCap == cap * 2 + 1

\* Mutant: m_num is not reset before the reinsertions.
StartRehashKeepsNum(k, v) ==
  /\ growth = 0 /\ NextCap <= MaxCap
  /\ old' = [cap |-> cap, ctrl |-> ctrl, slot |-> slot]
  /\ cap' = NextCap
  /\ ctrl' = EmptyCtrl(NextCap) /\ slot' = EmptySlots(NextCap)
  /\ growth' = GrowthInfo(NextCap)
  /\ addr' \in Addr
  /\ pos' = 0 /\ todo' = [k |-> k, v |-> v] /\ pc' = "rehash"
  /\ UNCHANGED <<num, ret>>

StartRehash(k, v) ==
  /\ growth = 0 /\ NextCap <= MaxCap
  /\ old' = [cap |-> cap, ctrl |-> ctrl, slot |-> slot]
  /\ cap' = NextCap
  /\ ctrl' = EmptyCtrl(NextCap) /\ slot' = EmptySlots(NextCap)
  /\ growth' = GrowthInfo(NextCap)
  /\ num' = 0
  /\ addr' \in Addr
  /\ pos' = 0 /\ todo' = [k |-> k, v |-> v] /\ pc' = "rehash"
  /\ UNCHANGED ret

RehashSkip ==
  /\ pc = "rehash" /\ pos < old.cap /\ ~IsFull(old.ctrl[pos])
  /\ pos' = pos + 1
  /\ UNCHANGED <<table, old, todo, pc, ret>>

\* find(s.k, true), the value constructed in its new slot, the old slot
\* destroyed.
RehashMove ==
  /\ pc = "rehash" /\ pos < old.cap /\ IsFull(old.ctrl[pos])
  /\ LET s == old.slot[pos] IN
       IF Diverges(s.k) \/ (~Found(s.k) /\ growth = 0)
       THEN pc' = "nested" /\ UNCHANGED <<table, old, pos>>
       ELSE /\ IF Found(s.k) THEN Overwrite(s.k, s.v) ELSE Store(s.k, s.v)
            /\ old' = [old EXCEPT !.slot[pos] = None]
            /\ pos' = pos + 1
            /\ UNCHANGED pc
  /\ UNCHANGED <<todo, ret>>

-----------------------------------------------------------------------------
(***************************************************************************)
(* The public operations.                                                  *)
(***************************************************************************)

Finish(result) ==
  /\ pc' = "idle" /\ ret' = result /\ todo' = None
  /\ old' = NoOld /\ pos' = 0

InsertKey(k, v) ==
  /\ ~Diverges(k)
  /\ \/ Found(k) /\ Overwrite(k, v) /\ Finish(<<"put", k, v>>)
     \/ ~Found(k) /\ Store(k, v) /\ Finish(<<"put", k, v>>)
     \/ ~Found(k) /\ StartRehash(k, v)

Insert(k, v) == pc = "idle" /\ InsertKey(k, v)

\* goto refind, after the loop.
InsertAgain ==
  /\ pc = "rehash" /\ pos >= old.cap
  /\ InsertKey(todo.k, todo.v)

Lookup(k) ==
  /\ pc = "idle" /\ ~Diverges(k)
  /\ Finish(<<"get", k, IF Found(k) THEN slot[RetIndex(k)].v ELSE None>>)
  /\ UNCHANGED table

\* Mutant: an erased slot is marked empty.
EraseToEmpty(k) ==
  /\ pc = "idle" /\ ~Diverges(k) /\ Found(k)
  /\ ctrl' = SetCtrl(RetIndex(k), kEmpty)
  /\ slot' = [slot EXCEPT ![RetIndex(k)] = None]
  /\ num' = num - 1 /\ growth' = growth + 1
  /\ UNCHANGED <<cap, addr>>
  /\ Finish(<<"erase", k, TRUE>>)

EraseFound(k) ==
  /\ pc = "idle" /\ ~Diverges(k) /\ Found(k)
  /\ ctrl' = SetCtrl(RetIndex(k), kDeleted)
  /\ slot' = [slot EXCEPT ![RetIndex(k)] = None]
  /\ num' = num - 1 /\ growth' = growth + 1
  /\ UNCHANGED <<cap, addr>>
  /\ Finish(<<"erase", k, TRUE>>)

EraseAbsent(k) ==
  /\ pc = "idle" /\ ~Diverges(k) /\ ~Found(k)
  /\ Finish(<<"erase", k, FALSE>>)
  /\ UNCHANGED table

\* operator[], insert or erase with a key for which findIndex never returns.
Hang(k) ==
  /\ \/ pc = "idle"
     \/ pc = "rehash" /\ pos >= old.cap /\ k = todo.k
  /\ Diverges(k)
  /\ pc' = "hung"
  /\ UNCHANGED <<table, old, pos, todo, ret>>

Stuck == pc \in {"hung", "nested"} /\ UNCHANGED vars

Next ==
  \/ \E k \in Key : \/ Lookup(k) \/ EraseFound(k) \/ EraseAbsent(k) \/ Hang(k)
                    \/ \E v \in Vals[k] : Insert(k, v)
  \/ RehashSkip \/ RehashMove \/ InsertAgain
  \/ Stuck

Spec == Init /\ [][Next]_vars

-----------------------------------------------------------------------------
(***************************************************************************)
(* Properties.                                                             *)
(***************************************************************************)

\* Type invariant (a part of Accounted): the unsigned counters m_num and m_growthInfo never wrap,
\* and the arrays have the sizes init gave them.
TypeOK ==
  /\ cap \in 0..MaxCap /\ num \in 0..cap /\ growth \in 0..cap /\ addr \in Addr
  /\ ctrl \in [0..(cap + kWidth - 1) ->
                 {kEmpty, kDeleted, kSentinel} \cup {H2[k] : k \in Key}]
  /\ slot \in [0..(cap - 1) -> [k : Key, v : Val] \cup {None}]
  /\ pos \in 0..old.cap
  /\ todo \in [k : Key, v : Val] \cup {None}
  /\ pc \in {"idle", "rehash", "hung", "nested"}
  /\ ret \in ({"get", "put"} \X Key \X (Val \cup {None}))
            \cup ({"erase"} \X Key \X BOOLEAN) \cup {None}

\* A 16-byte load at any index sees the table as if it were circular: the
\* sentinel stands, every byte behind it repeats a slot's byte or is empty,
\* and a byte is full exactly when its slot holds a key with that H2 (the
\* assertion in findIndex's inner loop).
Mirror ==
  /\ ctrl[cap] = kSentinel
  /\ \A i \in (cap + 1)..(cap + kWidth - 1) :
       ctrl[i] = IF i - cap - 1 < cap THEN ctrl[i - cap - 1] ELSE kEmpty
  /\ \A i \in 0..(cap - 1) :
       IF slot[i] = None THEN ctrl[i] \in {kEmpty, kDeleted}
       ELSE ctrl[i] = H2[slot[i].k]

\* Every key in the table is found in its own slot, through any history of
\* insertions, deletions and rehashes; in particular no key is there twice.
Findable ==
  \A i \in 0..(cap - 1) : slot[i] # None =>
    /\ ~Diverges(slot[i].k)
    /\ Found(slot[i].k) /\ RetIndex(slot[i].k) = i

\* How many keys a table of capacity n takes before it rehashes: (n - n/8) less
\* the number of keys at the last rehash, because init subtracts them and the
\* reinsertions do so again.  So Limit(2c + 1) = (2c + 1 - (2c + 1)/8) - Limit(c),
\* which comes to 7/12 of n + 1, rounded.
Limit(n) == IF n = 0 THEN 0 ELSE (7 * (n + 1) + 6) \div 12

\* m_num and m_growthInfo, updated by insert, erase, rehash and init, account
\* for the slots: they never wrap, m_num keys are stored, and with m_growthInfo
\* more the table reaches the limit of its capacity.  So the reinsertions of
\* rehash always fit: rehash never runs inside rehash.
Accounted ==
  /\ TypeOK
  /\ num = Cardinality({i \in 0..(cap - 1) : slot[i] # None})
  /\ pc = "idle" => num + growth = Limit(cap)
  /\ pc # "nested"

\* findIndex returns, whether or not the key is in the table.
FindReturns == pc # "hung"

\* The map the table stands for; while rehash runs, what it has not moved yet
\* is still in the old slots.
AbsMap ==
  [k \in Key |->
     LET here == {i \in 0..(cap - 1) : slot[i] # None /\ slot[i].k = k}
         there == {i \in 0..(old.cap - 1) : /\ pc \in {"rehash", "nested"}
                                            /\ old.slot[i] # None
                                            /\ old.slot[i].k = k}
     IN CASE here # {} -> slot[CHOOSE i \in here : TRUE].v
          [] here = {} /\ there # {} -> old.slot[CHOOSE i \in there : TRUE].v
          [] OTHER -> None]

Map == INSTANCE AbstractMap WITH map <- AbsMap

\* The table implements a map: insert, erase and operator[] have the effect
\* and the result of the map's operations, and rehash is invisible.
MapSpec == Map!Spec
=============================================================================
