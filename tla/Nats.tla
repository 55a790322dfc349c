-------------------------------- MODULE Nats --------------------------------
(***************************************************************************)
(* Natural numbers as vectors of words, lowest word first: nat.c, natadd.c,*)
(* natsub.c, natmul.c and natdiv.c of cmake/bigint/src.  A vector is a     *)
(* sequence; capacities and allocation are left out.  Vectors the          *)
(* code overwrites in place, the workspace of karatsuba above all, are     *)
(* threaded through as values with a field d for the words.                *)
(*                                                                         *)
(* Every operation also reports, in the field bad, what it did that cannot *)
(* be seen from its result (the code itself does not keep this):           *)
(*   "ripple"   addVW or subVW took a carry through a second word, where   *)
(*              they add it twice: c and oc both hold it;                  *)
(*   "overrun"  addVWlarge, subVWlarge or natDivBasic touched words behind *)
(*              the end of a vector;                                       *)
(*   "wild"     natDivRecursiveStep wrote behind a vector of one word, over  *)
(*              what lies there: the process may die or go on with anything; *)
(*   "shared"   the result is an operand itself, not a copy;               *)
(*   "assert"   an assertion failed.                                       *)
(***************************************************************************)
EXTENDS Words, Sequences

CONSTANTS LargeLen,                \* 32: longer vectors go to addVWlarge, subVWlarge
          karatsubaThreshold,      \* 40
          basicSqrThreshold,       \* 20
          karatsubaSqrThreshold,   \* 260
          divRecursiveThreshold    \* 100

ASSUME ThresholdAssumption ==
  /\ {LargeLen, karatsubaThreshold, basicSqrThreshold, karatsubaSqrThreshold} \subseteq Nat \ {0, 1}
  /\ divRecursiveThreshold \in Nat /\ divRecursiveThreshold > 5

Bigger(a, b) == IF a < b THEN b ELSE a
Smaller(a, b) == IF a < b THEN a ELSE b

natNewLen(n) == [i \in 1 .. n |-> 0]
natNew(v) == <<v>>

\* The words from .. to - 1, counted from 0.
natPart(p, from, to) == SubSeq(p, from + 1, to)
natFrom(p, from) == natPart(p, from, Len(p))

\* z with the words of s from index i on, counted from 0.
natCopyAt(z, i, s) ==
  natPart(z, 0, i) \o natPart(s, 0, Smaller(Len(s), Len(z) - i)) \o natFrom(z, i + Len(s))

natNorm(p) ==
  natPart(p, 0, CHOOSE n \in 0 .. Len(p) : /\ n > 0 => p[n] # 0
                                           /\ \A i \in n + 1 .. Len(p) : p[i] = 0)

\* -1, 0 or 1; longer vectors are taken for greater ones.
natCmp(x, y) ==
  IF Len(x) # Len(y) THEN IF Len(x) < Len(y) THEN -1 ELSE 1
  ELSE LET differ == {i \in 1 .. Len(x) : x[i] # y[i]}
           top == CHOOSE i \in differ : \A j \in differ : j <= i
       IN  IF differ = {} THEN 0 ELSE IF x[top] < y[top] THEN -1 ELSE 1

-----------------------------------------------------------------------------
(* Addition and subtraction. *)

\* The lowest n words added or subtracted, and the carry.
RECURSIVE addVV(_, _, _)
addVV(x, y, n) ==
  IF n = 0 THEN [z |-> <<>>, c |-> 0]
  ELSE LET p == addVV(x, y, n - 1)
           s == UIntAdd(x[n], y[n], p.c)
       IN  [z |-> Append(p.z, s.v), c |-> s.c]

RECURSIVE subVV(_, _, _)
subVV(x, y, n) ==
  IF n = 0 THEN [z |-> <<>>, c |-> 0]
  ELSE LET p == subVV(x, y, n - 1)
           s == UIntSub(x[n], y[n], p.c)
       IN  [z |-> Append(p.z, s.v), c |-> s.c]

\* What goes unnoticed when y is added to n words and word i begins with the carry c: a
\* carry that enters a second word, or the copy in addVWlarge, of n words from word i on.
Unnoticed(y, c, i, n) ==
  {b \in {"ripple"} : i > 1 /\ c # 0}
  \cup {b \in {"overrun"} : i > 1 /\ c = 0 /\ y # 0 /\ n > LargeLen}

\* The word y added to the lowest i words of x, or subtracted.  The carry of one word is
\* both c and oc for the next: it is added twice.
RECURSIVE AddWord(_, _, _)
AddWord(x, y, i) ==
  IF i = 0 THEN [z |-> <<>>, c |-> y, bad |-> {}]
  ELSE LET p == AddWord(x, y, i - 1)
           s == UIntAdd(x[i], p.c, IF i = 1 THEN 0 ELSE p.c)
       IN  [z |-> Append(p.z, s.v), c |-> s.c, bad |-> p.bad \cup Unnoticed(y, p.c, i, Len(x))]
addVW(x, y) == AddWord(x, y, Len(x))

RECURSIVE SubWord(_, _, _)
SubWord(x, y, i) ==
  IF i = 0 THEN [z |-> <<>>, c |-> y, bad |-> {}]
  ELSE LET p == SubWord(x, y, i - 1)
           s == UIntSub(x[i], p.c, IF i = 1 THEN 0 ELSE p.c)
       IN  [z |-> Append(p.z, s.v), c |-> s.c, bad |-> p.bad \cup Unnoticed(y, p.c, i, Len(x))]
subVW(x, y) == SubWord(x, y, Len(x))

\* Mutant: the carry out of the longer operand is dropped.
SumOfNoCarry(lo, hi) == [z |-> natNorm(lo.z \o hi.z), bad |-> hi.bad]

SumOf(lo, hi) == [z |-> natNorm(Append(lo.z \o hi.z, hi.c)), bad |-> hi.bad]

AddLonger(a, lo) == SumOf(lo, addVW(natFrom(a, Len(lo.z)), lo.c))

natAdd(x, y) ==
  LET a == IF Len(x) < Len(y) THEN y ELSE x
      b == IF Len(x) < Len(y) THEN x ELSE y
  IN  IF b = <<>> THEN [z |-> a, bad |-> {"shared"}] ELSE AddLonger(a, addVV(a, b, Len(b)))

\* The last borrow is asserted to be 0.
DifferenceOf(lo, hi) ==
  [z |-> natNorm(lo.z \o hi.z), bad |-> hi.bad \cup {b \in {"assert"} : hi.c # 0}]

SubLonger(x, lo) == DifferenceOf(lo, subVW(natFrom(x, Len(lo.z)), lo.c))

\* For x at least as great as y.
natSub(x, y) ==
  IF y = <<>> THEN [z |-> x, bad |-> {"shared"}] ELSE SubLonger(x, subVV(x, y, Len(y)))

-----------------------------------------------------------------------------
(* Multiplication. *)

AddLow(p, c) ==
  LET s == UIntAdd(p.lo, c, 0) IN [lo |-> s.v, hi |-> Trunc(p.hi + s.c)]
mulAddWWW(x, y, c) == AddLow(UIntMul(x, y), c)

\* One word more of addMulVVW: the product t and the carry of the words before.
NextWord(p, t) ==
  LET s == UIntAdd(t.lo, p.c, 0) IN [z |-> Append(p.z, s.v), c |-> Trunc(s.c + t.hi)]

\* z + x * y for a word y, in place, and the carry; z has at least the words of x.
RECURSIVE addMulVVW(_, _, _)
addMulVVW(z, x, y) ==
  LET n == Len(x)
  IN  IF n = 0 THEN [z |-> <<>>, c |-> 0]
      ELSE NextWord(addMulVVW(z, natPart(x, 0, n - 1), y), mulAddWWW(x[n], y, z[n]))

\* The products of x with the lowest n words of y added to z.
RECURSIVE AddRows(_, _, _, _)
AddRows(z, x, y, n) ==
  IF n = 0 THEN z
  ELSE LET a == AddRows(z, x, y, n - 1)
           r == addMulVVW(natPart(a, n - 1, n - 1 + Len(x)), x, y[n])
       IN  IF y[n] = 0 THEN a ELSE natCopyAt(a, n - 1, Append(r.z, r.c))
basicMul(z, x, y) == AddRows(natCopyAt(z, 0, natNewLen(Len(x) + Len(y))), x, y, Len(y))

\* x * y + r for words y and r, and the carry.
RECURSIVE mulAddVWW(_, _, _)
mulAddVWW(x, y, r) ==
  IF x = <<>> THEN [z |-> <<>>, c |-> r]
  ELSE LET n == Len(x)
           p == mulAddVWW(natPart(x, 0, n - 1), y, r)
           t == mulAddWWW(x[n], y, p.c)
       IN  [z |-> Append(p.z, t.lo), c |-> t.hi]

\* A zero factor gives one word that is 0, not the empty vector.
natMulAddWW(x, y, r) ==
  LET p == mulAddVWW(x, y, r)
  IN  IF x = <<>> \/ y = 0 THEN natNew(r) ELSE natNorm(Append(p.z, p.c))

RECURSIVE karatsubaLen(_, _)
karatsubaLen(n, threshold) ==
  IF n > threshold THEN 2 * karatsubaLen(n \div 2, threshold) ELSE n

\* n words of x added to, or taken from, the words of w from index i on; the carry
\* goes into the next n / 2 words.
AddCarry(w, i, n, lo) ==
  IF lo.c = 0 THEN [w EXCEPT !.d = natCopyAt(@, i, lo.z)]
  ELSE LET hi == addVW(natPart(w.d, i + n, i + n + n \div 2), lo.c)
       IN  [d |-> natCopyAt(w.d, i, lo.z \o hi.z), bad |-> w.bad \cup hi.bad]
karatsubaAdd(w, i, x, n) == AddCarry(w, i, n, addVV(natFrom(w.d, i), x, n))

SubBorrow(w, i, n, lo) ==
  IF lo.c = 0 THEN [w EXCEPT !.d = natCopyAt(@, i, lo.z)]
  ELSE LET hi == subVW(natPart(w.d, i + n, i + n + n \div 2), lo.c)
       IN  [d |-> natCopyAt(w.d, i, lo.z \o hi.z), bad |-> w.bad \cup hi.bad]
karatsubaSub(w, i, x, n) == SubBorrow(w, i, n, subVV(natFrom(w.d, i), x, n))

\* |x - y| for vectors of n words, and whether x was the smaller.
Distance(x, y, n) ==
  LET d == subVV(x, y, n)
  IN  IF d.c = 0 THEN [z |-> d.z, minus |-> FALSE] ELSE [z |-> subVV(y, x, n).z, minus |-> TRUE]

\* Mutant: the sign of the product of the differences is lost.
CombineUnsigned(w, n, r, p, minus) ==
  karatsubaAdd(karatsubaAdd(karatsubaAdd(w, n \div 2, r, n), n \div 2, natFrom(r, n), n), n \div 2, p, n)

\* The products r of the halves are added in the middle, and p is added or subtracted.
Combine(w, n, r, p, minus) ==
  LET z == karatsubaAdd(karatsubaAdd(w, n \div 2, r, n), n \div 2, natFrom(r, n), n)
  IN  IF minus THEN karatsubaSub(z, n \div 2, p, n) ELSE karatsubaAdd(z, n \div 2, p, n)

\* The end of karatsuba and karatsubaSqr: the products are saved behind p.
Finish(w, n, minus) ==
  LET z == [w EXCEPT !.d = natCopyAt(@, 4 * n, natPart(@, 0, 2 * n))]
  IN  Combine(z, n, natFrom(z.d, 4 * n), natFrom(z.d, 3 * n), minus)

\* The product of x and y, of n words each, into the first 2 n words of the workspace
\* w, of which 6 n are used: both halves, their differences, the product of those.
RECURSIVE karatsuba(_, _, _)

\* The same into the workspace from index i on.
karatsubaAt(w, i, x, y) ==
  LET part == karatsuba([w EXCEPT !.d = natFrom(@, i)], x, y)
  IN  [d |-> natCopyAt(w.d, i, part.d), bad |-> part.bad]

Differences(w, n, xd, yd) ==
  Finish(karatsubaAt([w EXCEPT !.d = natCopyAt(@, 2 * n, xd.z \o yd.z)], 3 * n, xd.z, yd.z),
         n, xd.minus # yd.minus)

Halves(w, n, x0, x1, y0, y1) ==
  Differences(karatsubaAt(karatsuba(w, x0, y0), n, x1, y1), n,
              Distance(x1, x0, n \div 2), Distance(y0, y1, n \div 2))

karatsuba(w, x, y) ==
  LET n  == Len(y)
      n2 == n \div 2
  IN  IF n % 2 = 1 \/ n < karatsubaThreshold THEN [w EXCEPT !.d = basicMul(@, x, y)]
      ELSE Halves(w, n, natPart(x, 0, n2), natFrom(x, n2), natPart(y, 0, n2), natFrom(y, n2))

\* t added to the words of w from index i on.
AddRest(w, t, i, lo) ==
  IF lo.c = 0 THEN [d |-> natCopyAt(w.d, i, lo.z), bad |-> w.bad \cup t.bad]
  ELSE LET hi == addVW(natFrom(w.d, i + Len(lo.z)), lo.c)
       IN  [d |-> natCopyAt(w.d, i, lo.z \o hi.z), bad |-> w.bad \cup t.bad \cup hi.bad]
addAt(w, t, i) ==
  AddRest(w, t, i, addVV(natFrom(w.d, i), t.z, Smaller(Len(t.z), Len(w.d) - i)))

\* What a workspace holds, as the result of a function.
Normed(w) == [z |-> natNorm(w.d), bad |-> w.bad]

RECURSIVE natMul(_, _)

\* The portions of k words of x, from word i on, times the lower k words of y and times
\* the others, are added to w.
RECURSIVE AddPortions(_, _, _, _, _)
AddPortions(w, x, y, k, i) ==
  LET xi == natNorm(natPart(x, i, Smaller(i + k, Len(x))))
      w1 == addAt(w, natMul(xi, natNorm(natPart(y, 0, k))), i)
  IN  IF i >= Len(x) THEN w
      ELSE AddPortions(addAt(w1, natMul(xi, natFrom(y, k)), i + k), x, y, k, i + k)

\* The workspace w holds the product of the lower k words of x and y; the rest is added.
Complete(w, x, y, k) ==
  LET z == [w EXCEPT !.d = natPart(@, 0, 2 * k) \o natNewLen(Len(x) + Len(y) - 2 * k)]
  IN  IF k = Len(y) /\ Len(x) = Len(y) THEN z
      ELSE AddPortions(addAt(z, natMul(natNorm(natPart(x, 0, k)), natFrom(y, k)), k), x, y, k, k)

natMul(x, y) ==
  LET m == Len(x)
      n == Len(y)
      k == karatsubaLen(n, karatsubaThreshold)
      w == [d |-> natNewLen(Bigger(6 * k, m + n)), bad |-> {}]
  IN  CASE m < n -> natMul(y, x)
        [] m >= n /\ n = 0 -> [z |-> natNew(0), bad |-> {}]
        [] m >= n /\ n = 1 -> [z |-> natMulAddWW(x, y[1], 0), bad |-> {}]
        [] m >= n /\ n > 1 /\ n < karatsubaThreshold ->
             [z |-> natNorm(basicMul(natNewLen(m + n), x, y)), bad |-> {}]
        [] OTHER -> Normed(Complete(karatsuba(w, natPart(x, 0, k), natPart(y, 0, k)), x, y, k))

-----------------------------------------------------------------------------
(* Shifts and squares. *)

\* x shifted left, and the bits shifted out.
shlVU(x, s) ==
  IF s = 0 \/ x = <<>> THEN [z |-> x, c |-> 0]
  ELSE [z |-> [i \in 1 .. Len(x) |->
                 Trunc(x[i] * 2 ^ s) | (IF i = 1 THEN 0 ELSE x[i - 1] \div 2 ^ (W - s))],
        c |-> x[Len(x)] \div 2 ^ (W - s)]

shrVU(x, s) ==
  IF s = 0 THEN x
  ELSE [i \in 1 .. Len(x) |->
          (x[i] \div 2 ^ s) | (IF i = Len(x) THEN 0 ELSE Trunc(x[i + 1] * 2 ^ (W - s)))]

\* The products of different words among the lowest n of x.
RECURSIVE CrossProducts(_, _)
CrossProducts(x, n) ==
  IF n <= 1 THEN natNewLen(2 * Len(x))
  ELSE LET a == CrossProducts(x, n - 1)
           r == addMulVVW(natPart(a, n - 1, 2 * n - 2), natPart(x, 0, n - 1), x[n])
       IN  natCopyAt(a, n - 1, Append(r.z, r.c))

\* The squares of the words.
WordSquares(x) ==
  [i \in 1 .. 2 * Len(x) |-> LET p == UIntMul(x[(i + 1) \div 2], x[(i + 1) \div 2])
                             IN  IF i % 2 = 1 THEN p.lo ELSE p.hi]

\* The squares of the words, plus twice the products of different words.
basicSqr(x) ==
  LET n == Len(x)
      twice == shlVU(natPart(CrossProducts(x, n), 1, 2 * n - 1), 1)
  IN  addVV(WordSquares(x), <<0>> \o Append(twice.z, twice.c), 2 * n).z

RECURSIVE karatsubaSqr(_, _)

karatsubaSqrAt(w, i, x) ==
  LET part == karatsubaSqr([w EXCEPT !.d = natFrom(@, i)], x)
  IN  [d |-> natCopyAt(w.d, i, part.d), bad |-> part.bad]

SqrDifference(w, n, xd) ==
  Finish(karatsubaSqrAt([w EXCEPT !.d = natCopyAt(@, 2 * n, xd.z)], 3 * n, xd.z), n, TRUE)

karatsubaSqr(w, x) ==
  LET n  == Len(x)
      n2 == n \div 2
      x0 == natPart(x, 0, n2)
      x1 == natFrom(x, n2)
  IN  IF n % 2 = 1 \/ n < karatsubaSqrThreshold THEN [w EXCEPT !.d = natCopyAt(@, 0, basicSqr(x))]
      ELSE SqrDifference(karatsubaSqrAt(karatsubaSqr(w, x0), n, x1), n, Distance(x1, x0, n2))

RECURSIVE natSqr(_)

\* The workspace w holds the square of the lower k words of x; twice t, their product with
\* the others, is added, and the square of the others.
CompleteSqr(w, x, k, t) ==
  LET z == [w EXCEPT !.d = natPart(@, 0, 2 * k) \o natNewLen(2 * (Len(x) - k))]
  IN  IF k = Len(x) THEN z
      ELSE addAt(addAt(addAt(z, t, k), t, k), natSqr(natFrom(x, k)), 2 * k)

natSqr(x) ==
  LET n == Len(x)
      k == karatsubaLen(n, karatsubaSqrThreshold)
      w == [d |-> natNewLen(Bigger(6 * k, 2 * n)), bad |-> {}]
      d == UIntMul(x[1], x[1])
  IN  CASE n = 0 -> [z |-> <<>>, bad |-> {}]
        [] n = 1 -> [z |-> natNorm(<<d.lo, d.hi>>), bad |-> {}]
        [] n > 1 /\ n < basicSqrThreshold ->
             [z |-> natNorm(basicMul(natNewLen(2 * n), x, x)), bad |-> {}]
        [] n > 1 /\ n >= basicSqrThreshold /\ n < karatsubaSqrThreshold ->
             [z |-> natNorm(basicSqr(x)), bad |-> {}]
        [] OTHER -> LET x0 == natPart(x, 0, k)
                    IN  Normed(CompleteSqr(karatsubaSqr(w, x0), x, k, natMul(natNorm(x0), natFrom(x, k))))

-----------------------------------------------------------------------------
(* Division. *)

\* The reciprocal that divWW multiplies with, for a divisor d1.
reciprocalWord(d1) ==
  LET u == Trunc(d1 * 2 ^ LeadingZeros(d1)) IN UIntDiv(Flip(u), M, u).q

\* The estimate q with its multiple dq of the divisor d is corrected, at most twice.
Corrected(a1, a0, d, q, dq, s) ==
  LET b  == UIntSub(a0, dq.lo, 0)
      up == UIntSub(a1, dq.hi, b.c).v # 0
      q1 == Trunc(q + (IF up THEN 1 ELSE 0))
      r1 == IF up THEN Trunc(b.v - d) ELSE b.v
  IN  IF r1 >= d THEN [q |-> Trunc(q1 + 1), r |-> Trunc(r1 - d) \div 2 ^ s]
      ELSE [q |-> q1, r |-> r1 \div 2 ^ s]

\* The high word of the reciprocal times (a1, a0), t being its product with a1.
HighWord(t, a1, a0) == UIntAdd(t.hi, a1, UIntAdd(t.lo, a0, 0).c).v

Estimated(a1, a0, d, q, s) == Corrected(a1, a0, d, q, UIntMul(d, q), s)

\* (x1, x0) divided by y with the reciprocal m of y; the operands are shifted left by s.
divWW(x1, x0, y, m) ==
  LET s  == LeadingZeros(y)
      a1 == IF s = 0 THEN x1 ELSE Trunc(x1 * 2 ^ s) | (x0 \div 2 ^ (W - s))
      a0 == Trunc(x0 * 2 ^ s)
  IN  Estimated(a1, a0, Trunc(y * 2 ^ s), HighWord(UIntMul(m, a1), a1, a0), s)

\* The words of the quotient from word i down, r being the remainder so far.
RECURSIVE DivWords(_, _, _, _, _)
DivWords(x, y, s, i, rec) ==
  IF i = 0 THEN s
  ELSE LET d == divWW(s.r, x[i], y, rec) IN DivWords(x, y, [z |-> <<d.q>> \o s.z, r |-> d.r], i - 1, rec)

natDivWVW(x, y) ==
  IF Len(x) = 1 THEN [z |-> <<UIntDiv(0, x[1], y).q>>, r |-> UIntDiv(0, x[1], y).r]
  ELSE DivWords(x, y, [z |-> <<>>, r |-> 0], Len(x), reciprocalWord(y))

Quotient(d) == [q |-> natNorm(d.z), r |-> d.r]

\* x divided by a word.  For the divisor 1, and for an empty x, the remainder is not
\* set: it is what the caller's variable held, unset.
natDivW(x, y, unset) ==
  CASE y = 1 -> [q |-> x, r |-> unset]
    [] y # 1 /\ x = <<>> -> [q |-> natNew(0), r |-> unset]
    [] OTHER -> Quotient(natDivWVW(x, y))

\* The loop that takes qhat down while qhat * vn2 is more than (rhat, ujn2).
RECURSIVE TakeDown(_, _, _, _, _)
TakeDown(qhat, rhat, vn1, vn2, ujn2) ==
  LET p == UIntMul(qhat, vn2)
  IN  IF p.hi < rhat \/ (p.hi = rhat /\ p.lo <= ujn2) THEN qhat
      ELSE IF Trunc(rhat + vn1) < rhat THEN qhat - 1
           ELSE TakeDown(qhat - 1, Trunc(rhat + vn1), vn1, vn2, ujn2)

\* The estimate of quotient word j, at most one too great.
Estimate(u, v, j) ==
  LET n    == Len(v)
      ujn  == IF j + n < Len(u) THEN u[j + n + 1] ELSE 0
      d    == divWW(ujn, u[j + n], v[n], reciprocalWord(v[n]))
  IN  IF ujn = v[n] THEN M ELSE TakeDown(d.q, d.r, v[n], v[n - 1], u[j + n - 1])

\* Word j of the quotient.  There may be no room for the first one: it is left out if it is 0.
SetWord(s, j, qj, u) ==
  IF j = Len(s.q) /\ qj = 0 THEN [s EXCEPT !.u = u]
  ELSE [q |-> IF j < Len(s.q) THEN natCopyAt(s.q, j, <<qj>>) ELSE s.q, u |-> u,
        bad |-> s.bad \cup {b \in {"overrun"} : j >= Len(s.q)}]

\* Mutant: the dividend is not restored after an estimate that was too great.
RestoreSkipped(s, v, j, qhat, len, diff) == SetWord(s, j, qhat, natCopyAt(s.u, j, diff.z))

\* The difference is the rest of the dividend, to which v is added back if it is negative;
\* len words were subtracted.
Restore(s, v, j, qhat, len, diff) ==
  LET n   == Len(v)
      u1  == natCopyAt(s.u, j, diff.z)
      sum == addVV(natFrom(u1, j), v, n)
      top == IF n < len THEN <<Trunc(u1[j + n + 1] + sum.c)>> ELSE <<>>
  IN  IF diff.c = 0 THEN SetWord(s, j, qhat, u1)
      ELSE SetWord(s, j, Trunc(qhat - 1), natCopyAt(u1, j, sum.z \o top))

\* The multiple p of v, qhat times, subtracted from the dividend.
Subtract(s, v, j, qhat, p) ==
  LET qhatv == IF j + Len(v) + 1 > Len(s.u) /\ p.c = 0 THEN p.z ELSE Append(p.z, p.c)
  IN  Restore(s, v, j, qhat, Len(qhatv), subVV(natFrom(s.u, j), qhatv, Smaller(Len(qhatv), Len(s.u) - j)))

DivStep(s, v, j, qhat) == Subtract(s, v, j, qhat, mulAddVWW(v, qhat, 0))

\* The rounds of natDivBasic: word j of the quotient q, and the rest of the dividend u.
RECURSIVE DivSteps(_, _, _)
DivSteps(s, v, j) ==
  IF j < 0 THEN s ELSE DivSteps(DivStep(s, v, j, Estimate(s.u, v, j)), v, j - 1)

\* The quotient over the words of q, whatever they held, the remainder over those of u.
natDivBasic(q, u, v) == DivSteps([q |-> q, u |-> u, bad |-> {}], v, Len(u) - Len(v))

\* The multiple p of the low words of v subtracted from the dividend uu.
TakeMultiple(uu, p) ==
  LET lo == subVV(uu, p, Len(p))
      hi == subVW(natFrom(uu, Len(p)), lo.c)
  IN  IF lo.c = 0 THEN [d |-> natCopyAt(uu, 0, lo.z), c |-> 0, bad |-> {}]
      ELSE [d |-> lo.z \o hi.z, c |-> hi.c, bad |-> hi.bad]

\* One round of the correction: qhat was too great, and v is added back.  An empty qhat
\* has the multiple <<0>>, which natCmp takes for more than an empty rest; the code then
\* subtracts the low words of v behind that one word.
AddBack(e, v, low) ==
  LET one == subVW(e.qhat, 1)
      mult == e.qhatv \o natNewLen(Bigger(0, low - Len(e.qhatv)))
      lo  == subVV(mult, v, low)
      hi  == subVW(natFrom(e.qhatv, low), lo.c)
      uu  == addAt([d |-> e.uu, bad |-> {}], [z |-> natFrom(v, low), bad |-> {}], low)
  IN  CASE natCmp(e.qhatv, natNorm(e.uu)) <= 0 -> e
        [] natCmp(e.qhatv, natNorm(e.uu)) > 0 /\ e.qhat = <<>> ->
             [e EXCEPT !.bad = @ \cup {"wild"}]
        [] OTHER -> [qhat |-> one.z, qhatv |-> natPart(lo.z \o hi.z, 0, Len(e.qhatv)), uu |-> uu.d,
                     bad |-> e.bad \cup one.bad \cup hi.bad \cup uu.bad]

\* The estimate qhat is corrected if it is too great, at most twice.
Adjust(e, v, low) == AddBack(AddBack(e, v, low), v, low)

\* The quotient words from word o on are added to s.q, and rest is what their multiple of v
\* leaves of the dividend.
Settle(s, o, last, e, rest) ==
  LET q == addAt([d |-> s.q, bad |-> {}], [z |-> e.qhat, bad |-> {}], o)
  IN  [q |-> q.d, u |-> natCopyAt(s.u, o, rest.d),
       bad |-> s.bad \cup e.bad \cup rest.bad \cup q.bad \cup {b \in {"assert"} : last /\ rest.c > 0}]

\* The multiple must not exceed the dividend now.
Settled(s, o, last, e) ==
  CASE "wild" \in e.bad -> [s EXCEPT !.bad = @ \cup e.bad]
    [] "wild" \notin e.bad /\ natCmp(e.qhatv, natNorm(e.uu)) > 0 ->
         [s EXCEPT !.bad = @ \cup e.bad \cup {"assert"}]
    [] OTHER -> Settle(s, o, last, e, TakeMultiple(e.uu, e.qhatv))

\* The high words gave the estimate qhat, of which p is the multiple of the low words of v.
Multiplied(s, v, o, last, d, qhat, p) ==
  Settled(s, o, last,
          Adjust([qhat |-> qhat, qhatv |-> p.z, uu |-> d.uu, bad |-> d.bad \cup p.bad], v, Len(v) \div 2 - 1))

PortionOf(s, v, o, last, d) ==
  Multiplied(s, v, o, last, d, natNorm(d.q), natMul(natNorm(d.q), natPart(v, 0, Len(v) \div 2 - 1)))

\* u divided by v: the quotient over the words of z, the remainder over those of u.
\* There are vectors for temps levels of the recursion.
RECURSIVE natDivRecursiveStep(_, _, _, _, _)

\* A portion of the quotient, from word o on: the words low .. top - 1 of the dividend
\* from o on are divided by v without its low words, and the result is corrected.  The
\* vector for it may be longer in the code; more words than these it never has.
Portion(s, v, o, top, last, depth, temps) ==
  LET low == Len(v) \div 2 - 1
      uu == natFrom(s.u, o)
      d == natDivRecursiveStep(natNewLen(low + 2), natPart(uu, low, top), natFrom(v, low), depth + 1, temps)
  IN  PortionOf(s, v, o, last,
              [q |-> d.q, uu |-> natCopyAt(uu, low, d.u),
               bad |-> d.bad \cup {b \in {"assert"} : depth + 1 >= temps}])

\* The portions of n / 2 words, the last of which takes what is left.
RECURSIVE Portions(_, _, _, _, _)
Portions(s, v, j, depth, temps) ==
  LET B == Len(v) \div 2
  IN  IF s.bad \cap {"wild", "assert"} # {} THEN s
      ELSE IF j > B THEN Portions(Portion(s, v, j - B, B + Len(v), FALSE, depth, temps), v, j - B, depth, temps)
      ELSE Portion(s, v, 0, Len(s.u), TRUE, depth, temps)

\* The step for operands without leading zeros.
StepOn(z, u, v, depth, temps) ==
  LET s == [q |-> z, u |-> u, bad |-> {}]
  IN  CASE u = <<>> -> [s EXCEPT !.q = natNewLen(Len(z))]
        [] u # <<>> /\ Len(v) < divRecursiveThreshold -> natDivBasic(z, u, v)
        [] u # <<>> /\ Len(v) >= divRecursiveThreshold /\ Len(u) < Len(v) -> s
        [] OTHER -> Portions(s, v, Len(u) - Len(v), depth, temps)

\* The leading zeros of the dividend are left alone.
natDivRecursiveStep(z, u, v, depth, temps) ==
  LET s == StepOn(z, natNorm(u), natNorm(v), depth, temps)
  IN  [s EXCEPT !.u = natCopyAt(u, 0, @)]

natDivRecursive(z, u, v) == natDivRecursiveStep(natNewLen(Len(z)), u, v, 0, 2 * Len64(Len(v)))

Unshifted(s, shift) == [q |-> natNorm(s.q), r |-> natNorm(shrVU(s.u, shift)), bad |-> s.bad]

\* z is the vector whose words the quotient takes over.
natDivLarge(z, uIn, vIn) ==
  LET m     == Len(uIn) - Len(vIn)
      shift == LeadingZeros(vIn[Len(vIn)])
      v     == shlVU(vIn, shift).z
      u     == shlVU(uIn, shift)
      q     == IF m + 1 < Len(z) THEN natPart(z, 0, m + 1) ELSE natNewLen(m + 1)
  IN  Unshifted(IF Len(vIn) < divRecursiveThreshold THEN natDivBasic(q, Append(u.z, u.c), v)
                ELSE natDivRecursive(q, Append(u.z, u.c), v), shift)

\* The remainder of a division by a word, as a vector.
WithVector(d) == [q |-> d.q, r |-> IF d.r = 0 THEN <<>> ELSE <<d.r>>, bad |-> {}]

\* u divided by v, which is not zero.
natDiv(z, u, v, unset) ==
  CASE natCmp(u, v) < 0 -> [q |-> <<>>, r |-> u, bad |-> {}]
    [] natCmp(u, v) >= 0 /\ Len(v) = 1 ->
         WithVector(natDivW(u, v[1], unset))
    [] OTHER -> natDivLarge(z, u, v)
=============================================================================
