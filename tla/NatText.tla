------------------------------ MODULE NatText ------------------------------
(***************************************************************************)
(* cmake/bigint/src/natconv.c: numerals.  A digit is its value; a text is  *)
(* the sequence of its digits, the most significant first, and a sign.     *)
(***************************************************************************)
EXTENDS Nats

CONSTANT leafSize                  \* 8: shorter numbers are converted without the table

ASSUME LeafAssumption == leafSize \in Nat \ {0}

natBitLen(x) == IF x = <<>> THEN 0 ELSE (Len(x) - 1) * W + Len64(x[Len(x)])

\* The result r computed from a.
Then(a, r) == [z |-> r.z, bad |-> a.bad \cup r.bad]

Times(bit, x, sq) == IF bit = 1 THEN Then(sq, natMul(sq.z, <<x>>)) ELSE sq

\* The lowest i bits of the exponent y, from the top: a square for each, times x for a 1.
RECURSIVE ExpBits(_, _, _, _)
ExpBits(a, x, y, i) ==
  IF i = 0 THEN a
  ELSE ExpBits(Times((y \div 2 ^ (i - 1)) % 2, x, Then(a, natSqr(a.z))), x, y, i - 1)

\* x to the power y for words, y at least 1: natExpNN with no modulus, which takes the bits
\* of y below the leading one.
natExpWW(x, y) ==
  LET one == [z |-> <<x>>, bad |-> {}]
  IN  IF x = 1 \/ y = 1 THEN one
      ELSE [ExpBits(one, x, y, W - LeadingZeros(y) - 1) EXCEPT !.z = natNorm(@)]

\* The greatest power of b that the loop finds in a word, and its exponent.
RECURSIVE RaisePow(_, _, _)
RaisePow(b, p, n) == IF p < M \div b THEN RaisePow(b, Trunc(p * b), n + 1) ELSE [p |-> p, n |-> n]
maxPow(b) == RaisePow(b, b, 1)

\* Mutant: an entry is enlarged but the number of its digits is kept.
RECURSIVE EnlargeUncounted(_, _)
EnlargeUncounted(e, b) ==
  LET larger == mulAddVWW(e.bbb, b, 0)
  IN  IF larger.c # 0 THEN [e EXCEPT !.nbits = natBitLen(e.bbb)]
      ELSE EnlargeUncounted([e EXCEPT !.bbb = larger.z], b)

\* An entry of the table is multiplied by b for as long as it keeps its length.
RECURSIVE Enlarge(_, _)
Enlarge(e, b) ==
  LET larger == mulAddVWW(e.bbb, b, 0)
  IN  IF larger.c # 0 THEN [e EXCEPT !.nbits = natBitLen(e.bbb)]
      ELSE Enlarge([e EXCEPT !.bbb = larger.z, !.ndigits = @ + 1], b)

RECURSIVE TableLen(_, _)
TableLen(words, m) == IF words < m \div 2 THEN 1 + TableLen(2 * words, m) ELSE 1

Entry(p, ndigits, bad, b) ==
  Enlarge([bbb |-> p.z, ndigits |-> ndigits, nbits |-> 0, bad |-> bad \cup p.bad], b)

\* The table is continued to n entries, each about the square of the one before.
RECURSIVE Squares(_, _, _)
Squares(t, n, b) ==
  IF Len(t) = n THEN t
  ELSE LET last == t[Len(t)]
       IN  Squares(Append(t, Entry(natSqr(last.bbb), 2 * last.ndigits, last.bad, b)), n, b)

\* The divisors for a number of m words: powers of b with their numbers of digits.
divisors(m, b, bb) ==
  IF m <= leafSize THEN <<>>
  ELSE Squares(<<Entry(natExpWW(bb.p, leafSize), bb.n * leafSize, {}, b)>>, TableLen(leafSize, m), b)

\* The last n digits of r.
LastDigits(r, b, n) == [i \in 1 .. n |-> (r \div b ^ (n - i)) % b]

\* The leaves: one word after the other, at most slen digits, zeros in front.
RECURSIVE Leaf(_, _, _, _)
WordDigits(d, n, slen, b, bb) == Leaf(d.q, slen - n, b, bb) \o LastDigits(d.r, b, n)
Leaf(q, slen, b, bb) ==
  IF q = <<>> THEN natNewLen(slen) ELSE WordDigits(natDivW(q, bb.p, 0), Smaller(bb.n, slen), slen, b, bb)

\* The entry to divide q by, from index on down: the first whose predecessor is not
\* longer than half of q, or the one before if that is not less than q.
RECURSIVE Halving(_, _, _)
Halving(index, table, minLen) ==
  IF index > 1 /\ table[index - 1].nbits > minLen THEN Halving(index - 1, table, minLen) ELSE index
Divisor(q, index, table) ==
  LET i == Halving(index, table, natBitLen(q) \div 2)
  IN  IF table[i].nbits >= natBitLen(q) /\ natCmp(table[i].bbb, q) >= 0 THEN i - 1 ELSE i

\* The digits of the quotient and of the remainder, one after the other.
Joined(hi, lo, bad) == [s |-> hi.s \o lo.s, bad |-> bad \cup hi.bad \cup lo.bad]

\* slen digits of q, dividing by the entries of the table up to index.  The remainder
\* is converted with the entries before the one it was divided by.
RECURSIVE convertWords(_, _, _, _, _, _)

Divided(d, slen, b, bb, table, i) ==
  Joined(convertWords(d.q, slen - table[i].ndigits, b, bb, table, i),
         convertWords(d.r, table[i].ndigits, b, bb, table, i - 1), d.bad)

convertWords(q, slen, b, bb, table, index) ==
  IF table = <<>> \/ Len(q) <= leafSize THEN [s |-> Leaf(q, slen, b, bb), bad |-> {}]
  ELSE LET i == Divisor(q, index, table)
       IN  Divided(natDiv(q, q, table[i].bbb, 0), slen, b, bb, table, i)

\* The digits of x in a base of 2^shift, from the last on: w holds the nbits bits
\* that are left of the words before word k.
RECURSIVE ShiftOut(_, _, _, _, _, _)
ShiftOut(x, k, w, nbits, shift, out) ==
  LET mask == 2 ^ shift
      over == w | Trunc(x[k] * 2 ^ nbits)        \* a digit from two words
  IN  CASE k > Len(x) /\ w = 0 -> out
        [] k > Len(x) /\ w # 0 -> ShiftOut(x, k, w \div mask, nbits, shift, <<w % mask>> \o out)
        [] k <= Len(x) /\ nbits >= shift ->
             ShiftOut(x, k, w \div mask, nbits - shift, shift, <<w % mask>> \o out)
        [] k <= Len(x) /\ nbits = 0 -> ShiftOut(x, k + 1, x[k], W, shift, out)
        [] OTHER -> ShiftOut(x, k + 1, x[k] \div 2 ^ (shift - nbits), W - (shift - nbits), shift,
                             <<over % mask>> \o out)

\* The length of the buffer: bits / log2(base), rounded down, plus one.
DigitBound(x, base) ==
  1 + CHOOSE n \in 0 .. natBitLen(x) : base ^ n <= 2 ^ natBitLen(x) /\ base ^ (n + 1) > 2 ^ natBitLen(x)

WithoutZeros(s) ==
  IF \A i \in 1 .. Len(s) : s[i] = 0 THEN <<>>
  ELSE natFrom(s, (CHOOSE i \in 1 .. Len(s) : s[i] # 0 /\ \A j \in 1 .. i - 1 : s[j] = 0) - 1)

\* The digits without the zeros in front, and what happened when the table was made.
Trimmed(conv, table) ==
  [s |-> WithoutZeros(conv.s), bad |-> conv.bad \cup UNION {table[i].bad : i \in 1 .. Len(table)}]

ByTable(x, slen, base, bb, table) == Trimmed(convertWords(x, slen, base, bb, table, Len(table)), table)

\* A buffer of slen characters takes the sign and the digits t.
Written(neg, slen, t) ==
  [minus |-> neg, s |-> t.s,
   bad |-> t.bad \cup {b \in {"overrun"} : Len(t.s) + (IF neg THEN 1 ELSE 0) > slen}]

\* The text of x, by shifts for a base that is a power of 2.  The sign goes in front of the
\* first digit that is not 0, so that a number of one word 0 has no digits at all.
natI2a(x, neg, base) ==
  LET slen  == DigitBound(x, base) + (IF neg THEN 1 ELSE 0)
      shift == TrailingZeros(base)
  IN  CASE x = <<>> -> [minus |-> FALSE, s |-> <<0>>, bad |-> {}]
        [] x # <<>> /\ base = 2 ^ shift ->
             Written(neg, slen, [s |-> ShiftOut(x, 2, x[1], W, shift, <<>>), bad |-> {}])
        [] OTHER ->
             LET bb == maxPow(base)
             IN  Written(neg, slen, ByTable(x, slen, base, bb, divisors(Len(x), base, bb)))
=============================================================================
