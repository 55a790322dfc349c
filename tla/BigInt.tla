------------------------------- MODULE BigInt -------------------------------
(***************************************************************************)
(* cmake/bigint/src/bigint.c: signed integers, and a caller with two of    *)
(* them, x and y, who calls one function of the library after the other    *)
(* and frees what it returned.                                             *)
(***************************************************************************)
EXTENDS NatText

CONSTANTS Operands,                \* the integers the caller has got from earlier calls
          Bases,                   \* the bases the caller asks for
          LongPairs,               \* pairs of longer integers, for the division
          MaxPower                 \* exponents of natExpWW that are tried

VARIABLES x, y, out                \* the operands and what the last call returned

vars == <<x, y, out>>

BigIntNewU(v) == [neg |-> FALSE, abs |-> natNew(v)]
BigIntNewI(v) == [neg |-> v < 0, abs |-> natNew(Trunc(IF v < 0 THEN -v ELSE v))]

intOne == [neg |-> FALSE, abs |-> <<1>>]

\* The value with its sign, which an empty vector never has.
Signed(neg, z) == [neg |-> z # <<>> /\ neg, abs |-> z]

WithSign(neg, r) == [v |-> Signed(neg, r.z), bad |-> r.bad]

BigIntAdd(a, b) ==
  LET less == natCmp(a.abs, b.abs) < 0
      r == IF a.neg = b.neg THEN natAdd(a.abs, b.abs)
           ELSE IF less THEN natSub(b.abs, a.abs) ELSE natSub(a.abs, b.abs)
  IN  WithSign(IF a.neg # b.neg /\ less THEN ~a.neg ELSE a.neg, r)

\* BigIntSub decides as BigIntAdd does for -b.
BigIntSub(a, b) == BigIntAdd(a, [b EXCEPT !.neg = ~@])

BigIntMul(a, b) == WithSign(a.neg # b.neg, natMul(a.abs, b.abs))

\* The quotient towards zero, and the remainder with the sign of the dividend.
WithSigns(a, b, d) ==
  [q |-> Signed(a.neg # b.neg, d.q), r |-> Signed(a.neg, natNorm(d.r)), bad |-> d.bad]
QuoRem(a, b, unset) == WithSigns(a, b, natDiv(<<>>, a.abs, b.abs, unset))

\* What BigIntDiv returns: z, which is the quotient d.q or was moved from it.
MovedBy(d, z, moved) ==
  [op |-> "div", q |-> d.q, r |-> d.r, v |-> z.v, moved |-> moved,
   bad |-> d.bad \cup (z.bad \ {"shared"})]

\* Mutant: the quotient is moved to the wrong side.
MovedWrongWay(d, b, stale) ==
  LET one == IF b.neg THEN BigIntSub(d.q, intOne) ELSE BigIntAdd(d.q, intOne)
  IN  MovedBy(d, IF stale THEN one ELSE [v |-> d.q, bad |-> {}], stale)

\* The end of BigIntDiv: whether the quotient is moved by one is read from the flag of the
\* remainder after that was freed, where it finds stale.  A result that shares the word of
\* intOne does no harm: natFree leaves that alone.
Moved(d, b, stale) ==
  LET one == IF b.neg THEN BigIntAdd(d.q, intOne) ELSE BigIntSub(d.q, intOne)
  IN  MovedBy(d, IF stale THEN one ELSE [v |-> d.q, bad |-> {}], stale)

\* natDiv and natDivW assert that the divisor is not zero; a zero of one word is found
\* out only if the dividend has a word as well.
Refused(a, b) == b.abs = <<>> \/ (b.abs = <<0>> /\ natCmp(a.abs, b.abs) >= 0)

-----------------------------------------------------------------------------
(* The calls. *)

Nothing == [op |-> "none"]

\* The second operand of the calls that have one.
Absent == [neg |-> FALSE, abs |-> <<-1>>]

Init == /\ \/ x \in Operands /\ y \in Operands \cup {Absent}
           \/ \E p \in LongPairs : x = p[1] /\ y = p[2]
        /\ out = Nothing

Two == out = Nothing /\ y # Absent
One == out = Nothing /\ y = Absent

Returns(result) == out' = result /\ UNCHANGED <<x, y>>

\* The call op returns the integer r; only natExpWW has an exponent e.
ReturnsInt(op, e, r) == Returns([op |-> op, e |-> e, v |-> r.v, bad |-> r.bad])

Add == Two /\ ReturnsInt("add", 1, BigIntAdd(x, y))

Sub == Two /\ ReturnsInt("sub", 1, BigIntSub(x, y))

Mul == Two /\ ReturnsInt("mul", 1, BigIntMul(x, y))

\* unset is the remainder word that natDivW does not write if it divides by 1.
Div ==
  /\ Two
  /\ ~Refused(x, y)
  /\ \E unset \in IF y.abs = <<1>> THEN Word ELSE {0}, stale \in BOOLEAN :
       Returns(Moved(QuoRem(x, y, unset), y, stale))

\* QuoRem hands natDiv two vectors that were never initialised, to be reused or freed:
\* unless malloc returned cleared memory, the process dies.  So it does of an assertion.
DivDies == Two /\ Returns([op |-> "dead"])

\* natSqr and natExpWW, which divisors uses, called directly.
Square == One /\ ReturnsInt("sqr", 1, WithSign(FALSE, natSqr(x.abs)))

Power ==
  /\ One
  /\ Len(x.abs) = 1
  /\ \E e \in 1 .. MaxPower : ReturnsInt("exp", e, WithSign(FALSE, natExpWW(x.abs[1], e)))

TextIs(base, t) ==
  Returns([op |-> "text", base |-> base, minus |-> t.minus, s |-> t.s, bad |-> t.bad])

\* BigInt2String and BigInt2HexStr are the bases 10 and 16.
BigInt2Text ==
  /\ One
  /\ \E base \in Bases :
       TextIs(base, natI2a(x.abs, x.neg, base))

\* The result is freed, unless the process died in an assertion.  If it has the words of
\* an operand, that operand is left with freed memory.
BigIntFree ==
  /\ out.op \notin {"none", "dead", "dangling"}
  /\ out.bad \cap {"assert", "wild"} = {}
  /\ out' = IF "shared" \in out.bad THEN [op |-> "dangling"] ELSE Nothing
  /\ UNCHANGED <<x, y>>

Next == Add \/ Sub \/ Mul \/ Div \/ DivDies \/ Square \/ Power \/ BigInt2Text \/ BigIntFree

Spec == Init /\ [][Next]_vars

-----------------------------------------------------------------------------
(* The properties.  Results are compared with integer arithmetic through    *)
(* their residues for primes whose product exceeds every result, since an   *)
(* integer of the model checker has 32 bits.                                *)

Primes == <<46337, 46327, 46309, 46307, 46301, 46279, 46273, 46271, 46261, 46237>>

\* Enough primes for results and their parts, of twice the words of an operand and some.
Moduli ==
  LET words == Bigger(MaxPower, 2 * Bigger(Len(x.abs), Len(y.abs)) + 1)
  IN  {Primes[i] : i \in 1 .. (W * words) \div 15 + 1}

Residue(z, p) ==
  LET f[i \in 1 .. Len(z) + 1] == IF i > Len(z) THEN 0 ELSE (z[i] + 2 ^ W * f[i + 1]) % p
  IN  f[1]

Mod(v, p) == IF v.neg THEN (- Residue(v.abs, p)) % p ELSE Residue(v.abs, p)

\* v is the integer whose residue for every modulus p is R(p).
Is(v, R(_)) == \A p \in Moduli : Mod(v, p) = R(p) % p

Zero(v) == \A i \in 1 .. Len(v.abs) : v.abs[i] = 0

\* b to the power e, modulo p.
PowerMod(b, e, p) ==
  LET f[i \in 0 .. e] == IF i = 0 THEN 1 ELSE (f[i - 1] * b) % p IN f[e]

\* No leading zero word, and no sign of zero.
Canonical(v) == natNorm(v.abs) = v.abs /\ (v.abs = <<>> => ~v.neg)

Ripple == "ripple" \in out.bad

\* Type invariant (a part of SumExact): results consist of words, and the calls report only
\* known mishaps.
TypeOK ==
  /\ <<x, y>> \in Operands \X (Operands \cup {Absent}) \cup LongPairs
  /\ out.op \in {"add", "sub", "mul", "sqr", "exp", "div"} =>
       /\ out.v.neg \in BOOLEAN
       /\ \A i \in 1 .. Len(out.v.abs) : out.v.abs[i] \in Word
       /\ out.bad \subseteq {"ripple", "overrun", "assert", "shared", "wild"}

\* The word primitives of base.c, computed from halves of words, are exact for all
\* words: carries and borrows, the double-width product, and the quotient and
\* remainder of a double word.
WordsExact ==
  out = Nothing /\ Len(x.abs) = 1 /\ Len(y.abs) = 1 /\ y # Absent =>
    LET a == x.abs[1]
        b == y.abs[1]
    IN  /\ \A c \in 0 .. 1 : /\ UIntAdd(a, b, c).c * 2 ^ W + UIntAdd(a, b, c).v = a + b + c
                             /\ UIntSub(a, b, c).v - UIntSub(a, b, c).c * 2 ^ W = a - b - c
        /\ UIntMul(a, b).hi * 2 ^ W + UIntMul(a, b).lo = a * b
        /\ a < b => \A lo \in Word : /\ UIntDiv(a, lo, b).q * b + UIntDiv(a, lo, b).r = a * 2 ^ W + lo
                                     /\ UIntDiv(a, lo, b).r < b

\* BigIntAdd and BigIntSub return the sum and the difference exactly if addVW or subVW
\* does not take a carry through a second word, where it is added twice; and the
\* assertion of natSub, that no borrow is left, fails only then.  Of operands in normal
\* form the result is in normal form, as natCmp needs it: no leading zero, no sign of zero.
\* addVWlarge and subVWlarge touch words behind a vector only if one operand is longer than
\* the other by more than the length at which they are used.  Freeing a result takes the
\* words of an operand away only if the other operand was an empty zero.
SumExact ==
  /\ TypeOK
  /\ out.op = "dangling" => x.abs = <<>> \/ y.abs = <<>>
  /\ out.op \in {"add", "sub"} =>
    /\ Canonical(x) /\ Canonical(y) => Canonical(out.v)
    /\ Is(out.v, LAMBDA p : IF out.op = "add" THEN Mod(x, p) + Mod(y, p) ELSE Mod(x, p) - Mod(y, p))
         <=> ~Ripple
    /\ "assert" \in out.bad => Ripple
    /\ "overrun" \in out.bad =>
         Len(x.abs) > Len(y.abs) + LargeLen \/ Len(y.abs) > Len(x.abs) + LargeLen

\* The product is right, whether it is computed word by word, by karatsuba in one
\* workspace or in portions, unless a carry went through a second word on the way; so
\* are the square, by each of the algorithms of natSqr, and the power of natExpWW.  A
\* product of operands in normal form is in normal form unless it is zero.
ProductExact ==
  /\ out.op = "mul" /\ Canonical(x) /\ Canonical(y) => Canonical(out.v) \/ Zero(out.v)
  /\ out.op \in {"mul", "sqr", "exp"} /\ ~Ripple =>
    /\ out.op = "mul" => Is(out.v, LAMBDA p : Mod(x, p) * Mod(y, p))
    /\ out.op = "sqr" => Is(out.v, LAMBDA p : Mod(x, p) * Mod(x, p))
    /\ out.op = "exp" => Is(out.v, LAMBDA p : PowerMod(x.abs[1], out.e, p))

\* The quotient and remainder of QuoRem are those of division towards zero, and natDivBasic
\* writes nothing behind the quotient; only a division by 1 or -1 leaves the remainder undefined.
\* That holds for long divisors as well, by which natDivRecursive divides in portions and
\* corrects them, unless subVW or addVW took a carry through a second word or a portion of
\* the dividend was exhausted, which makes the code write behind a vector.
\* BigIntDiv returns that quotient, or moves it by one to the side of the divisor's sign,
\* going by a flag it has freed; it is exactly that integer unless adding or subtracting 1
\* took a carry through a second word, and in normal form in either case.  If the flag still
\* was the sign of the remainder, x - v * y is at least 0 and less than the divisor.
QuotientExact ==
  out.op = "div" =>
    LET long == Len(y.abs) >= divRecursiveThreshold
        step == IF ~out.moved THEN 0 ELSE IF y.neg THEN 1 ELSE -1
    IN
    /\ "wild" \in out.bad => long
    /\ "assert" \in out.bad => Ripple
    /\ "wild" \notin out.bad /\ ~(long /\ Ripple) =>
       /\ Canonical(x) /\ Canonical(y) => Canonical(out.v)
       /\ Is(out.v, LAMBDA p : Mod(out.q, p) + step) <=> ~Ripple
       /\ "overrun" \in out.bad => long \/ out.v # out.q
       /\ IF y.abs = <<1>> THEN Is(out.q, LAMBDA p : Mod(x, p) * Mod(y, p))
          ELSE /\ Is(x, LAMBDA p : Mod(out.q, p) * Mod(y, p) + Mod(out.r, p))
               /\ natCmp(out.r.abs, y.abs) < 0
               /\ out.r.abs # <<>> => out.r.neg = x.neg
               /\ out.moved = out.r.neg /\ ~Ripple =>
                    Is(x, LAMBDA p : Mod(out.v, p) * Mod(y, p) + Mod(out.r, p)
                                       + (IF out.r.neg THEN Residue(y.abs, p) ELSE 0))

\* The text is the numeral of x in the base, by shifting or by the table of divisors: its
\* value is that of x, it has no leading zero, and it fits into the buffer.  The integer 0
\* of one word is the exception: it has no digits.  Nothing is said if a division on the way
\* took a carry through a second word, which none of the checked integers makes it do.
TextExact ==
  (out.op = "text" /\ x.abs # <<0>> /\ ~Ripple) =>
    /\ out.minus = x.neg /\ "overrun" \notin out.bad
    /\ Len(out.s) > 1 => out.s[1] # 0
    /\ \A p \in Moduli :
         LET f[i \in 0 .. Len(out.s)] == IF i = 0 THEN 0 ELSE (f[i - 1] * out.base + out.s[i]) % p
         IN  f[Len(out.s)] = Residue(x.abs, p)
=============================================================================
