------------------------------ MODULE MCBigInt ------------------------------
(* BigInt with words of 4 bits and small thresholds. *)
EXTENDS BigInt

\* Normalised vectors of n words from S.
Vectors(S, n) == {z \in [1 .. n -> S] : z[n] # 0}

\* All single words, with both zeros, and longer numbers of the words at the edges.
MCAbs ==
  {<<>>} \cup {<<v>> : v \in Word} \cup Vectors({0, 1, 8, M}, 2)
  \cup Vectors({0, M}, 3) \cup Vectors({0, M}, 4) \cup Vectors({0, M}, 5) 
  \cup {<<0, 1, 0, 1>>, <<1, 0, 1, 1, 8>>}

\* Signs matter to bigint.c only: fewer numbers have one.
MCOperands ==
  {BigIntNewI(v) : v \in -8 .. 7} \cup {[neg |-> FALSE, abs |-> z] : z \in MCAbs}
  \cup {[neg |-> TRUE, abs |-> z] :
          z \in {<<v>> : v \in {0, 1, 8, M}} \cup Vectors({0, M}, 2) \cup Vectors({0, M}, 3) \cup {<<1, 0, 1, 1, 8>>}}

\* Longer numbers, for divisors that are divided by in portions.  With the words 7 and M
\* the estimates have to be corrected; a divisor of ten words takes two levels.
Dividends ==
  {<<0, 0, M, 0, 0, 0>> \o z : z \in Vectors({0, M}, 5)} \cup {z \o <<0, M, 0, M, 8, 0, M>> : z \in Vectors({0, M}, 3)}
  \cup {z \o <<1, 1, M, 0, 0, 0, 7, 0, 0, 0, M, 7>> : z \in Vectors({1, M}, 2)}
Divisors ==
  {z \o <<0, 0, 8>> : z \in Vectors({0, M}, 3)} \cup {<<M, M, M, 0, 0, 0, 1>>, <<0, 0, 7, 0, M, M, 7>>}
  \cup {<<1, z, M, 0, 0, 0, 0, 0, M, 7>> : z \in {1, M}}

\* Among the dividends of a divisor are multiples of it that end in zero words.
MCLongPairs ==
  {<<[neg |-> FALSE, abs |-> u], [neg |-> TRUE, abs |-> v]>> :
     <<u, v>> \in Dividends \X Divisors \cup {<<natNewLen(k) \o v, v>> : k \in {2, 6}, v \in Divisors}}
=============================================================================
