---------------------------- MODULE MCSwissMap -----------------------------
(***************************************************************************)
(* Instances of SwissMap for TLC.                                          *)
(***************************************************************************)
EXTENDS SwissMap, Bitwise, TLC

CONSTANTS k1, k2, k3, k4, v1

XorTable == [a, b \in 0..7 |-> a ^^ b]
MCXor(a, b) == XorTable[a, b]

\* The probes of k1, k2 and k3 start at one place, next to the sentinel, those
\* of k4 at another one they run into; k4 has a tag of its own.
Starts == [k \in Key |-> IF k = k4 THEN 0 ELSE 6]
Tags == [k \in Key |-> IF k = k4 THEN 1 ELSE 0]

\* All keys with the same hash.
AllCollide == [k \in Key |-> 0]

\* One key is overwritten with another value.
Overwrites == [k \in Key |-> IF k = k1 THEN Val ELSE {v1}]
Same == [k \in Key |-> Val]

\* Keys with the same hash and the same values are interchangeable.
KeySymmetry == Permutations(Key)
PairSymmetry == Permutations({k2, k3})

\* m_cap is always a mask, and the masking is a remainder.
ASSUME \A c \in {0, 1, 3, 7, 15} : \A n \in 0..16 : (n & c) = n % (c + 1)
=============================================================================
