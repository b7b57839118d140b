-------------------------------- MODULE Words --------------------------------
(***************************************************************************)
(* Words of XLEN bits (32 in the source) as natural numbers: their bits,   *)
(* their signed value, and the four bytes of XLEN/4 bits they consist of.  *)
(***************************************************************************)
EXTENDS Integers

CONSTANT XLEN

ASSUME XLENAssumption == XLEN \in Nat \ {0} /\ XLEN % 4 = 0

\* 2^n: a recursive function, so that a proof can use its definition.
Pow2[n \in 0..XLEN] == IF n = 0 THEN 1 ELSE 2 * Pow2[n - 1]

Modulus  == Pow2[XLEN]
ByteSize == Pow2[XLEN \div 4]

AllWords == 0..Modulus-1
AllBytes == 0..ByteSize-1

Bit(a, i) == (a \div Pow2[i]) % 2

\* The word whose bits are given by a table of those of a and b.
Bitwise(table, a, b) ==
    LET low[n \in 0..XLEN] ==
            IF n = 0 THEN 0
            ELSE low[n - 1] + Pow2[n - 1] * table[Bit(a, n - 1)][Bit(b, n - 1)]
    IN  low[XLEN]

And(a, b) == Bitwise([x \in 0..1 |-> [y \in 0..1 |-> x * y]], a, b)
Or(a, b)  == Bitwise([x \in 0..1 |-> [y \in 0..1 |-> x + y - x * y]], a, b)
Xor(a, b) == Bitwise([x \in 0..1 |-> [y \in 0..1 |-> (x + y) % 2]], a, b)
Not(a)    == Modulus - 1 - a

Signed(a) == IF a < Pow2[XLEN - 1] THEN a ELSE a - Modulus

Truth(b) == IF b THEN 1 ELSE 0

\* The weight of a lane: what a word counts for each unit of the byte there.
Weight(lane) == Pow2[lane * (XLEN \div 4)]

\* The word with byte k in lane k, and back.
Joined(l) == l[0] + Weight(1) * l[1] + Weight(2) * l[2] + Weight(3) * l[3]

Split(w) == [lane \in 0..3 |-> (w \div Weight(lane)) % ByteSize]

\* The low n bytes of a word, sign-extended if signed.
Extended(w, n, signed) ==
    LET low == w % Weight(n)
    IN  IF signed /\ 2 * low >= Weight(n) THEN low + Modulus - Weight(n) ELSE low
=============================================================================
