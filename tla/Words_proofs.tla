---------------------------- MODULE Words_proofs ----------------------------
(***************************************************************************)
(* Lemmas about words of any width: powers of two, bits, bytes.            *)
(***************************************************************************)
EXTENDS Words, TLAPS, WellFoundedInduction

-----------------------------------------------------------------------------
(* Induction over the natural numbers, for a set instead of a predicate: a *)
(* set that misses a number misses a least one.                            *)

\* The order on the natural numbers, as a set of pairs.
Less == {ss \in Nat \X Nat : ss[1] < ss[2]}

\* A set that holds 0 and with every number the next one holds all numbers.
LEMMA Induction ==
    ASSUME NEW T, 0 \in T, \A n \in Nat : n \in T => n + 1 \in T
    PROVE  \A n \in Nat : n \in T
<1> SUFFICES ASSUME Nat \ T # {} PROVE FALSE
  OBVIOUS
<1>1. IsWellFoundedOn(Less, Nat)
  BY NatLessThanWellFounded DEF OpToRel, Less
<1> DEFINE U == Nat \ T
<1>2. U \subseteq Nat /\ U # {}
  OBVIOUS
<1> HIDE DEF U
<1>3. PICK m \in U : \A k \in U : ~(<<k, m>> \in Less)
  BY <1>1, <1>2, WFMin
<1>4. m \in Nat /\ m \notin T /\ m # 0
  BY <1>3 DEF U
<1>5. m - 1 \in Nat /\ m - 1 < m
  BY <1>4
<1>6. m - 1 \in U
  BY <1>4, <1>5 DEF U
<1>7. <<m - 1, m>> \in Less
  BY <1>4, <1>5 DEF Less
<1>8. QED
  BY <1>3, <1>6, <1>7

-----------------------------------------------------------------------------
(* Powers of two.                                                          *)

\* There is a function as the definition of Pow2 asks for.
LEMMA PowersExist ==
    \E f \in [0..XLEN -> Nat \ {0}] :
        f = [n \in 0..XLEN |-> IF n = 0 THEN 1 ELSE 2 * f[n - 1]]
<1> DEFINE Doubles(f, m) == /\ f \in [0..m -> Nat \ {0}]
                            /\ \A n \in 0..m : f[n] = IF n = 0 THEN 1 ELSE 2 * f[n - 1]
           T == {m \in Nat : \E f : Doubles(f, m)}
<1>1. 0 \in T
  <2> DEFINE one == [n \in 0..0 |-> 1]
  <2>1. one \in [0..0 -> Nat \ {0}] /\ \A n \in 0..0 : n = 0 /\ one[n] = 1
    OBVIOUS
  <2> HIDE DEF one
  <2>2. Doubles(one, 0)
    BY <2>1
  <2> HIDE DEF Doubles
  <2>3. QED
    BY <2>2
<1>2. ASSUME NEW m \in Nat, m \in T
      PROVE  m + 1 \in T
  <2>1. PICK f : Doubles(f, m)
    BY <1>2
  <2> DEFINE g == [n \in 0..(m + 1) |-> IF n = m + 1 THEN 2 * f[m] ELSE f[n]]
  <2>2. g \in [0..(m + 1) -> Nat \ {0}]
    <3>1. f[m] \in Nat \ {0} /\ 2 * f[m] \in Nat \ {0}
      BY <2>1
    <3>2. QED
      BY <2>1, <3>1
  <2>3. ASSUME NEW n \in 0..(m + 1)
        PROVE  g[n] = IF n = 0 THEN 1 ELSE 2 * g[n - 1]
    <3>1. CASE n = m + 1
      BY <3>1
    <3>2. CASE n # m + 1
      <4>1. n \in 0..m /\ g[n] = f[n] /\ (n # 0 => n - 1 \in 0..m /\ g[n - 1] = f[n - 1])
        BY <3>2
      <4>2. QED
        BY <2>1, <4>1
    <3>3. QED
      BY <3>1, <3>2
  <2> HIDE DEF g
  <2>4. Doubles(g, m + 1)
    BY <2>2, <2>3
  <2> HIDE DEF Doubles
  <2>5. QED
    BY <2>4
<1> HIDE DEF T
<1>3. XLEN \in T
  BY <1>1, <1>2, Induction, XLENAssumption
<1>4. PICK f \in [0..XLEN -> Nat \ {0}] :
               \A n \in 0..XLEN : f[n] = IF n = 0 THEN 1 ELSE 2 * f[n - 1]
  BY <1>3 DEF T
<1>5. f = [n \in 0..XLEN |-> IF n = 0 THEN 1 ELSE 2 * f[n - 1]]
  BY <1>4
<1>6. QED
  BY <1>5

\* Pow2 is such a function.
LEMMA PowersAre ==
    /\ Pow2[0] = 1
    /\ \A n \in 0..(XLEN - 1) : Pow2[n + 1] = 2 * Pow2[n]
<1>1. Pow2 = [n \in 0..XLEN |-> IF n = 0 THEN 1 ELSE 2 * Pow2[n - 1]]
  BY PowersExist DEF Pow2
<1>2. \A n \in 0..XLEN : Pow2[n] = IF n = 0 THEN 1 ELSE 2 * Pow2[n - 1]
  BY <1>1
<1>3. 0 \in 0..XLEN /\ \A n \in 0..(XLEN - 1) : n + 1 \in 0..XLEN /\ n + 1 # 0 /\ (n + 1) - 1 = n
  BY XLENAssumption
<1>4. QED
  BY <1>1, <1>2, <1>3

\* Powers of two are positive.
LEMMA PowersPositive == \A n \in 0..XLEN : Pow2[n] \in Nat \ {0}
<1> DEFINE T == {n \in Nat : n <= XLEN => Pow2[n] \in Nat \ {0}}
<1>1. 0 \in T
  BY PowersAre
<1>2. ASSUME NEW n \in Nat, n \in T
      PROVE  n + 1 \in T
  <2> SUFFICES ASSUME n + 1 <= XLEN PROVE Pow2[n + 1] \in Nat \ {0}
    OBVIOUS
  <2>1. n \in 0..(XLEN - 1) /\ Pow2[n] \in Nat \ {0}
    BY <1>2, XLENAssumption
  <2>2. Pow2[n + 1] = 2 * Pow2[n]
    BY <2>1, PowersAre
  <2>3. QED
    BY <2>1, <2>2
<1> HIDE DEF T
<1>3. \A n \in Nat : n \in T
  BY <1>1, <1>2, Induction
<1>4. QED
  BY <1>3 DEF T

\* The power of a sum is the product of the powers.
LEMMA PowersAdd ==
    ASSUME NEW m \in Nat, NEW n \in Nat, m + n <= XLEN
    PROVE  Pow2[m + n] = Pow2[m] * Pow2[n]
<1> DEFINE T == {k \in Nat : m + k <= XLEN => Pow2[m + k] = Pow2[m] * Pow2[k]}
<1>1. 0 \in T
  <2> SUFFICES ASSUME m <= XLEN PROVE Pow2[m + 0] = Pow2[m] * Pow2[0]
    OBVIOUS
  <2>1. Pow2[m] \in Nat /\ Pow2[0] = 1 /\ m + 0 = m
    BY PowersPositive, PowersAre, XLENAssumption
  <2>2. QED
    BY <2>1
<1>2. ASSUME NEW k \in Nat, k \in T
      PROVE  k + 1 \in T
  <2> SUFFICES ASSUME m + (k + 1) <= XLEN PROVE Pow2[m + (k + 1)] = Pow2[m] * Pow2[k + 1]
    OBVIOUS
  <2>1. m + k \in 0..(XLEN - 1) /\ k \in 0..(XLEN - 1) /\ m \in 0..XLEN
        /\ m + (k + 1) = (m + k) + 1
    BY XLENAssumption
  <2>2. Pow2[(m + k) + 1] = 2 * Pow2[m + k] /\ Pow2[k + 1] = 2 * Pow2[k]
    BY <2>1, PowersAre
  <2>3. Pow2[m + k] = Pow2[m] * Pow2[k]
    BY <1>2, <2>1, XLENAssumption
  <2>4. Pow2[m] \in Nat /\ Pow2[k] \in Nat
    BY <2>1, PowersPositive, XLENAssumption
  <2>5. \A a, b \in Nat : 2 * (a * b) = a * (2 * b)
    OBVIOUS
  <2>6. QED
    BY <2>1, <2>2, <2>3, <2>4, <2>5
<1> HIDE DEF T
<1>3. \A k \in Nat : k \in T
  BY <1>1, <1>2, Induction
<1>4. QED
  BY <1>3 DEF T

\* A byte has two values at least, and a word is four bytes.
LEMMA Sizes ==
    /\ ByteSize \in Nat /\ ByteSize >= 2 /\ ByteSize % 2 = 0
    /\ Weight(0) = 1 /\ Weight(1) = ByteSize
    /\ Weight(2) = ByteSize * ByteSize
    /\ Weight(3) = ByteSize * (ByteSize * ByteSize)
    /\ Modulus = ByteSize * (ByteSize * (ByteSize * ByteSize))
    /\ Modulus \in Nat \ {0} /\ Modulus % 4 = 0
<1> DEFINE n == XLEN \div 4
<1>1. n \in Nat /\ n >= 1 /\ 4 * n = XLEN
  BY XLENAssumption
<1> HIDE DEF n
<1>2. /\ 0 * n = 0 /\ 1 * n = n /\ 2 * n = n + n /\ 3 * n = n + (n + n) /\ XLEN = n + (n + (n + n))
  BY <1>1
<1>3. Pow2[n + n] = Pow2[n] * Pow2[n]
  BY <1>1, PowersAdd
<1>4. Pow2[n + (n + n)] = Pow2[n] * Pow2[n + n]
  BY <1>1, PowersAdd
<1>5. Pow2[n + (n + (n + n))] = Pow2[n] * Pow2[n + (n + n)]
  BY <1>1, PowersAdd
<1>6. ByteSize = Pow2[n] /\ Modulus = Pow2[XLEN]
  BY DEF ByteSize, Modulus, n
<1>7. /\ Weight(0) = Pow2[0 * n] /\ Weight(1) = Pow2[1 * n]
      /\ Weight(2) = Pow2[2 * n] /\ Weight(3) = Pow2[3 * n]
  BY DEF Weight, n
<1>8. ByteSize \in Nat /\ ByteSize >= 2 /\ ByteSize % 2 = 0
  <2>1. n - 1 \in 0..(XLEN - 1) /\ n - 1 \in 0..XLEN /\ (n - 1) + 1 = n
    BY <1>1, XLENAssumption
  <2>2. Pow2[n] = 2 * Pow2[n - 1] /\ Pow2[n - 1] \in Nat \ {0}
    BY <2>1, PowersAre, PowersPositive
  <2>3. QED
    BY <1>6, <2>2
<1>9. Modulus \in Nat \ {0} /\ Modulus % 4 = 0
  <2>1. XLEN - 2 \in 0..XLEN /\ XLEN - 1 \in 0..(XLEN - 1) /\ XLEN - 2 \in 0..(XLEN - 1)
        /\ (XLEN - 1) + 1 = XLEN /\ (XLEN - 2) + 1 = XLEN - 1
    BY <1>1
  <2>2. Pow2[XLEN] = 2 * Pow2[XLEN - 1] /\ Pow2[XLEN - 1] = 2 * Pow2[XLEN - 2]
    BY <2>1, PowersAre
  <2>3. Pow2[XLEN - 2] \in Nat \ {0}
    BY <2>1, PowersPositive
  <2>4. QED
    BY <1>6, <2>2, <2>3
<1>10. QED
  BY <1>2, <1>3, <1>4, <1>5, <1>6, <1>7, <1>8, <1>9, PowersAre

-----------------------------------------------------------------------------
(* Bits.                                                                   *)

\* A bit is 0 or 1.
LEMMA BitType == \A a \in Nat : \A i \in 0..XLEN : Bit(a, i) \in 0..1
<1> SUFFICES ASSUME NEW a \in Nat, NEW i \in 0..XLEN PROVE Bit(a, i) \in 0..1
  OBVIOUS
<1>1. Pow2[i] \in Nat \ {0}
  BY PowersPositive
<1>2. a \div Pow2[i] \in Nat
  BY <1>1
<1>3. QED
  BY <1>2 DEF Bit

\* There is a function that adds up weighted bits.
LEMMA SumsExist ==
    ASSUME NEW bits \in [0..(XLEN - 1) -> 0..1]
    PROVE  \E f : /\ \A n \in 0..XLEN : f[n] \in 0..(Pow2[n] - 1)
                  /\ f = [n \in 0..XLEN |-> IF n = 0 THEN 0 ELSE f[n - 1] + Pow2[n - 1] * bits[n - 1]]
<1> DEFINE Adds(f, m) == /\ f \in [0..m -> Nat]
                         /\ \A n \in 0..m :
                              /\ f[n] \in 0..(Pow2[n] - 1)
                              /\ f[n] = IF n = 0 THEN 0 ELSE f[n - 1] + Pow2[n - 1] * bits[n - 1]
           T == {m \in Nat : m <= XLEN => \E f : Adds(f, m)}
<1> HIDE DEF Adds
<1>1. 0 \in T
  <2> DEFINE zero == [n \in 0..0 |-> 0]
  <2>1. zero \in [0..0 -> Nat] /\ \A n \in 0..0 : n = 0 /\ zero[n] = 0
    OBVIOUS
  <2> HIDE DEF zero
  <2>2. Adds(zero, 0)
    BY <2>1, PowersAre DEF Adds
  <2>3. QED
    BY <2>2
<1>2. ASSUME NEW m \in Nat, m \in T
      PROVE  m + 1 \in T
  <2> SUFFICES ASSUME m + 1 <= XLEN PROVE \E f : Adds(f, m + 1)
    OBVIOUS
  <2>1. PICK f : Adds(f, m)
    BY <1>2, XLENAssumption
  <2>2. m \in 0..(XLEN - 1) /\ m \in 0..XLEN /\ m + 1 \in 0..XLEN
    BY XLENAssumption
  <2> DEFINE next == f[m] + Pow2[m] * bits[m]
             g == [n \in 0..(m + 1) |-> IF n = m + 1 THEN next ELSE f[n]]
  <2>3. next \in 0..(Pow2[m + 1] - 1)
    <3>1. Pow2[m] \in Nat \ {0} /\ Pow2[m + 1] = 2 * Pow2[m] /\ bits[m] \in {0, 1}
      BY <2>2, PowersAre, PowersPositive
    <3>2. f[m] \in 0..(Pow2[m] - 1)
      BY <2>1 DEF Adds
    <3>3. Pow2[m] * bits[m] = IF bits[m] = 0 THEN 0 ELSE Pow2[m]
      BY <3>1
    <3>4. QED
      BY <3>1, <3>2, <3>3
  <2>4. Pow2[m + 1] \in Nat
    BY <2>2, PowersPositive
  <2> HIDE DEF next
  <2>5. g \in [0..(m + 1) -> Nat]
    BY <2>1, <2>3, <2>4 DEF Adds
  <2>6. ASSUME NEW n \in 0..(m + 1)
        PROVE  /\ g[n] \in 0..(Pow2[n] - 1)
               /\ g[n] = IF n = 0 THEN 0 ELSE g[n - 1] + Pow2[n - 1] * bits[n - 1]
    <3>1. CASE n = m + 1
      <4>1. g[n] = next /\ n # 0 /\ n - 1 = m /\ g[n - 1] = f[m]
        BY <3>1
      <4> HIDE DEF g
      <4>2. QED
        BY <2>3, <3>1, <4>1 DEF next
    <3>2. CASE n # m + 1
      <4>1. n \in 0..m /\ g[n] = f[n] /\ (n # 0 => g[n - 1] = f[n - 1])
        BY <3>2
      <4> HIDE DEF g
      <4>2. QED
        BY <2>1, <4>1 DEF Adds
    <3>3. QED
      BY <3>1, <3>2
  <2> HIDE DEF g
  <2>7. Adds(g, m + 1)
    BY <2>5, <2>6 DEF Adds
  <2>8. QED
    BY <2>7
<1> HIDE DEF T
<1>3. XLEN \in T
  BY <1>1, <1>2, Induction, XLENAssumption
<1>4. PICK f : Adds(f, XLEN)
  BY <1>3, XLENAssumption DEF T
<1>5. f = [n \in 0..XLEN |-> IF n = 0 THEN 0 ELSE f[n - 1] + Pow2[n - 1] * bits[n - 1]]
  BY <1>4 DEF Adds
<1>6. QED
  BY <1>4, <1>5 DEF Adds

\* Tables of bits.
Table == [0..1 -> [0..1 -> 0..1]]

\* A word made of bits is a word.
LEMMA BitwiseType ==
    ASSUME NEW table \in Table, NEW a \in AllWords, NEW b \in AllWords
    PROVE  Bitwise(table, a, b) \in AllWords
<1> DEFINE bits == [i \in 0..(XLEN - 1) |-> table[Bit(a, i)][Bit(b, i)]]
           IsLow(f) == f = [n \in 0..XLEN |->
                              IF n = 0 THEN 0
                              ELSE f[n - 1] + Pow2[n - 1] * table[Bit(a, n - 1)][Bit(b, n - 1)]]
           low == CHOOSE f : IsLow(f)
<1>1. bits \in [0..(XLEN - 1) -> 0..1]
  <2>1. a \in Nat /\ b \in Nat
    BY Sizes DEF AllWords
  <2>2. \A i \in 0..(XLEN - 1) : Bit(a, i) \in 0..1 /\ Bit(b, i) \in 0..1
    BY <2>1, BitType, XLENAssumption
  <2>3. QED
    BY <2>2 DEF Table
<1>2. PICK f : /\ \A n \in 0..XLEN : f[n] \in 0..(Pow2[n] - 1)
               /\ f = [n \in 0..XLEN |-> IF n = 0 THEN 0 ELSE f[n - 1] + Pow2[n - 1] * bits[n - 1]]
  BY <1>1, SumsExist
<1>3. \A n \in 0..XLEN : n # 0 => bits[n - 1] = table[Bit(a, n - 1)][Bit(b, n - 1)]
  BY XLENAssumption
<1> HIDE DEF bits
<1>4. IsLow(f)
  BY <1>2, <1>3
<1> HIDE DEF IsLow
<1>5. IsLow(low)
  BY <1>4
<1> HIDE DEF low
<1>6. \A n \in 0..XLEN : low[n] = f[n]
  <2> DEFINE T == {n \in Nat : n <= XLEN => low[n] = f[n]}
  <2>1. /\ low[0] = 0 /\ f[0] = 0
        /\ \A n \in 0..XLEN : n # 0 =>
             /\ low[n] = low[n - 1] + Pow2[n - 1] * table[Bit(a, n - 1)][Bit(b, n - 1)]
             /\ f[n] = f[n - 1] + Pow2[n - 1] * table[Bit(a, n - 1)][Bit(b, n - 1)]
    <3> DEFINE step(h, n) == IF n = 0 THEN 0
                             ELSE h[n - 1] + Pow2[n - 1] * table[Bit(a, n - 1)][Bit(b, n - 1)]
    <3>1. low = [n \in 0..XLEN |-> step(low, n)] /\ f = [n \in 0..XLEN |-> step(f, n)]
      BY <1>4, <1>5 DEF IsLow
    <3> HIDE DEF step
    <3>2. \A n \in 0..XLEN : low[n] = step(low, n) /\ f[n] = step(f, n)
      BY <3>1
    <3>3. 0 \in 0..XLEN
      BY XLENAssumption
    <3>4. QED
      BY <3>2, <3>3 DEF step
  <2>2. 0 \in T
    BY <2>1
  <2>3. ASSUME NEW n \in Nat, n \in T
        PROVE  n + 1 \in T
    BY <2>1, <2>3, XLENAssumption
  <2> HIDE DEF T
  <2>4. \A n \in Nat : n \in T
    BY <2>2, <2>3, Induction
  <2>5. QED
    BY <2>4 DEF T
<1>7. low[XLEN] \in 0..(Pow2[XLEN] - 1)
  BY <1>2, <1>6, XLENAssumption
<1>8. Bitwise(table, a, b) = low[XLEN]
  BY DEF Bitwise, low, IsLow
<1>9. QED
  BY <1>7, <1>8 DEF AllWords, Modulus

\* Bitwise operations on words give words.
LEMMA BitwiseTypes ==
    ASSUME NEW a \in AllWords, NEW b \in AllWords
    PROVE  And(a, b) \in AllWords /\ Or(a, b) \in AllWords /\ Xor(a, b) \in AllWords
           /\ Not(a) \in AllWords
<1>1. [x \in 0..1 |-> [y \in 0..1 |-> x * y]] \in Table
  <2>1. \A x, y \in 0..1 : x * y \in 0..1
    <3>1. \A y \in 0..1 : 0 * y = 0 /\ 1 * y = y
      OBVIOUS
    <3>2. 0..1 = {0, 1}
      OBVIOUS
    <3>3. QED
      BY <3>1, <3>2
  <2>2. QED
    BY <2>1 DEF Table
<1>2. [x \in 0..1 |-> [y \in 0..1 |-> x + y - x * y]] \in Table
  <2>1. \A x, y \in 0..1 : x + y - x * y \in 0..1
    <3>1. \A y \in 0..1 : 0 + y - 0 * y = y /\ 1 + y - 1 * y = 1
      OBVIOUS
    <3>2. 0..1 = {0, 1}
      OBVIOUS
    <3>3. QED
      BY <3>1, <3>2
  <2>2. QED
    BY <2>1 DEF Table
<1>3. [x \in 0..1 |-> [y \in 0..1 |-> (x + y) % 2]] \in Table
  BY DEF Table
<1>4. Not(a) \in AllWords
  BY Sizes DEF Not, AllWords
<1>5. QED
  BY <1>1, <1>2, <1>3, <1>4, BitwiseType DEF And, Or, Xor

-----------------------------------------------------------------------------
(* Bytes.                                                                  *)

\* Quotient and remainder are the only numbers that make the dividend.
LEMMA DivMod ==
    ASSUME NEW b \in Nat \ {0}, NEW q \in Int, NEW r \in 0..(b - 1)
    PROVE  (r + b * q) \div b = q /\ (r + b * q) % b = r
  OBVIOUS

\* Dividing twice is dividing by the product.
LEMMA DivTwice ==
    ASSUME NEW a \in Int, NEW b \in Nat \ {0}, NEW c \in Nat \ {0}
    PROVE  a \div (b * c) = (a \div b) \div c
  OBVIOUS

Lanes == [0..3 -> AllBytes]

\* The lanes of a word from number k on, as a number.
From(l, k) == CASE k = 3 -> l[3]
                [] k = 2 -> l[2] + ByteSize * l[3]
                [] k = 1 -> l[1] + ByteSize * (l[2] + ByteSize * l[3])
                [] k = 0 -> l[0] + ByteSize * (l[1] + ByteSize * (l[2] + ByteSize * l[3]))

\* A word is its first byte and what is left of it.
LEMMA JoinedFrom ==
    ASSUME NEW l \in Lanes
    PROVE  /\ \A k \in 0..3 : l[k] \in Nat /\ l[k] <= ByteSize - 1 /\ From(l, k) \in Nat
           /\ \A k \in 0..2 : From(l, k) = l[k] + ByteSize * From(l, k + 1)
           /\ From(l, 3) = l[3] /\ From(l, 3) <= ByteSize - 1
           /\ Joined(l) = From(l, 0)
           /\ Joined(l) <= Modulus - 1
<1> DEFINE B == ByteSize
<1>1. B \in Nat /\ B >= 2
  BY Sizes
<1>2. \A k \in 0..3 : l[k] \in Nat /\ l[k] <= B - 1
  BY <1>1 DEF Lanes, AllBytes
<1> HIDE DEF B
<1>3. \A x, y \in Nat : B * x \in Nat /\ y + B * x \in Nat
  BY <1>1
<1>4. From(l, 3) = l[3] /\ From(l, 2) = l[2] + B * From(l, 3)
      /\ From(l, 1) = l[1] + B * From(l, 2) /\ From(l, 0) = l[0] + B * From(l, 1)
  BY DEF From, B
<1>5. \A k \in 0..3 : From(l, k) \in Nat
  <2>1. l[0] \in Nat /\ l[1] \in Nat /\ l[2] \in Nat /\ l[3] \in Nat
    BY <1>2
  <2>2. From(l, 3) \in Nat
    BY <1>4, <2>1
  <2>3. l[2] + B * From(l, 3) \in Nat
    BY <1>3, <2>1, <2>2
  <2>4. From(l, 2) \in Nat
    BY <1>4, <2>3
  <2>5. l[1] + B * From(l, 2) \in Nat
    BY <1>3, <2>1, <2>4
  <2>6. From(l, 1) \in Nat
    BY <1>4, <2>5
  <2>7. l[0] + B * From(l, 1) \in Nat
    BY <1>3, <2>1, <2>6
  <2>8. From(l, 0) \in Nat
    BY <1>4, <2>7
  <2>9. \A k \in 0..3 : k = 0 \/ k = 1 \/ k = 2 \/ k = 3
    OBVIOUS
  <2>10. QED
    BY <2>2, <2>4, <2>6, <2>8, <2>9
<1>6. Joined(l) = From(l, 0)
  <2>1. Joined(l) = l[0] + B * l[1] + (B * B) * l[2] + (B * (B * B)) * l[3]
    BY Sizes DEF Joined, B
  <2>2. \A c, d \in Nat : B * (c + B * d) = B * c + (B * B) * d
    BY <1>1
  <2>3. l[2] \in Nat /\ l[3] \in Nat
    BY <1>2
  <2>4. \A d \in Nat : B * (B * d) = (B * B) * d /\ (B * B) * (B * d) = (B * (B * B)) * d
    BY <1>1
  <2>5. From(l, 0) = l[0] + (B * l[1] + (B * B) * From(l, 2))
    BY <1>2, <1>4, <1>5, <2>2
  <2>6. (B * B) * From(l, 2) = (B * B) * l[2] + (B * B) * (B * l[3])
    BY <1>1, <1>2, <1>3, <1>4, <1>5
  <2>7. (B * B) * (B * l[3]) = (B * (B * B)) * l[3]
    BY <1>2, <2>4
  <2>8. B * l[1] \in Nat /\ (B * B) * l[2] \in Nat /\ (B * (B * B)) * l[3] \in Nat
    BY <1>1, <1>2, <1>3
  <2>9. QED
    BY <1>2, <2>1, <2>5, <2>6, <2>7, <2>8
<1>7. Joined(l) <= Modulus - 1
  <2>1. \A x, y \in Nat : \A m \in Nat : y <= B - 1 /\ x <= m - 1 => y + B * x <= B * m - 1
    <3> SUFFICES ASSUME NEW x \in Nat, NEW y \in Nat, NEW m \in Nat, y <= B - 1, x <= m - 1
                 PROVE  y + B * x <= B * m - 1
      OBVIOUS
    <3>1. B * x <= B * (m - 1)
      BY <1>1
    <3>2. B * (m - 1) = B * m - B
      BY <1>1
    <3>3. B * x \in Nat /\ B * m \in Nat
      BY <1>1
    <3>4. QED
      BY <1>1, <3>1, <3>2, <3>3
  <2>2. B \in Nat /\ B * B \in Nat /\ B * (B * B) \in Nat
    BY <1>1
  <2>3. From(l, 3) <= B - 1
    BY <1>2, <1>4
  <2>4. From(l, 2) <= B * B - 1
    BY <1>2, <1>4, <1>5, <2>1, <2>2, <2>3
  <2>5. From(l, 1) <= B * (B * B) - 1
    <3>1. /\ l[1] \in Nat /\ l[1] <= B - 1 /\ From(l, 2) \in Nat
          /\ l[1] + B * From(l, 2) = From(l, 1)
      BY <1>2, <1>4, <1>5
    <3>2. l[1] + B * From(l, 2) <= B * (B * B) - 1
      BY <2>1, <2>2, <2>4, <3>1
    <3>3. QED
      BY <3>1, <3>2
  <2>6. From(l, 0) <= B * (B * (B * B)) - 1
    <3>1. /\ l[0] \in Nat /\ l[0] <= B - 1 /\ From(l, 1) \in Nat
          /\ l[0] + B * From(l, 1) = From(l, 0)
      BY <1>2, <1>4, <1>5
    <3>2. l[0] + B * From(l, 1) <= B * (B * (B * B)) - 1
      BY <2>1, <2>2, <2>5, <3>1
    <3>3. QED
      BY <3>1, <3>2
  <2>7. QED
    BY <1>6, <2>6, Sizes DEF B
<1>8. \A k \in 0..2 : From(l, k) = l[k] + B * From(l, k + 1)
  BY <1>4
<1>9. QED
  BY <1>2, <1>4, <1>5, <1>6, <1>7, <1>8 DEF B

\* What is left of a word after its first lanes.
LEMMA WordFrom ==
    ASSUME NEW l \in Lanes
    PROVE  /\ Joined(l) \in AllWords
           /\ \A k \in 0..3 : Joined(l) \div Weight(k) = From(l, k) /\ From(l, k) % ByteSize = l[k]
<1> DEFINE B == ByteSize
<1>1. B \in Nat \ {0} /\ B >= 2 /\ B * B \in Nat \ {0}
  BY Sizes
<1>2. /\ \A k \in 0..3 : l[k] \in Nat /\ l[k] <= B - 1 /\ From(l, k) \in Nat
      /\ From(l, 0) = l[0] + B * From(l, 1)
      /\ From(l, 1) = l[1] + B * From(l, 2)
      /\ From(l, 2) = l[2] + B * From(l, 3)
      /\ From(l, 3) = l[3] /\ Joined(l) = From(l, 0)
  BY JoinedFrom DEF B
<1>3. Joined(l) \in AllWords
  BY <1>2, JoinedFrom, Sizes DEF AllWords
<1> HIDE DEF B
<1> /\ l[0] \in 0..(B - 1) /\ l[1] \in 0..(B - 1) /\ l[2] \in 0..(B - 1) /\ l[3] \in 0..(B - 1)
    /\ From(l, 0) \in Nat /\ From(l, 1) \in Nat /\ From(l, 2) \in Nat /\ From(l, 3) \in Nat
  BY <1>1, <1>2
<1>4. From(l, 0) \div B = From(l, 1) /\ From(l, 0) % B = l[0]
  <2> DEFINE r == l[0]
             q == From(l, 1)
  <2>1. r \in 0..(B - 1) /\ q \in Int
    OBVIOUS
  <2> HIDE DEF r, q
  <2>2. (r + B * q) \div B = q /\ (r + B * q) % B = r
    BY <1>1, <2>1, DivMod
  <2>3. QED
    BY <1>2, <2>2 DEF r, q
<1>5. From(l, 1) \div B = From(l, 2) /\ From(l, 1) % B = l[1]
  <2> DEFINE r == l[1]
             q == From(l, 2)
  <2>1. r \in 0..(B - 1) /\ q \in Int
    OBVIOUS
  <2> HIDE DEF r, q
  <2>2. (r + B * q) \div B = q /\ (r + B * q) % B = r
    BY <1>1, <2>1, DivMod
  <2>3. QED
    BY <1>2, <2>2 DEF r, q
<1>6. From(l, 2) \div B = From(l, 3) /\ From(l, 2) % B = l[2]
  <2> DEFINE r == l[2]
             q == From(l, 3)
  <2>1. r \in 0..(B - 1) /\ q \in Int
    OBVIOUS
  <2> HIDE DEF r, q
  <2>2. (r + B * q) \div B = q /\ (r + B * q) % B = r
    BY <1>1, <2>1, DivMod
  <2>3. QED
    BY <1>2, <2>2 DEF r, q
<1>7. From(l, 3) % B = l[3] /\ From(l, 0) \div 1 = From(l, 0)
  <2>1. \A x \in 0..(B - 1) : x % B = x
    BY <1>1
  <2>2. QED
    BY <1>2, <2>1
<1>8. From(l, 0) \div (B * B) = From(l, 2)
  <2>1. From(l, 0) \div (B * B) = (From(l, 0) \div B) \div B
    BY <1>1, <1>2, DivTwice
  <2>2. QED
    BY <1>4, <1>5, <2>1
<1>9. From(l, 0) \div (B * (B * B)) = From(l, 3)
  <2>1. From(l, 0) \div (B * (B * B)) = (From(l, 0) \div B) \div (B * B)
    BY <1>1, <1>2, DivTwice
  <2>2. From(l, 1) \div (B * B) = (From(l, 1) \div B) \div B
    BY <1>1, <1>2, DivTwice
  <2>3. QED
    BY <1>4, <1>5, <1>6, <2>1, <2>2
<1>10. Weight(0) = 1 /\ Weight(1) = B /\ Weight(2) = B * B /\ Weight(3) = B * (B * B)
  BY Sizes DEF B
<1>11. \A k \in 0..3 : k = 0 \/ k = 1 \/ k = 2 \/ k = 3
  OBVIOUS
<1>12. QED
  BY <1>2, <1>3, <1>4, <1>5, <1>6, <1>7, <1>8, <1>9, <1>10, <1>11 DEF B

\* The bytes of a word made of bytes are those.
LEMMA SplitJoined ==
    ASSUME NEW l \in Lanes
    PROVE  Joined(l) \in AllWords /\ Split(Joined(l)) = l
<1>1. \A k \in 0..3 : (Joined(l) \div Weight(k)) % ByteSize = l[k]
  BY WordFrom
<1>2. QED
  BY <1>1, WordFrom DEF Split, Lanes

\* The word made of the bytes of a word is that word.
LEMMA JoinedSplit ==
    ASSUME NEW w \in AllWords
    PROVE  Split(w) \in Lanes /\ Joined(Split(w)) = w
<1> DEFINE B == ByteSize
           y1 == w \div B
           y2 == y1 \div B
           y3 == y2 \div B
<1>1. /\ B \in Nat \ {0} /\ B >= 2 /\ B * B \in Nat \ {0} /\ B * (B * B) \in Nat \ {0}
      /\ w \in Nat /\ w <= B * (B * (B * B)) - 1
      /\ Weight(0) = 1 /\ Weight(1) = B /\ Weight(2) = B * B /\ Weight(3) = B * (B * B)
  BY Sizes DEF AllWords
<1> HIDE DEF B
<1>2. y1 \in Nat /\ y2 \in Nat /\ y3 \in Nat
  BY <1>1
<1>3. w = (w % B) + B * y1 /\ y1 = (y1 % B) + B * y2 /\ y2 = (y2 % B) + B * y3
  BY <1>1, <1>2
<1>4. /\ w \div Weight(0) = w /\ w \div Weight(1) = y1
      /\ w \div Weight(2) = y2 /\ w \div Weight(3) = y3
  <2>1. w \div (B * B) = y2
    BY <1>1, DivTwice
  <2>2. w \div (B * (B * B)) = y1 \div (B * B)
    BY <1>1, DivTwice
  <2>3. y1 \div (B * B) = y3
    BY <1>1, <1>2, DivTwice
  <2>4. w \div 1 = w
    BY <1>1
  <2>5. QED
    BY <1>1, <2>1, <2>2, <2>3, <2>4
<1>5. y3 \in Nat /\ y3 <= B - 1
  <2>1. w \div (B * (B * B)) <= B - 1
    <3>1. \A m \in Nat \ {0} : w <= m * B - 1 => w \div m <= B - 1
      BY <1>1
    <3>2. B * (B * (B * B)) = (B * (B * B)) * B
      BY <1>1
    <3>3. QED
      BY <1>1, <3>1, <3>2
  <2>2. QED
    BY <1>1, <1>2, <1>4, <2>1
<1>6. y3 % B = y3
  BY <1>1, <1>5
<1> DEFINE l == Split(w)
<1>7. l[0] = w % B /\ l[1] = y1 % B /\ l[2] = y2 % B /\ l[3] = y3
  BY <1>4, <1>6 DEF Split, B
<1>8. l \in Lanes
  <2>1. \A x \in Nat : x % B \in 0..(B - 1)
    BY <1>1
  <2>2. /\ (w \div Weight(0)) % B \in 0..(B - 1) /\ (w \div Weight(1)) % B \in 0..(B - 1)
        /\ (w \div Weight(2)) % B \in 0..(B - 1) /\ (w \div Weight(3)) % B \in 0..(B - 1)
    BY <1>1, <1>2, <1>4, <2>1
  <2>3. \A k \in 0..3 : k = 0 \/ k = 1 \/ k = 2 \/ k = 3
    OBVIOUS
  <2>4. QED
    BY <2>2, <2>3 DEF Split, Lanes, AllBytes, B
<1>9. Joined(l) = From(l, 0)
  BY <1>8, JoinedFrom
<1>10. From(l, 0) = w
  BY <1>3, <1>7 DEF From, B
<1>11. QED
  BY <1>8, <1>9, <1>10

\* The first n bytes of l, extended to a word.
ExtendedLanes(l, n, signed) ==
    [k \in 0..3 |-> IF k < n THEN l[k]
                    ELSE IF signed /\ 2 * l[n - 1] >= ByteSize THEN ByteSize - 1 ELSE 0]

\* Extending a word is extending its bytes.
LEMMA ExtendedIs ==
    ASSUME NEW l \in Lanes, NEW n \in {1, 2}, NEW signed \in BOOLEAN
    PROVE  /\ ExtendedLanes(l, n, signed) \in Lanes
           /\ Extended(Joined(l), n, signed) = Joined(ExtendedLanes(l, n, signed))
<1> DEFINE B == ByteSize
           e == ExtendedLanes(l, n, signed)
           j == Joined(l)
<1>1. /\ B \in Nat \ {0} /\ B >= 2 /\ B % 2 = 0 /\ B * B \in Nat \ {0}
      /\ Weight(1) = B /\ Weight(2) = B * B
      /\ Weight(3) = B * (B * B) /\ Modulus = B * (B * (B * B))
  BY Sizes
<1>2. /\ l[0] \in 0..(B - 1) /\ l[1] \in 0..(B - 1) /\ l[2] \in 0..(B - 1) /\ l[3] \in 0..(B - 1)
  BY DEF Lanes, AllBytes
<1>3. e \in Lanes
  <2>1. l[n - 1] \in AllBytes /\ \A k \in 0..3 : l[k] \in AllBytes
    BY DEF Lanes
  <2>2. 0 \in AllBytes /\ B - 1 \in AllBytes
    BY <1>1 DEF AllBytes
  <2>3. QED
    BY <2>1, <2>2 DEF ExtendedLanes, Lanes
<1> SUFFICES Extended(j, n, signed) = Joined(e)
  BY <1>3
<1>4. /\ j \in Nat /\ j % B = l[0] /\ j = l[0] + B * From(l, 1)
      /\ From(l, 1) = l[1] + B * From(l, 2) /\ From(l, 1) \in Nat /\ From(l, 2) \in Nat
  BY JoinedFrom, WordFrom, Sizes DEF AllWords
<1>5. Joined(e) = e[0] + B * e[1] + (B * B) * e[2] + (B * (B * B)) * e[3]
  BY <1>1, Sizes DEF Joined
<1> HIDE DEF B, e, j
<1>6. CASE n = 1
  <2>1. j % B = l[0]
    BY <1>4
  <2>2. Extended(j, n, signed) = IF signed /\ 2 * l[0] >= B THEN l[0] + Modulus - B ELSE l[0]
    BY <1>1, <1>6, <2>1 DEF Extended
  <2>3. /\ e[0] = l[0]
        /\ e[1] = (IF signed /\ 2 * l[0] >= B THEN B - 1 ELSE 0) /\ e[2] = e[1] /\ e[3] = e[1]
    BY <1>6 DEF e, ExtendedLanes, B
  <2>4. CASE signed /\ 2 * l[0] >= B
    <3>1. Joined(e) = l[0] + B * (B - 1) + (B * B) * (B - 1) + (B * (B * B)) * (B - 1)
      BY <1>5, <2>3, <2>4
    <3>2. /\ B * (B - 1) = B * B - B /\ (B * B) * (B - 1) = B * (B * B) - B * B
          /\ (B * (B * B)) * (B - 1) = B * (B * (B * B)) - B * (B * B)
      BY <1>1
    <3>3. B * (B * B) \in Nat /\ B * (B * (B * B)) \in Nat
      BY <1>1
    <3>4. QED
      BY <1>1, <1>2, <2>2, <2>4, <3>1, <3>2, <3>3
  <2>5. CASE ~(signed /\ 2 * l[0] >= B)
    <3>1. Joined(e) = l[0] + B * 0 + (B * B) * 0 + (B * (B * B)) * 0
      BY <1>5, <2>3, <2>5
    <3>2. B * (B * B) \in Nat
      BY <1>1
    <3>3. Joined(e) = l[0]
      BY <1>1, <1>2, <3>1, <3>2
    <3>4. QED
      BY <2>2, <2>5, <3>3
  <2>6. QED
    BY <2>4, <2>5
<1>7. CASE n = 2
  <2> DEFINE low == l[0] + B * l[1]
  <2>1. low \in 0..(B * B - 1)
    <3>1. B * l[1] <= B * (B - 1) /\ B * (B - 1) = B * B - B /\ B * l[1] \in Nat
      BY <1>1, <1>2
    <3>2. QED
      BY <1>1, <1>2, <3>1
  <2>2. j = low + (B * B) * From(l, 2)
    <3>1. B * (l[1] + B * From(l, 2)) = B * l[1] + (B * B) * From(l, 2)
      <4>1. \A x, y \in Nat : B * (x + B * y) = B * x + (B * B) * y
        BY <1>1
      <4>2. l[1] \in Nat
        BY <1>2
      <4>3. QED
        BY <1>4, <4>1, <4>2
    <3>2. B * l[1] \in Nat /\ (B * B) * From(l, 2) \in Nat
      BY <1>1, <1>2, <1>4
    <3>3. QED
      BY <1>2, <1>4, <3>1, <3>2
  <2>3. 2 * low >= B * B <=> 2 * l[1] >= B
    <3>1. ASSUME 2 * l[1] >= B
          PROVE  2 * low >= B * B
      <4>1. B * (2 * l[1]) >= B * B /\ B * (2 * l[1]) = 2 * (B * l[1]) /\ B * l[1] \in Nat
        BY <1>1, <1>2, <3>1
      <4>2. QED
        BY <1>1, <1>2, <4>1
    <3>2. ASSUME ~(2 * l[1] >= B)
          PROVE  ~(2 * low >= B * B)
      <4>1. 2 * l[1] <= B - 2
        BY <1>1, <1>2, <3>2
      <4>2. B * (2 * l[1]) <= B * (B - 2) /\ B * (B - 2) = B * B - 2 * B
            /\ B * (2 * l[1]) = 2 * (B * l[1]) /\ B * l[1] \in Nat
        BY <1>1, <1>2, <4>1
      <4>3. QED
        BY <1>1, <1>2, <4>2
    <3>3. QED
      BY <3>1, <3>2
  <2>4. low + (B * B) - 0 \in Int /\ From(l, 2) \in Int
    BY <1>1, <1>4, <2>1
  <2>5. /\ e[0] = l[0] /\ e[1] = l[1]
        /\ e[2] = (IF signed /\ 2 * l[1] >= B THEN B - 1 ELSE 0) /\ e[3] = e[2]
    BY <1>7 DEF e, ExtendedLanes, B
  <2>6. B * l[1] \in Nat /\ B * (B * B) \in Nat /\ B * (B * (B * B)) \in Nat
    BY <1>1, <1>2
  <2>7. Joined(e) = IF signed /\ 2 * l[1] >= B THEN low + Modulus - B * B ELSE low
    <3>1. CASE signed /\ 2 * l[1] >= B
      <4>1. Joined(e) = l[0] + B * l[1] + (B * B) * (B - 1) + (B * (B * B)) * (B - 1)
        BY <1>5, <2>5, <3>1
      <4>2. /\ (B * B) * (B - 1) = B * (B * B) - B * B
            /\ (B * (B * B)) * (B - 1) = B * (B * (B * B)) - B * (B * B)
        BY <1>1
      <4>3. QED
        BY <1>1, <1>2, <2>6, <3>1, <4>1, <4>2
    <3>2. CASE ~(signed /\ 2 * l[1] >= B)
      <4>1. Joined(e) = l[0] + B * l[1] + (B * B) * 0 + (B * (B * B)) * 0
        BY <1>5, <2>5, <3>2
      <4>2. QED
        BY <1>1, <1>2, <2>6, <3>2, <4>1
    <3>3. QED
      BY <3>1, <3>2
  <2> HIDE DEF low
  <2>8. j % (B * B) = low
    <3> DEFINE m == B * B
               q == From(l, 2)
    <3>1. m \in Nat \ {0} /\ low \in 0..(m - 1) /\ q \in Int /\ j = low + m * q
      BY <1>1, <2>1, <2>2, <2>4
    <3> HIDE DEF m, q
    <3>2. (low + m * q) % m = low
      BY <3>1, DivMod
    <3>3. QED
      BY <3>1, <3>2 DEF m
  <2>9. Extended(j, n, signed) = IF signed /\ 2 * low >= B * B THEN low + Modulus - B * B ELSE low
    BY <1>1, <1>7, <2>8 DEF Extended
  <2>10. QED
    BY <2>3, <2>7, <2>9
<1>8. QED
  BY <1>6, <1>7

-----------------------------------------------------------------------------
(* Shifts.                                                                 *)

\* A shift to the right by s bits that keeps the sign: the quotient of the signed
\* value, as a word, is the quotient of the word with s ones in front if it is
\* negative.
LEMMA ShiftSigned ==
    ASSUME NEW u \in AllWords, NEW s \in 0..(XLEN - 1)
    PROVE  /\ (Signed(u) \div Pow2[s]) % Modulus \in AllWords
           /\ (Signed(u) \div Pow2[s]) % Modulus =
                IF s = 0 THEN u
                ELSE (u \div Pow2[s])
                     + IF u >= Pow2[XLEN - 1] THEN Modulus - Pow2[XLEN - s] ELSE 0
<1> DEFINE p == Pow2[s]
           q == Pow2[XLEN - s]
           m == Modulus
           h == Pow2[XLEN - 1]
<1>1. /\ p \in Nat \ {0} /\ q \in Nat \ {0} /\ m = p * q /\ m \in Nat \ {0} /\ h \in Nat \ {0}
      /\ u \in Nat /\ u <= m - 1 /\ m = 2 * h
  <2>1. s \in 0..XLEN /\ XLEN - s \in 0..XLEN /\ s + (XLEN - s) = XLEN /\ XLEN - 1 \in 0..(XLEN - 1)
        /\ (XLEN - 1) + 1 = XLEN /\ XLEN - 1 \in 0..XLEN
    BY XLENAssumption
  <2>2. Pow2[s + (XLEN - s)] = p * q
    BY <2>1, PowersAdd, XLENAssumption
  <2>3. QED
    BY <2>1, <2>2, PowersPositive, PowersAre, Sizes DEF AllWords, Modulus
<1>2. Signed(u) = IF u < h THEN u ELSE u - m
  BY DEF Signed
<1>3. s = 0 => p = 1
  BY PowersAre
<1>4. m \in Nat /\ AllWords = 0..(m - 1)
  BY <1>1 DEF AllWords
<1> HIDE DEF p, q, m, h
<1>5. u \div p \in Nat /\ u \div p <= u
  BY <1>1
<1>6. CASE u < h
  <2>1. (Signed(u) \div p) % m = u \div p
    <3>1. u \div p \in 0..(m - 1)
      BY <1>1, <1>5
    <3>2. (u \div p) % m = u \div p
      BY <1>1, <3>1
    <3>3. QED
      BY <1>2, <1>6, <3>2
  <2>2. s = 0 => u \div p = u
    BY <1>1, <1>3
  <2>3. u \div p \in 0..(m - 1) /\ ~(u >= h) /\ (u \div p) + 0 = u \div p
    BY <1>1, <1>5, <1>6
  <2>4. QED
    BY <1>4, <2>1, <2>2, <2>3 DEF p, q, m, h
<1>7. CASE ~(u < h)
  <2>1. (u - p * q) \div p = (u \div p) - q
    <3> DEFINE d == u \div p
               r == u % p
    <3>1. d \in Nat /\ r \in 0..(p - 1) /\ u = r + p * d
      BY <1>1
    <3>2. u - p * q = r + p * (d - q) /\ d - q \in Int
      BY <1>1, <3>1
    <3> HIDE DEF d, r
    <3>3. (r + p * (d - q)) \div p = d - q
      BY <1>1, <3>1, <3>2, DivMod
    <3>4. QED
      BY <3>2, <3>3 DEF d
  <2>2. u \div p <= q - 1
    <3>1. u <= p * q - 1
      BY <1>1
    <3>2. QED
      BY <1>1, <3>1
  <2>3. (u \div p) - q + m \in 0..(m - 1)
    <3>1. q <= m
      BY <1>1
    <3>2. QED
      BY <1>1, <1>5, <2>2, <3>1
  <2>4. ((u \div p) - q) % m = (u \div p) - q + m
    <3> DEFINE d == (u \div p) - q
    <3>1. d \in Int /\ d + m \in 0..(m - 1)
      BY <1>1, <1>5, <2>3
    <3> HIDE DEF d
    <3>2. d % m = d + m
      BY <1>1, <3>1
    <3>3. QED
      BY <3>2 DEF d
  <2>5. (Signed(u) \div p) % m = (u \div p) - q + m
    BY <1>1, <1>2, <1>7, <2>1, <2>4
  <2>6. s = 0 => (u \div p) - q + m = u
    <3>1. p = 1 => q = m /\ u \div p = u
      BY <1>1
    <3>2. QED
      BY <1>1, <1>3, <3>1
  <2>7. u >= h /\ (u \div p) + (m - q) = (u \div p) - q + m
    BY <1>1, <1>5, <1>7
  <2>8. QED
    BY <1>4, <2>3, <2>5, <2>6, <2>7 DEF p, q, m, h
<1>8. QED
  BY <1>6, <1>7
=============================================================================
