--------------------------- MODULE Encoding_proofs ---------------------------
(***************************************************************************)
(* Proofs about the instruction formats, for every immediate of 12 or 20   *)
(* bits, every register and every word of 32 bits.                         *)
(***************************************************************************)
EXTENDS Encoding, TLAPS

Words32 == SUBSET (0..31)

-----------------------------------------------------------------------------
(* Shifts and fields, bit by bit.                                          *)

\* Shifting left moves bit k of the result from bit 0 of the word, and what
\* leaves at the top is lost.
LEMMA ShlBits ==
    ASSUME NEW w \in SUBSET Nat, NEW k \in Nat
    PROVE  /\ Shl(w, k) \in Words32
           /\ \A i \in 0..31 : i \in Shl(w, k) <=> i - k \in w
<1>1. Shl(w, k) = {j + k : j \in {j \in w : j + k <= 31}}
  BY DEF Shl
<1>2. \A i \in Shl(w, k) : i \in 0..31
  BY <1>1
<1>3. ASSUME NEW i \in 0..31, i \in Shl(w, k)
      PROVE  i - k \in w
  <2>1. PICK j \in w : i = j + k
    BY <1>1, <1>3
  <2>2. j = i - k
    BY <2>1
  <2>3. QED
    BY <2>1, <2>2
<1>4. ASSUME NEW i \in 0..31, i - k \in w
      PROVE  i \in Shl(w, k)
  <2>1. i = (i - k) + k /\ (i - k) + k <= 31
    BY <1>4
  <2>2. QED
    BY <1>1, <1>4, <2>1
<1>5. QED
  BY <1>2, <1>3, <1>4 DEF Words32

\* A field of a word has the bits from..to of the word, moved to the bottom; the
\* wire of the RTL and take_bits_range of the golden model cut the same field.
LEMMA FieldBits ==
    ASSUME NEW w \in Words32, NEW from \in 0..31, NEW to \in 0..31
    PROVE  /\ Bits(w, from, to) \in Words32
           /\ \A i \in 0..31 : i \in Bits(w, from, to) <=> i + from \in w /\ i + from <= to
           /\ take_bits_range(w, from, to) = Bits(w, from, to)
<1>1. Bits(w, from, to) = {j - from : j \in w \cap (from..to)}
  BY DEF Bits
<1>2. \A i \in Bits(w, from, to) : i \in 0..31
  BY <1>1 DEF Words32
<1>3. ASSUME NEW i \in 0..31, i \in Bits(w, from, to)
      PROVE  i + from \in w /\ i + from <= to
  <2>1. PICK j \in w \cap (from..to) : i = j - from
    BY <1>1, <1>3
  <2>2. j = i + from
    BY <2>1
  <2>3. QED
    BY <2>1, <2>2
<1>4. ASSUME NEW i \in 0..31, i + from \in w, i + from <= to
      PROVE  i \in Bits(w, from, to)
  <2>1. i + from \in w \cap (from..to) /\ i = (i + from) - from
    BY <1>4
  <2>2. QED
    BY <1>1, <2>1
<1>5. take_bits_range(w, from, to) = Bits(w, from, to)
  <2>1. \A j \in w : j \in Int
    BY DEF Words32
  <2>2. \A j : j \in {j1 \in w : from <= j1 /\ j1 <= to} <=> j \in w \cap (from..to)
    BY <2>1
  <2>3. {j \in w : from <= j /\ j <= to} = w \cap (from..to)
    BY <2>2
  <2>4. QED
    BY <1>1, <2>3 DEF take_bits_range
<1>6. QED
  BY <1>2, <1>3, <1>4, <1>5 DEF Words32

\* A shift by nothing leaves a word as it is; sign extension fills with ones.
LEMMA ShlZero ==
    ASSUME NEW w \in Words32
    PROVE  Shl(w, 0) = w
<1>1. w \in SUBSET Nat /\ \A i \in w : i \in 0..31
  BY DEF Words32
<1>2. \A i \in 0..31 : i \in Shl(w, 0) <=> i \in w
  BY <1>1, ShlBits
<1>3. Shl(w, 0) \in Words32
  BY <1>1, ShlBits
<1>4. QED
  BY <1>1, <1>2, <1>3 DEF Words32

\* Ones shifted left are the ones from the shift on.
LEMMA ShlOnes ==
    ASSUME NEW k \in 0..31
    PROVE  Shl(0..31, k) = k..31
<1>1. 0..31 \in SUBSET Nat
  OBVIOUS
<1>2. Shl(0..31, k) \in Words32 /\ \A i \in 0..31 : i \in Shl(0..31, k) <=> i - k \in 0..31
  BY <1>1, ShlBits
<1>3. \A i \in 0..31 : i - k \in 0..31 <=> i \in k..31
  OBVIOUS
<1>4. \A i : i \in k..31 => i \in 0..31
  OBVIOUS
<1>5. QED
  BY <1>2, <1>3, <1>4 DEF Words32

\* The sign extension of the golden model is filling up with bit 31.
LEMMA SignBit ==
    ASSUME NEW w \in Words32, NEW k \in 0..31, NEW low
    PROVE  signed(w, k, low) = Fill(31 \in w, k) \cup low
<1>1. take_bit(w, 31) = Bits(w, 31, 31)
  <2>1. 31 \in 0..31
    OBVIOUS
  <2>2. take_bits_range(w, 31, 31) = Bits(w, 31, 31)
    BY <2>1, FieldBits
  <2>3. QED
    BY <2>2 DEF take_bit
<1>2. take_bit(w, 31) # {} <=> 31 \in w
  <2>1. /\ Bits(w, 31, 31) \in Words32
        /\ \A i \in 0..31 : i \in Bits(w, 31, 31) <=> i + 31 \in w /\ i + 31 <= 31
    <3>1. 31 \in 0..31
      OBVIOUS
    <3>2. QED
      BY <3>1, FieldBits
  <2>2. 31 \in w => 0 \in Bits(w, 31, 31)
    BY <2>1
  <2>3. \A i \in Bits(w, 31, 31) : i = 0 /\ 31 \in w
    BY <2>1 DEF Words32
  <2>4. QED
    BY <1>1, <2>2, <2>3
<1>3. Shl(0..31, k) = k..31
  BY ShlOnes
<1>4. QED
  BY <1>2, <1>3 DEF signed, Fill

\* Bits 12 to 31, cut out and put back, are those of the word.
LEMMA UpperField ==
    ASSUME NEW w \in Words32
    PROVE  Shl(Bits(w, 12, 31), 12) = w \cap (12..31)
<1>1. /\ Bits(w, 12, 31) \in Words32
      /\ \A i \in 0..31 : i \in Bits(w, 12, 31) <=> i + 12 \in w /\ i + 12 <= 31
  <2>1. 12 \in 0..31 /\ 31 \in 0..31
    OBVIOUS
  <2>2. QED
    BY <2>1, FieldBits
<1>2. Bits(w, 12, 31) \in SUBSET Nat
  BY <1>1 DEF Words32
<1>3. /\ Shl(Bits(w, 12, 31), 12) \in Words32
      /\ \A i \in 0..31 : i \in Shl(Bits(w, 12, 31), 12) <=> i - 12 \in Bits(w, 12, 31)
  BY <1>2, ShlBits
<1>4. ASSUME NEW i \in 0..31
      PROVE  i - 12 \in Bits(w, 12, 31) <=> i \in w \cap (12..31)
  <2>1. CASE i < 12
    BY <1>1, <2>1 DEF Words32
  <2>2. CASE i >= 12
    <3>1. i - 12 \in 0..31 /\ (i - 12) + 12 = i
      BY <2>2
    <3>2. QED
      BY <1>1, <2>2, <3>1
  <2>3. QED
    BY <2>1, <2>2
<1>5. QED
  BY <1>3, <1>4 DEF Words32

\* The two decoders agree on every word there is.
LEMMA SameDecoding ==
    ASSUME NEW w \in Words32
    PROVE  idu(w) = decode(w)
<1> DEFINE Field(from, to) == take_bits_range(w, from, to)
<1>1. \A from, to \in 0..31 : Field(from, to) = Bits(w, from, to) /\ Bits(w, from, to) \in Words32
  BY FieldBits
<1>2. \A from, to \in 0..31 : Shl(Field(from, to), 0) = Bits(w, from, to)
  BY <1>1, ShlZero
<1>3. \A from, to \in 0..31 : \A k : Shl(Field(from, to), k) = Shl(Bits(w, from, to), k)
  BY <1>1
<1>4. \A pos \in 0..31 : \A k : Shl(take_bit(w, pos), k) = BitOf(w, pos, k)
  BY <1>1 DEF take_bit, BitOf
<1>5. \A k \in 0..31 : \A low : signed(w, k, low) = Fill(31 \in w, k) \cup low
  BY SignBit
<1>6. Shl(Field(12, 31), 12) = w \cap (12..31)
  BY <1>3, UpperField
<1>7. signed(w, 12, Shl(Field(20, 31), 0)) = Fill(31 \in w, 12) \cup Bits(w, 20, 31)
  BY <1>2, <1>5
<1>8. signed(w, 12, Shl(Field(25, 31), 5) \cup Shl(Field(7, 11), 0))
        = Fill(31 \in w, 12) \cup Shl(Bits(w, 25, 31), 5) \cup Bits(w, 7, 11)
  <2>1. Shl(Field(25, 31), 5) = Shl(Bits(w, 25, 31), 5) /\ Shl(Field(7, 11), 0) = Bits(w, 7, 11)
    BY <1>2, <1>3
  <2>2. QED
    BY <1>5, <2>1
<1>9. signed(w, 20, Shl(Field(12, 19), 12) \cup Shl(take_bit(w, 20), 11) \cup Shl(Field(21, 30), 1))
        = idu_j_imm(w)
  <2>1. /\ Shl(Field(12, 19), 12) = Shl(Bits(w, 12, 19), 12)
        /\ Shl(take_bit(w, 20), 11) = BitOf(w, 20, 11)
        /\ Shl(Field(21, 30), 1) = Shl(Bits(w, 21, 30), 1)
    BY <1>3, <1>4
  <2>2. QED
    BY <1>5, <2>1 DEF idu_j_imm
<1>10. signed(w, 12, Shl(take_bit(w, 7), 11) \cup Shl(Field(25, 30), 5) \cup Shl(Field(8, 11), 1))
        = Fill(31 \in w, 12) \cup BitOf(w, 7, 11) \cup Shl(Bits(w, 25, 30), 5)
                       \cup Shl(Bits(w, 8, 11), 1)
  <2>1. /\ Shl(take_bit(w, 7), 11) = BitOf(w, 7, 11)
        /\ Shl(Field(25, 30), 5) = Shl(Bits(w, 25, 30), 5)
        /\ Shl(Field(8, 11), 1) = Shl(Bits(w, 8, 11), 1)
    BY <1>3, <1>4
  <2>2. QED
    BY <1>5, <2>1
<1>11. QED
  <2>1. /\ Shl(Field(0, 6), 0) = Bits(w, 0, 6) /\ Shl(Field(7, 11), 0) = Bits(w, 7, 11)
        /\ Shl(Field(12, 14), 0) = Bits(w, 12, 14) /\ Shl(Field(15, 19), 0) = Bits(w, 15, 19)
        /\ Shl(Field(20, 24), 0) = Bits(w, 20, 24)
    BY <1>2
  <2>2. QED
    BY <1>6, <1>7, <1>8, <1>9, <1>10, <2>1 DEF idu, decode

-----------------------------------------------------------------------------
(* The words of the formats, bit by bit.                                   *)

RegBits == SUBSET (0..4)

\* An opcode has seven bits.
LEMMA OpcodeBits == \A k \in Kinds : Opcode(k) \in SUBSET (0..6)
BY DEF Kinds, Opcode

\* Where i_type puts the bits of its arguments.
LEMMA ITypeBits ==
    ASSUME NEW im \in Words32, NEW r1 \in RegBits, NEW f3 \in Funct3, NEW r \in RegBits,
           NEW op \in SUBSET (0..6)
    PROVE  /\ i_type(im, r1, f3, r, op) \in Words32
           /\ \A i \in 0..31 : i \in i_type(im, r1, f3, r, op) <=>
                i - 20 \in im \/ i - 15 \in r1 \/ i - 12 \in f3 \/ i - 7 \in r \/ i \in op
<1>1. im \in SUBSET Nat /\ r1 \in SUBSET Nat /\ f3 \in SUBSET Nat /\ r \in SUBSET Nat
  BY DEF Words32, RegBits, Funct3
<1>2. /\ Shl(im, 20) \in Words32 /\ \A i \in 0..31 : i \in Shl(im, 20) <=> i - 20 \in im
      /\ Shl(r1, 15) \in Words32 /\ \A i \in 0..31 : i \in Shl(r1, 15) <=> i - 15 \in r1
      /\ Shl(f3, 12) \in Words32 /\ \A i \in 0..31 : i \in Shl(f3, 12) <=> i - 12 \in f3
      /\ Shl(r, 7) \in Words32 /\ \A i \in 0..31 : i \in Shl(r, 7) <=> i - 7 \in r
  BY <1>1, ShlBits
<1>3. i_type(im, r1, f3, r, op) = Shl(im, 20) \cup Shl(r1, 15) \cup Shl(f3, 12) \cup Shl(r, 7) \cup op
  BY DEF i_type
<1>4. op \in Words32
  BY DEF Words32
<1>5. i_type(im, r1, f3, r, op) \in Words32
  BY <1>2, <1>3, <1>4 DEF Words32
<1>6. QED
  BY <1>2, <1>3, <1>5

\* Where r_type puts the bits of its arguments.
LEMMA RTypeBits ==
    ASSUME NEW f7 \in SUBSET (0..6), NEW r2 \in RegBits, NEW r1 \in RegBits, NEW f3 \in Funct3,
           NEW r \in RegBits, NEW op \in SUBSET (0..6)
    PROVE  /\ r_type(f7, r2, r1, f3, r, op) \in Words32
           /\ \A i \in 0..31 : i \in r_type(f7, r2, r1, f3, r, op) <=>
                \/ i - 24 \in f7 \/ i - 20 \in r2 \/ i - 15 \in r1
                \/ i - 12 \in f3 \/ i - 7 \in r \/ i \in op
<1>1. /\ f7 \in SUBSET Nat /\ r2 \in SUBSET Nat /\ r1 \in SUBSET Nat
      /\ f3 \in SUBSET Nat /\ r \in SUBSET Nat
  BY DEF RegBits, Funct3
<1>2. /\ Shl(f7, 24) \in Words32 /\ \A i \in 0..31 : i \in Shl(f7, 24) <=> i - 24 \in f7
      /\ Shl(r2, 20) \in Words32 /\ \A i \in 0..31 : i \in Shl(r2, 20) <=> i - 20 \in r2
      /\ Shl(r1, 15) \in Words32 /\ \A i \in 0..31 : i \in Shl(r1, 15) <=> i - 15 \in r1
      /\ Shl(f3, 12) \in Words32 /\ \A i \in 0..31 : i \in Shl(f3, 12) <=> i - 12 \in f3
      /\ Shl(r, 7) \in Words32 /\ \A i \in 0..31 : i \in Shl(r, 7) <=> i - 7 \in r
  BY <1>1, ShlBits
<1>3. r_type(f7, r2, r1, f3, r, op) =
        Shl(f7, 24) \cup Shl(r2, 20) \cup Shl(r1, 15) \cup Shl(f3, 12) \cup Shl(r, 7) \cup op
  BY DEF r_type
<1>4. op \in Words32
  BY DEF Words32
<1>5. r_type(f7, r2, r1, f3, r, op) \in Words32
  BY <1>2, <1>3, <1>4 DEF Words32
<1>6. QED
  BY <1>2, <1>3, <1>5

\* Where s_type puts the bits of its arguments: the immediate in two pieces.
LEMMA STypeBits ==
    ASSUME NEW im \in Words32, NEW r2 \in RegBits, NEW r1 \in RegBits, NEW f3 \in Funct3,
           NEW op \in SUBSET (0..6)
    PROVE  /\ s_type(im, r2, r1, f3, op) \in Words32
           /\ \A i \in 0..31 : i \in s_type(im, r2, r1, f3, op) <=>
                \/ i >= 25 /\ i - 20 \in im
                \/ i <= 11 /\ i - 7 \in im
                \/ i - 20 \in r2 \/ i - 15 \in r1 \/ i - 12 \in f3 \/ i \in op
<1> DEFINE high == Bits(im, 5, 31)
           low  == Bits(im, 0, 4)
<1>1. /\ high \in Words32 /\ \A i \in 0..31 : i \in high <=> i + 5 \in im
      /\ low \in Words32 /\ \A i \in 0..31 : i \in low <=> i \in im /\ i <= 4
  <2>1. 0 \in 0..31 /\ 4 \in 0..31 /\ 5 \in 0..31 /\ 31 \in 0..31
    OBVIOUS
  <2>2. /\ high \in Words32 /\ \A i \in 0..31 : i \in high <=> i + 5 \in im /\ i + 5 <= 31
        /\ low \in Words32 /\ \A i \in 0..31 : i \in low <=> i + 0 \in im /\ i + 0 <= 4
    BY <2>1, FieldBits
  <2>3. \A i \in im : i <= 31
    BY DEF Words32
  <2>4. QED
    BY <2>2, <2>3
<1> HIDE DEF high, low
<1>2. /\ r2 \in SUBSET Nat /\ r1 \in SUBSET Nat /\ f3 \in SUBSET Nat
      /\ high \in SUBSET Nat /\ low \in SUBSET Nat
  BY <1>1 DEF RegBits, Funct3, Words32
<1>3. /\ Shl(high, 25) \in Words32 /\ \A i \in 0..31 : i \in Shl(high, 25) <=> i - 25 \in high
      /\ Shl(r2, 20) \in Words32 /\ \A i \in 0..31 : i \in Shl(r2, 20) <=> i - 20 \in r2
      /\ Shl(r1, 15) \in Words32 /\ \A i \in 0..31 : i \in Shl(r1, 15) <=> i - 15 \in r1
      /\ Shl(f3, 12) \in Words32 /\ \A i \in 0..31 : i \in Shl(f3, 12) <=> i - 12 \in f3
      /\ Shl(low, 7) \in Words32 /\ \A i \in 0..31 : i \in Shl(low, 7) <=> i - 7 \in low
  BY <1>2, ShlBits
<1>4. \A i \in 0..31 : i - 25 \in high <=> i >= 25 /\ i - 20 \in im
  <2>1. ASSUME NEW i \in 0..31, i >= 25
        PROVE  i - 25 \in high <=> i - 20 \in im
    <3>1. i - 25 \in 0..31 /\ (i - 25) + 5 = i - 20
      BY <2>1
    <3>2. QED
      BY <1>1, <3>1
  <2>2. \A i \in high : i >= 0
    BY <1>2
  <2>3. QED
    BY <2>1, <2>2
<1>5. \A i \in 0..31 : i - 7 \in low <=> i <= 11 /\ i - 7 \in im
  <2>1. ASSUME NEW i \in 0..31, i >= 7
        PROVE  i - 7 \in low <=> i <= 11 /\ i - 7 \in im
    <3>1. i - 7 \in 0..31 /\ (i - 7 <= 4 <=> i <= 11)
      BY <2>1
    <3>2. QED
      BY <1>1, <3>1
  <2>2. (\A i \in low : i >= 0) /\ (\A i \in im : i >= 0)
    BY <1>2 DEF Words32
  <2>3. QED
    BY <2>1, <2>2
<1>6. s_type(im, r2, r1, f3, op) =
        Shl(high, 25) \cup Shl(r2, 20) \cup Shl(r1, 15) \cup Shl(f3, 12) \cup Shl(low, 7) \cup op
  BY DEF s_type, high, low
<1>7. op \in Words32
  BY DEF Words32
<1>8. s_type(im, r2, r1, f3, op) \in Words32
  BY <1>3, <1>6, <1>7 DEF Words32
<1>9. QED
  BY <1>3, <1>4, <1>5, <1>6, <1>8

\* Where u_type puts the bits of its arguments.
LEMMA UTypeBits ==
    ASSUME NEW im \in Words32, NEW r \in RegBits, NEW op \in SUBSET (0..6)
    PROVE  /\ u_type(im, r, op) \in Words32
           /\ \A i \in 0..31 : i \in u_type(im, r, op) <=> i - 12 \in im \/ i - 7 \in r \/ i \in op
<1>1. im \in SUBSET Nat /\ r \in SUBSET Nat
  BY DEF RegBits, Words32
<1>2. /\ Shl(im, 12) \in Words32 /\ \A i \in 0..31 : i \in Shl(im, 12) <=> i - 12 \in im
      /\ Shl(r, 7) \in Words32 /\ \A i \in 0..31 : i \in Shl(r, 7) <=> i - 7 \in r
  BY <1>1, ShlBits
<1>3. u_type(im, r, op) = Shl(im, 12) \cup Shl(r, 7) \cup op
  BY DEF u_type
<1>4. op \in Words32
  BY DEF Words32
<1>5. u_type(im, r, op) \in Words32
  BY <1>2, <1>3, <1>4 DEF Words32
<1>6. QED
  BY <1>2, <1>3, <1>5

\* A field is known by its bits.
LEMMA FieldIs ==
    ASSUME NEW w \in Words32, NEW from \in 0..31, NEW to \in 0..31, NEW v \in Words32,
           \A i \in 0..31 : i \in v <=> i + from \in w /\ i + from <= to
    PROVE  Bits(w, from, to) = v
<1>1. /\ Bits(w, from, to) \in Words32
      /\ \A i \in 0..31 : i \in Bits(w, from, to) <=> i \in v
  BY FieldBits
<1>2. QED
  BY <1>1 DEF Words32

-----------------------------------------------------------------------------
(* What random_instruction makes.                                          *)

\* The word made of what was drawn, for what was drawn last.
Made == CASE kind = "OPCODE_SYSTEM" -> ebreak
          [] kind \in Upper -> u_type(imm, rd, Opcode(kind))
          [] kind \in Bit12Imms -> i_type(imm, rs1, funct3, rd, Opcode(kind))
          [] kind \in {"OPCODE_BRANCH", "OPCODE_STORE"} ->
                s_type(imm, rs2, rs1, funct3, Opcode(kind))
          [] kind = "OPCODE_CALC_REG" -> r_type(imm, rs2, rs1, funct3, rd, Opcode(kind))

\* Every word is the encoding of fields that fit their places.
Drawn == /\ kind \in Kinds
         /\ rs1 \in RegBits /\ rs2 \in RegBits /\ rd \in RegBits /\ funct3 \in Funct3
         /\ kind \in Upper => imm \in SUBSET (0..19)
         /\ kind \in Bit12Imms \cup {"OPCODE_BRANCH", "OPCODE_STORE"} => imm \in SUBSET (0..11)
         /\ kind = "OPCODE_CALC_REG" => imm = {} \/ imm = {6}
         /\ kind = "OPCODE_SYSTEM" => rs1 = {} /\ funct3 = {} /\ rd = {} /\ imm = {0}
         /\ inst = Made

\* What the actions may draw, by kind.
LEMMA Choices ==
    /\ Regs \subseteq RegBits /\ None \subseteq RegBits /\ None \subseteq Funct3
    /\ branch_types \subseteq Funct3 /\ load_types \subseteq Funct3 /\ store_types \subseteq Funct3
    /\ Imm12 \subseteq SUBSET (0..11) /\ Imm20 \subseteq SUBSET (0..19)
    /\ PreludeBases \subseteq SUBSET (0..19)
<1>1. {} \in Funct3 /\ {0} \in Funct3 /\ {1} \in Funct3 /\ {2} \in Funct3
      /\ {0, 2} \in Funct3 /\ {1, 2} \in Funct3
  BY DEF Funct3
<1>2. {11, 16, 17} \in SUBSET (0..19) /\ {12, 19} \in SUBSET (0..19) /\ {} \in SUBSET (0..4)
  OBVIOUS
<1>3. QED
  BY <1>1, <1>2, EncodingAssumption
  DEF RegBits, None, branch_types, load_types, store_types, PreludeBases

\* Drawn is an invariant.
LEMMA DrawnAlways == Spec => []Drawn
<1>1. Init => Drawn
  <2>1. {} \in RegBits /\ {} \in Funct3
    BY DEF RegBits, Funct3
  <2>2. QED
    BY <2>1 DEF Init, Drawn, Made, Kinds, Upper, Bit12Imms
<1>2. ASSUME NEW k \in Kinds, NEW imms, NEW rs1s \in SUBSET RegBits, NEW rs2s \in SUBSET RegBits,
             NEW funct3s \in SUBSET Funct3, NEW rds \in SUBSET RegBits,
             Draw(k, imms, rs1s, rs2s, funct3s, rds),
             k \in Upper => imms \subseteq SUBSET (0..19),
             k \in Bit12Imms \cup {"OPCODE_BRANCH", "OPCODE_STORE"} => imms \subseteq SUBSET (0..11),
             k = "OPCODE_CALC_REG" => imms \subseteq {{}, {6}},
             k = "OPCODE_SYSTEM" => /\ rs1s = None /\ funct3s = None /\ rds = None
                                    /\ imms = {{0}}
      PROVE  Drawn'
  <2>1. /\ kind' = k /\ imm' \in imms /\ rs1' \in RegBits /\ rs2' \in RegBits
        /\ funct3' \in Funct3 /\ rd' \in RegBits /\ inst' = Word
        /\ k = "OPCODE_SYSTEM" => rs1' = {} /\ funct3' = {} /\ rd' = {} /\ imm' = {0}
    BY <1>2 DEF Draw, None
  <2>2. Word = Made'
    BY <2>1 DEF Word, Made, b_type, Kinds, Upper, Bit12Imms
  <2>3. QED
    BY <1>2, <2>1, <2>2 DEF Drawn
<1>3. Drawn /\ [Next]_vars => Drawn'
  <2>1. CASE PreludeLui
    <3>1. Draw("OPCODE_LUI", PreludeBases, None, None, None, Regs \ None)
      BY <2>1 DEF PreludeLui
    <3>2. Regs \ None \in SUBSET RegBits /\ None \in SUBSET RegBits /\ None \in SUBSET Funct3
      BY Choices
    <3>3. PreludeBases \subseteq SUBSET (0..19)
      BY Choices
    <3>4. QED
      BY <1>2, <3>1, <3>2, <3>3 DEF Kinds, Upper, Bit12Imms
  <2>2. CASE PreludeAddi
    <3>1. Draw("OPCODE_CALC_IMM", Imm12, Regs \ None, None, None, Regs \ None)
      BY <2>2 DEF PreludeAddi
    <3>2. Regs \ None \in SUBSET RegBits /\ None \in SUBSET RegBits /\ None \in SUBSET Funct3
      BY Choices
    <3>3. Imm12 \subseteq SUBSET (0..11)
      BY Choices
    <3>4. QED
      BY <1>2, <3>1, <3>2, <3>3 DEF Kinds, Upper, Bit12Imms
  <2>3. CASE Lui
    BY <1>2, <2>3, Choices DEF Lui, Kinds, Upper, Bit12Imms
  <2>4. CASE Auipc
    BY <1>2, <2>4, Choices DEF Auipc, Kinds, Upper, Bit12Imms
  <2>5. CASE Jal
    BY <1>2, <2>5, Choices DEF Jal, Kinds, Upper, Bit12Imms
  <2>6. CASE Jalr
    BY <1>2, <2>6, Choices DEF Jalr, Kinds, Upper, Bit12Imms
  <2>7. CASE Branch
    BY <1>2, <2>7, Choices DEF Branch, Kinds, Upper, Bit12Imms
  <2>8. CASE Load
    BY <1>2, <2>8, Choices DEF Load, Kinds, Upper, Bit12Imms
  <2>9. CASE Store
    BY <1>2, <2>9, Choices DEF Store, Kinds, Upper, Bit12Imms
  <2>10. CASE CalcImm
    BY <1>2, <2>10, Choices DEF CalcImm, Kinds, Upper, Bit12Imms
  <2>11. CASE CalcReg
    BY <1>2, <2>11, Choices DEF CalcReg, Kinds, Upper, Bit12Imms
  <2>12. CASE System
    BY <1>2, <2>12, Choices DEF System, Kinds, Upper, Bit12Imms
  <2>13. CASE UNCHANGED vars
    BY <2>13 DEF vars, Drawn, Made
  <2>14. QED
    BY <2>1, <2>2, <2>3, <2>4, <2>5, <2>6, <2>7, <2>8, <2>9, <2>10, <2>11, <2>12, <2>13
    DEF Next
<1>4. QED
  BY <1>1, <1>3, PTL DEF Spec

\* The bits of the words, by kind.
LEMMA DrawnBits ==
    ASSUME Drawn
    PROVE  /\ inst \in Words32 /\ Opcode(kind) \in SUBSET (0..6)
           /\ kind \in Upper => \A i \in 0..31 : i \in inst <=>
                i - 12 \in imm \/ i - 7 \in rd \/ i \in Opcode(kind)
           /\ kind \in Bit12Imms => \A i \in 0..31 : i \in inst <=>
                \/ i - 20 \in imm \/ i - 15 \in rs1 \/ i - 12 \in funct3
                \/ i - 7 \in rd \/ i \in Opcode(kind)
           /\ kind \in {"OPCODE_BRANCH", "OPCODE_STORE"} => \A i \in 0..31 : i \in inst <=>
                \/ i >= 25 /\ i - 20 \in imm
                \/ i <= 11 /\ i - 7 \in imm
                \/ i - 20 \in rs2 \/ i - 15 \in rs1 \/ i - 12 \in funct3 \/ i \in Opcode(kind)
           /\ kind = "OPCODE_CALC_REG" => \A i \in 0..31 : i \in inst <=>
                \/ i = 30 /\ imm # {}
                \/ i - 20 \in rs2 \/ i - 15 \in rs1 \/ i - 12 \in funct3
                \/ i - 7 \in rd \/ i \in Opcode(kind)
           /\ kind = "OPCODE_SYSTEM" => \A i \in 0..31 : i \in inst <=> i = 20 \/ i \in Opcode(kind)
<1> USE DEF Drawn
<1>1. Opcode(kind) \in SUBSET (0..6)
  BY OpcodeBits
<1>2. CASE kind \in Upper
  <2>1. imm \in Words32 /\ inst = u_type(imm, rd, Opcode(kind))
    <3>1. imm \in Words32
      BY <1>2 DEF Words32
    <3>2. inst = u_type(imm, rd, Opcode(kind))
      BY <1>2 DEF Made, Upper, Bit12Imms
    <3>3. QED
      BY <3>1, <3>2
  <2>2. QED
    BY <1>1, <1>2, <2>1, UTypeBits DEF Upper, Bit12Imms
<1>3. CASE kind \in Bit12Imms
  <2>1. imm \in Words32 /\ inst = i_type(imm, rs1, funct3, rd, Opcode(kind))
    BY <1>3 DEF Words32, Made, Upper, Bit12Imms
  <2>2. QED
    BY <1>1, <1>3, <2>1, ITypeBits DEF Upper, Bit12Imms
<1>4. CASE kind \in {"OPCODE_BRANCH", "OPCODE_STORE"}
  <2>1. imm \in Words32 /\ inst = s_type(imm, rs2, rs1, funct3, Opcode(kind))
    BY <1>4 DEF Words32, Made, Upper, Bit12Imms
  <2>2. QED
    BY <1>1, <1>4, <2>1, STypeBits DEF Upper, Bit12Imms
<1>5. CASE kind = "OPCODE_CALC_REG"
  <2>1. imm \in SUBSET (0..6) /\ inst = r_type(imm, rs2, rs1, funct3, rd, Opcode(kind))
    BY <1>5 DEF Made, Upper, Bit12Imms
  <2>2. \A i \in 0..31 : i - 24 \in imm <=> i = 30 /\ imm # {}
    BY <1>5
  <2>3. QED
    BY <1>1, <1>5, <2>1, <2>2, RTypeBits DEF Upper, Bit12Imms
<1>6. CASE kind = "OPCODE_SYSTEM"
  <2>1. inst = Shl({0}, 20) \cup Opcode(kind)
    <3>1. inst = ebreak
      BY <1>6 DEF Made, Upper, Bit12Imms
    <3>2. QED
      BY <1>6, <3>1 DEF ebreak
  <2>2. /\ Shl({0}, 20) \in Words32
        /\ \A i \in 0..31 : i \in Shl({0}, 20) <=> i - 20 \in {0}
    <3>1. {0} \in SUBSET Nat
      OBVIOUS
    <3>2. QED
      BY <3>1, ShlBits
  <2>3. inst \in Words32
    BY <1>1, <2>1, <2>2 DEF Words32
  <2>4. QED
    BY <1>1, <1>6, <2>1, <2>2, <2>3 DEF Upper, Bit12Imms
<1>7. QED
  BY <1>2, <1>3, <1>4, <1>5, <1>6 DEF Kinds, Upper, Bit12Imms

\* The decoder of the CPU and that of the golden model find the same fields in
\* every word the tests contain.
THEOREM DecodersAlwaysAgree == Spec => []DecodersAgree
<1>1. Drawn => DecodersAgree
  BY DrawnBits, SameDecoding DEF DecodersAgree
<1>2. QED
  BY <1>1, DrawnAlways, PTL

-----------------------------------------------------------------------------
(* The fields of the words are what was drawn.                             *)

\* What the fields of a word are, given what they should be.
LEMMA RegFields ==
    ASSUME Drawn
    PROVE  /\ Bits(inst, 0, 6) = Opcode(kind)
           /\ kind \notin {"OPCODE_BRANCH", "OPCODE_STORE"} => Bits(inst, 7, 11) = rd
           /\ kind \notin Upper => Bits(inst, 12, 14) = funct3 /\ Bits(inst, 15, 19) = rs1
           /\ kind \in {"OPCODE_BRANCH", "OPCODE_STORE", "OPCODE_CALC_REG"} => Bits(inst, 20, 24) = rs2
<1>1. /\ inst \in Words32
      /\ Opcode(kind) \in Words32 /\ rd \in Words32 /\ funct3 \in Words32
      /\ rs1 \in Words32 /\ rs2 \in Words32
  BY DrawnBits DEF Drawn, Words32, RegBits, Funct3
<1>2. /\ \A i \in Opcode(kind) : i \in 0..6
      /\ \A i \in rd : i \in 0..4
      /\ \A i \in rs1 : i \in 0..4
      /\ \A i \in rs2 : i \in 0..4
      /\ \A i \in funct3 : i \in 0..2
  BY DrawnBits DEF Drawn, RegBits, Funct3
<1>3. /\ kind \in Upper => \A i \in imm : i \in 0..19
      /\ kind \in Bit12Imms \cup {"OPCODE_BRANCH", "OPCODE_STORE"} => \A i \in imm : i \in 0..11
  BY DEF Drawn
<1>4. kind \in Kinds
  BY DEF Drawn
<1>5. kind = "OPCODE_SYSTEM" => rs1 = {} /\ funct3 = {} /\ rd = {}
  BY DEF Drawn
<1>6. \A i \in 0..31 : i \in Opcode(kind) <=> i + 0 \in inst /\ i + 0 <= 6
  BY <1>2, <1>3, <1>4, <1>5, DrawnBits DEF Kinds, Upper, Bit12Imms
<1>7. ASSUME kind \notin {"OPCODE_BRANCH", "OPCODE_STORE"}
      PROVE  \A i \in 0..31 : i \in rd <=> i + 7 \in inst /\ i + 7 <= 11
  BY <1>2, <1>3, <1>4, <1>5, <1>7, DrawnBits DEF Kinds, Upper, Bit12Imms
<1>8. ASSUME kind \notin Upper
      PROVE  /\ \A i \in 0..31 : i \in funct3 <=> i + 12 \in inst /\ i + 12 <= 14
             /\ \A i \in 0..31 : i \in rs1 <=> i + 15 \in inst /\ i + 15 <= 19
  BY <1>2, <1>3, <1>4, <1>5, <1>8, DrawnBits DEF Kinds, Upper, Bit12Imms
<1>9. ASSUME kind \in {"OPCODE_BRANCH", "OPCODE_STORE", "OPCODE_CALC_REG"}
      PROVE  \A i \in 0..31 : i \in rs2 <=> i + 20 \in inst /\ i + 20 <= 24
  BY <1>2, <1>3, <1>4, <1>9, DrawnBits DEF Kinds, Upper, Bit12Imms
<1>10. \A j \in {0, 6, 7, 11, 12, 14, 15, 19, 20, 24} : j \in 0..31
  OBVIOUS
<1>11. Bits(inst, 0, 6) = Opcode(kind)
  BY <1>1, <1>6, <1>10, FieldIs
<1>12. kind \notin {"OPCODE_BRANCH", "OPCODE_STORE"} => Bits(inst, 7, 11) = rd
  BY <1>1, <1>7, <1>10, FieldIs
<1>13. kind \notin Upper => Bits(inst, 12, 14) = funct3 /\ Bits(inst, 15, 19) = rs1
  BY <1>1, <1>8, <1>10, FieldIs
<1>14. kind \in {"OPCODE_BRANCH", "OPCODE_STORE", "OPCODE_CALC_REG"} => Bits(inst, 20, 24) = rs2
  BY <1>1, <1>9, <1>10, FieldIs
<1>15. QED
  BY <1>11, <1>12, <1>13, <1>14

\* The immediates come back: sign-extended, or shifted for the upper ones.
LEMMA I_imm ==
    ASSUME Drawn, kind \in Bit12Imms
    PROVE  Bits(inst, 20, 31) = imm /\ (31 \in inst <=> 11 \in imm)
<1>1. /\ inst \in Words32 /\ imm \in Words32 /\ \A i \in imm : i \in 0..11
      /\ Opcode(kind) \in SUBSET (0..6) /\ rd \in SUBSET (0..4) /\ rs1 \in SUBSET (0..4)
      /\ funct3 \in SUBSET (0..2)
  BY DrawnBits DEF Drawn, Words32, RegBits, Funct3
<1>2. \A i \in 0..31 : i \in inst <=> \/ i - 20 \in imm \/ i - 15 \in rs1 \/ i - 12 \in funct3
                                      \/ i - 7 \in rd \/ i \in Opcode(kind)
  BY DrawnBits
<1>3. \A i \in 0..31 : i \in imm <=> i + 20 \in inst /\ i + 20 <= 31
  BY <1>1, <1>2
<1>4. 20 \in 0..31 /\ 31 \in 0..31 /\ 11 \in 0..31
  OBVIOUS
<1>5. Bits(inst, 20, 31) = imm
  BY <1>1, <1>3, <1>4, FieldIs
<1>6. 31 \in inst <=> 11 \in imm
  BY <1>3, <1>4
<1>7. QED
  BY <1>5, <1>6

\* The bits a store-like word has of its immediate.
LEMMA S_bits ==
    ASSUME Drawn, kind \in {"OPCODE_BRANCH", "OPCODE_STORE"}
    PROVE  /\ \A i \in 0..31 : i \in imm /\ 5 <= i <=> i + 20 \in inst /\ 25 <= i + 20 /\ i + 20 <= 31
           /\ \A i \in 0..31 : i \in imm /\ i <= 4 <=> i + 7 \in inst /\ i + 7 <= 11
           /\ 31 \in inst <=> 11 \in imm
           /\ 7 \in inst <=> 0 \in imm
<1>1. /\ inst \in Words32 /\ imm \in Words32 /\ \A i \in imm : i \in 0..11
      /\ Opcode(kind) \in SUBSET (0..6) /\ rs2 \in SUBSET (0..4) /\ rs1 \in SUBSET (0..4)
      /\ funct3 \in SUBSET (0..2)
  BY DrawnBits DEF Drawn, Words32, RegBits, Funct3
<1>2. \A i \in 0..31 : i \in inst <=>
                \/ i >= 25 /\ i - 20 \in imm
                \/ i <= 11 /\ i - 7 \in imm
                \/ i - 20 \in rs2 \/ i - 15 \in rs1 \/ i - 12 \in funct3 \/ i \in Opcode(kind)
  BY DrawnBits
<1>3. \A i \in 0..31 : i \in imm /\ 5 <= i <=> i + 20 \in inst /\ 25 <= i + 20 /\ i + 20 <= 31
  BY <1>1, <1>2
<1>4. \A i \in 0..31 : i \in imm /\ i <= 4 <=> i + 7 \in inst /\ i + 7 <= 11
  BY <1>1, <1>2
<1>5. 31 \in inst <=> 11 \in imm
  <2>1. 11 \in 0..31 /\ 11 + 20 = 31
    OBVIOUS
  <2>2. QED
    BY <1>3, <2>1
<1>6. 7 \in inst <=> 0 \in imm
  <2>1. 0 \in 0..31 /\ 0 + 7 = 7
    OBVIOUS
  <2>2. QED
    BY <1>4, <2>1
<1>7. QED
  BY <1>3, <1>4, <1>5, <1>6

\* A field put where it was taken from, or elsewhere: bits from..to of w, at
\* place k.
LEMMA MovedBits ==
    ASSUME NEW w \in Words32, NEW from \in 0..31, NEW to \in 0..31, NEW k \in 0..31
    PROVE  /\ Shl(Bits(w, from, to), k) \in Words32
           /\ \A i \in 0..31 : i \in Shl(Bits(w, from, to), k) <=>
                i >= k /\ (i - k) + from \in w /\ (i - k) + from <= to
<1>1. /\ Bits(w, from, to) \in Words32 /\ Bits(w, from, to) \in SUBSET Nat
      /\ \A i \in 0..31 : i \in Bits(w, from, to) <=> i + from \in w /\ i + from <= to
  <2>1. /\ Bits(w, from, to) \in Words32
        /\ \A i \in 0..31 : i \in Bits(w, from, to) <=> i + from \in w /\ i + from <= to
    BY FieldBits
  <2>2. QED
    BY <2>1 DEF Words32
<1>2. /\ Shl(Bits(w, from, to), k) \in Words32
      /\ \A i \in 0..31 : i \in Shl(Bits(w, from, to), k) <=> i - k \in Bits(w, from, to)
  BY <1>1, ShlBits
<1>3. ASSUME NEW i \in 0..31
      PROVE  i - k \in Bits(w, from, to) <=>
               i >= k /\ (i - k) + from \in w /\ (i - k) + from <= to
  <2>1. CASE i >= k
    <3>1. i - k \in 0..31
      BY <2>1
    <3>2. QED
      BY <1>1, <2>1, <3>1
  <2>2. CASE i < k
    BY <1>1, <2>2
  <2>3. QED
    BY <2>1, <2>2
<1>4. QED
  BY <1>2, <1>3

\* The two pieces of a store's immediate, gathered, are the immediate.
LEMMA S_imm ==
    ASSUME Drawn, kind \in {"OPCODE_BRANCH", "OPCODE_STORE"}
    PROVE  Fill(31 \in inst, 12) \cup Shl(Bits(inst, 25, 31), 5) \cup Bits(inst, 7, 11) = SignExtended
<1>1. inst \in Words32 /\ imm \in Words32 /\ \A i \in imm : i \in 0..11
  BY DrawnBits DEF Drawn, Words32
<1>2. \A j \in {5, 7, 11, 25, 31} : j \in 0..31
  OBVIOUS
<1>3. /\ Shl(Bits(inst, 25, 31), 5) \in Words32
      /\ \A i \in 0..31 : i \in Shl(Bits(inst, 25, 31), 5) <=>
           i >= 5 /\ (i - 5) + 25 \in inst /\ (i - 5) + 25 <= 31
  BY <1>1, <1>2, MovedBits
<1>4. /\ Bits(inst, 7, 11) \in Words32
      /\ \A i \in 0..31 : i \in Bits(inst, 7, 11) <=> i + 7 \in inst /\ i + 7 <= 11
  BY <1>1, <1>2, FieldBits
<1>5. \A i \in 0..31 : i \in Shl(Bits(inst, 25, 31), 5) <=> i \in imm /\ 5 <= i
  <2>1. \A i \in 0..31 : (i - 5) + 25 = i + 20 /\ (25 <= i + 20 <=> i >= 5)
    OBVIOUS
  <2>2. QED
    BY <1>3, <2>1, S_bits
<1>6. \A i \in 0..31 : i \in Bits(inst, 7, 11) <=> i \in imm /\ i <= 4
  BY <1>4, S_bits
<1>7. Shl(Bits(inst, 25, 31), 5) \cup Bits(inst, 7, 11) = imm
  <2>1. \A i \in 0..31 : i \in Shl(Bits(inst, 25, 31), 5) \cup Bits(inst, 7, 11) <=> i \in imm
    BY <1>5, <1>6
  <2>2. QED
    BY <1>1, <1>3, <1>4, <2>1 DEF Words32
<1>8. Fill(31 \in inst, 12) = Fill(11 \in imm, 12)
  BY S_bits DEF Fill
<1>9. QED
  BY <1>7, <1>8 DEF SignExtended

\* The four pieces of a branch's offset, gathered, are the offset.
LEMMA B_imm ==
    ASSUME Drawn, kind = "OPCODE_BRANCH", imm \cap {0, 11} = {}
    PROVE  Fill(31 \in inst, 12) \cup BitOf(inst, 7, 11) \cup Shl(Bits(inst, 25, 30), 5)
               \cup Shl(Bits(inst, 8, 11), 1) = imm
<1>1. inst \in Words32 /\ imm \in Words32 /\ \A i \in imm : i \in 1..10
  BY DrawnBits DEF Drawn, Words32
<1>2. /\ 1 \in 0..31 /\ 5 \in 0..31 /\ 7 \in 0..31 /\ 8 \in 0..31
      /\ 11 \in 0..31 /\ 25 \in 0..31 /\ 30 \in 0..31
  OBVIOUS
<1>2a. \A from, to, k \in 0..31 :
         /\ Shl(Bits(inst, from, to), k) \in Words32
         /\ \A i \in 0..31 : i \in Shl(Bits(inst, from, to), k) <=>
              i >= k /\ (i - k) + from \in inst /\ (i - k) + from <= to
  BY <1>1, MovedBits
<1>3. /\ Shl(Bits(inst, 25, 30), 5) \in Words32
      /\ \A i \in 0..31 : i \in Shl(Bits(inst, 25, 30), 5) <=>
           i >= 5 /\ (i - 5) + 25 \in inst /\ (i - 5) + 25 <= 30
  BY <1>2, <1>2a
<1>4. /\ Shl(Bits(inst, 8, 11), 1) \in Words32
      /\ \A i \in 0..31 : i \in Shl(Bits(inst, 8, 11), 1) <=>
           i >= 1 /\ (i - 1) + 8 \in inst /\ (i - 1) + 8 <= 11
  BY <1>2, <1>2a
<1>5. BitOf(inst, 7, 11) = {}
  <2>1. /\ BitOf(inst, 7, 11) \in Words32
        /\ \A i \in 0..31 : i \in BitOf(inst, 7, 11) <=>
             i >= 11 /\ (i - 11) + 7 \in inst /\ (i - 11) + 7 <= 7
    BY <1>2, <1>2a DEF BitOf
  <2>2. 7 \notin inst
    BY S_bits
  <2>3. \A i \in 0..31 : i >= 11 /\ (i - 11) + 7 <= 7 => (i - 11) + 7 = 7
    OBVIOUS
  <2>4. QED
    BY <2>1, <2>2, <2>3 DEF Words32
<1>6. Fill(31 \in inst, 12) = {}
  BY S_bits DEF Fill
<1>7. \A i \in 0..31 : i \in Shl(Bits(inst, 25, 30), 5) <=> i \in imm /\ 5 <= i
  <2>1. \A i \in 0..31 : (i - 5) + 25 = i + 20 /\ (25 <= i + 20 <=> i >= 5)
    OBVIOUS
  <2>2. QED
    BY <1>1, <1>3, <2>1, S_bits
<1>8. \A i \in 0..31 : i \in Shl(Bits(inst, 8, 11), 1) <=> i \in imm /\ i <= 4
  <2>1. \A i \in 0..31 : (i - 1) + 8 = i + 7
    OBVIOUS
  <2>2. QED
    BY <1>1, <1>4, <2>1, S_bits
<1>9. Shl(Bits(inst, 25, 30), 5) \cup Shl(Bits(inst, 8, 11), 1) = imm
  <2>1. \A i \in 0..31 : i \in Shl(Bits(inst, 25, 30), 5) \cup Shl(Bits(inst, 8, 11), 1) <=> i \in imm
    BY <1>7, <1>8
  <2>2. QED
    BY <1>1, <1>3, <1>4, <2>1 DEF Words32
<1>10. QED
  BY <1>5, <1>6, <1>9

\* The upper twenty bits of a lui or auipc are its immediate.
LEMMA U_imm ==
    ASSUME Drawn, kind \in Upper
    PROVE  inst \cap (12..31) = Shl(imm, 12)
<1>1. /\ inst \in Words32 /\ imm \in SUBSET Nat
      /\ Opcode(kind) \in SUBSET (0..6) /\ rd \in SUBSET (0..4)
  BY DrawnBits DEF Drawn, RegBits
<1>2. \A i \in 0..31 : i \in inst <=> i - 12 \in imm \/ i - 7 \in rd \/ i \in Opcode(kind)
  BY DrawnBits
<1>3. Shl(imm, 12) \in Words32 /\ \A i \in 0..31 : i \in Shl(imm, 12) <=> i - 12 \in imm
  BY <1>1, ShlBits
<1>4. \A i \in 0..31 : i \in inst /\ i \in 12..31 <=> i - 12 \in imm
  BY <1>1, <1>2
<1>5. QED
  BY <1>1, <1>3, <1>4 DEF Words32

\* The IDU finds in every word what the encoder was given.
THEOREM AlwaysDecodedAsAsked == Spec => []DecodedAsAsked
<1>1. ASSUME Drawn
      PROVE  DecodedAsAsked
  <2>1. kind = "OPCODE_CALC_REG" => (idu_sub(inst) <=> imm # {})
    <3>1. ASSUME kind = "OPCODE_CALC_REG"
          PROVE  30 \in inst <=> imm # {}
      <4>1. /\ Opcode(kind) \in SUBSET (0..6) /\ rs2 \in SUBSET (0..4) /\ rs1 \in SUBSET (0..4)
            /\ funct3 \in SUBSET (0..2) /\ rd \in SUBSET (0..4)
        BY <1>1, DrawnBits DEF Drawn, RegBits, Funct3
      <4>2. /\ 30 \in 0..31
            /\ ~(30 - 20 \in 0..4) /\ ~(30 - 15 \in 0..4) /\ ~(30 - 12 \in 0..2)
            /\ ~(30 - 7 \in 0..4) /\ ~(30 \in 0..6)
        OBVIOUS
      <4>3. 30 \in inst <=> \/ 30 = 30 /\ imm # {}
                            \/ 30 - 20 \in rs2 \/ 30 - 15 \in rs1 \/ 30 - 12 \in funct3
                            \/ 30 - 7 \in rd \/ 30 \in Opcode(kind)
        BY <1>1, <3>1, <4>2, DrawnBits
      <4>4. QED
        BY <4>1, <4>2, <4>3
    <3>2. QED
      BY <3>1 DEF idu_sub
  <2>2. kind \in Bit12Imms => Fill(31 \in inst, 12) \cup Bits(inst, 20, 31) = SignExtended
    BY <1>1, I_imm DEF SignExtended, Fill
  <2>3. /\ Bits(inst, 0, 6) = Opcode(kind)
        /\ kind \notin {"OPCODE_BRANCH", "OPCODE_STORE"} => Bits(inst, 7, 11) = rd
        /\ kind \notin Upper => Bits(inst, 12, 14) = funct3 /\ Bits(inst, 15, 19) = rs1
        /\ kind \in {"OPCODE_BRANCH", "OPCODE_STORE", "OPCODE_CALC_REG"} => Bits(inst, 20, 24) = rs2
    BY <1>1, RegFields
  <2>4. kind = "OPCODE_STORE" =>
          Fill(31 \in inst, 12) \cup Shl(Bits(inst, 25, 31), 5) \cup Bits(inst, 7, 11) = SignExtended
    BY <1>1, S_imm
  <2>5. kind \in Upper \ {"OPCODE_JAL"} => inst \cap (12..31) = Shl(imm, 12)
    BY <1>1, U_imm
  <2>6. kind = "OPCODE_BRANCH" /\ imm \cap {0, 11} = {} =>
          Fill(31 \in inst, 12) \cup BitOf(inst, 7, 11) \cup Shl(Bits(inst, 25, 30), 5)
              \cup Shl(Bits(inst, 8, 11), 1) = imm
    BY <1>1, B_imm
  <2>7. QED
    BY <2>1, <2>2, <2>3, <2>4, <2>5, <2>6, Zenon DEF DecodedAsAsked, idu
<1>2. QED
  BY <1>1, DrawnAlways, PTL
-----------------------------------------------------------------------------
(* The listing, read back.                                                 *)

\* An opcode is told from the others by bits 2 to 6.
LEMMA OpcodesDiffer == \A k, l \in Kinds : Opcode(k) = Opcode(l) => k = l
<1>1. \A k \in Kinds : 2 \in Opcode(k) <=>
        k \in {"OPCODE_LUI", "OPCODE_AUIPC", "OPCODE_JAL", "OPCODE_JALR"}
  BY DEF Kinds, Opcode
<1>2. \A k \in Kinds : 3 \in Opcode(k) <=> k = "OPCODE_JAL"
  BY DEF Kinds, Opcode
<1>3. \A k \in Kinds : 4 \in Opcode(k) <=>
        k \in {"OPCODE_LUI", "OPCODE_AUIPC", "OPCODE_CALC_IMM", "OPCODE_CALC_REG", "OPCODE_SYSTEM"}
  BY DEF Kinds, Opcode
<1>4. \A k \in Kinds : 5 \in Opcode(k) <=>
        k \in {"OPCODE_LUI", "OPCODE_JAL", "OPCODE_JALR", "OPCODE_BRANCH", "OPCODE_STORE",
               "OPCODE_CALC_REG", "OPCODE_SYSTEM"}
  BY DEF Kinds, Opcode
<1>5. \A k \in Kinds : 6 \in Opcode(k) <=>
        k \in {"OPCODE_JAL", "OPCODE_JALR", "OPCODE_BRANCH", "OPCODE_SYSTEM"}
  BY DEF Kinds, Opcode
<1>6. QED
  BY <1>1, <1>2, <1>3, <1>4, <1>5 DEF Kinds

\* The opcode that is decoded tells the kind that was drawn.
LEMMA Kind ==
    ASSUME Drawn
    PROVE  (CHOOSE k \in Kinds : Opcode(k) = decode(inst).opcode) = kind
<1>1. decode(inst).opcode = Opcode(kind)
  <2>1. idu(inst).opcode = Bits(inst, 0, 6)
    BY DEF idu
  <2>2. QED
    BY <2>1, DrawnBits, SameDecoding, RegFields
<1>2. kind \in Kinds
  BY DEF Drawn
<1>3. QED
  BY <1>1, <1>2, OpcodesDiffer

\* funct7 of a register instruction shows bit 30 only.
LEMMA Funct7Bits ==
    ASSUME Drawn
    PROVE  /\ funct7(inst) = {5} => 30 \in inst
           /\ kind = "OPCODE_CALC_REG" => (funct7(inst) = {} <=> imm = {})
<1>1. /\ funct7(inst) \in Words32
      /\ \A i \in 0..31 : i \in funct7(inst) <=> i + 25 \in inst /\ i + 25 <= 31
  <2>1. inst \in Words32 /\ 25 \in 0..31 /\ 31 \in 0..31
    BY DrawnBits
  <2>2. funct7(inst) = Bits(inst, 25, 31)
    BY <2>1, FieldBits DEF funct7
  <2>3. \A from, to \in 0..31 :
          /\ Bits(inst, from, to) \in Words32
          /\ \A i \in 0..31 : i \in Bits(inst, from, to) <=> i + from \in inst /\ i + from <= to
    BY <2>1, FieldBits
  <2>4. QED
    BY <2>1, <2>2, <2>3
<1>2. funct7(inst) = {5} => 30 \in inst
  <2>1. 5 \in 0..31 /\ 5 + 25 = 30
    OBVIOUS
  <2>2. QED
    BY <1>1, <2>1
<1>3. ASSUME kind = "OPCODE_CALC_REG"
      PROVE  funct7(inst) = {} <=> imm = {}
  <2>1. /\ Opcode(kind) \in SUBSET (0..6) /\ rs2 \in SUBSET (0..4) /\ rs1 \in SUBSET (0..4)
        /\ funct3 \in SUBSET (0..2) /\ rd \in SUBSET (0..4)
    BY DrawnBits DEF Drawn, RegBits, Funct3
  <2>2. \A i \in 0..31 : i >= 25 => (i \in inst <=> i = 30 /\ imm # {})
    BY <1>3, <2>1, DrawnBits
  <2>3. \A i \in 0..31 : i \in funct7(inst) <=> i = 5 /\ imm # {}
    BY <1>1, <2>2
  <2>4. QED
    BY <1>1, <2>3 DEF Words32
<1>4. QED
  BY <1>2, <1>3

\* What the listing of the word shows.
LEMMA Listed ==
    ASSUME Drawn
    PROVE  /\ print_instruction(inst).kind = kind
           /\ kind \notin Upper => /\ print_instruction(inst).funct3 = funct3
                                   /\ print_instruction(inst).rs1 = rs1
           /\ kind \in {"OPCODE_BRANCH", "OPCODE_STORE", "OPCODE_CALC_REG"} =>
                print_instruction(inst).rs2 = rs2
           /\ kind \notin {"OPCODE_BRANCH", "OPCODE_STORE", "OPCODE_JAL"} =>
                print_instruction(inst).rd = rd
           /\ print_instruction(inst).alt = listed_alt(kind, inst)
           /\ kind = "OPCODE_LUI" => print_instruction(inst).imm = imm
           /\ kind = "OPCODE_BRANCH" /\ imm \cap {0, 11} = {} => print_instruction(inst).imm = imm
           /\ kind \in Bit12Imms \cup {"OPCODE_STORE"} => print_instruction(inst).imm = SignExtended
<1> DEFINE d == decode(inst)
<1>1. /\ Bits(inst, 0, 6) = Opcode(kind)
      /\ kind \notin {"OPCODE_BRANCH", "OPCODE_STORE"} => Bits(inst, 7, 11) = rd
      /\ kind \notin Upper => Bits(inst, 12, 14) = funct3 /\ Bits(inst, 15, 19) = rs1
      /\ kind \in {"OPCODE_BRANCH", "OPCODE_STORE", "OPCODE_CALC_REG"} => Bits(inst, 20, 24) = rs2
  BY RegFields
<1>2. /\ d.rd = Bits(inst, 7, 11) /\ d.funct3 = Bits(inst, 12, 14)
      /\ d.rs1 = Bits(inst, 15, 19) /\ d.rs2 = Bits(inst, 20, 24)
      /\ d.u_imm = inst \cap (12..31)
      /\ d.i_imm = Fill(31 \in inst, 12) \cup Bits(inst, 20, 31)
      /\ d.s_imm = Fill(31 \in inst, 12) \cup Shl(Bits(inst, 25, 31), 5) \cup Bits(inst, 7, 11)
      /\ d.b_imm = Fill(31 \in inst, 12) \cup BitOf(inst, 7, 11) \cup Shl(Bits(inst, 25, 30), 5)
                       \cup Shl(Bits(inst, 8, 11), 1)
  <2>1. d = idu(inst)
    BY DrawnBits, SameDecoding
  <2>2. /\ idu(inst).rd = Bits(inst, 7, 11) /\ idu(inst).funct3 = Bits(inst, 12, 14)
        /\ idu(inst).rs1 = Bits(inst, 15, 19) /\ idu(inst).rs2 = Bits(inst, 20, 24)
        /\ idu(inst).u_imm = inst \cap (12..31)
        /\ idu(inst).i_imm = Fill(31 \in inst, 12) \cup Bits(inst, 20, 31)
        /\ idu(inst).s_imm =
             Fill(31 \in inst, 12) \cup Shl(Bits(inst, 25, 31), 5) \cup Bits(inst, 7, 11)
        /\ idu(inst).b_imm =
             Fill(31 \in inst, 12) \cup BitOf(inst, 7, 11) \cup Shl(Bits(inst, 25, 30), 5)
                 \cup Shl(Bits(inst, 8, 11), 1)
    BY Zenon DEF idu
  <2> HIDE DEF d
  <2>3. QED
    BY <2>1, <2>2, Zenon
<1>3. kind = "OPCODE_LUI" => Bits(d.u_imm, 12, 31) = imm
  <2>1. ASSUME kind = "OPCODE_LUI"
        PROVE  Bits(inst \cap (12..31), 12, 31) = imm
    <3>1. imm \in SUBSET (0..19) /\ inst \in Words32
      BY <2>1, DrawnBits DEF Drawn, Upper
    <3>2. inst \cap (12..31) = Shl(imm, 12)
      BY <2>1, U_imm DEF Upper
    <3>3. imm \in Words32 /\ imm \in SUBSET Nat
      BY <3>1 DEF Words32
    <3>4. Shl(imm, 12) \in Words32 /\ \A i \in 0..31 : i \in Shl(imm, 12) <=> i - 12 \in imm
      BY <3>3, ShlBits
    <3>5. \A i \in 0..31 : i \in imm <=> i + 12 \in Shl(imm, 12) /\ i + 12 <= 31
      BY <3>1, <3>4
    <3>6. 12 \in 0..31 /\ 31 \in 0..31
      OBVIOUS
    <3>7. QED
      BY <3>2, <3>3, <3>4, <3>5, <3>6, FieldIs
  <2>2. QED
    BY <1>2, <2>1
<1>4. kind \in Bit12Imms => d.i_imm = SignExtended
  BY <1>2, I_imm DEF SignExtended, Fill
<1>5. kind = "OPCODE_STORE" => d.s_imm = SignExtended
  BY <1>2, S_imm
<1>6. kind = "OPCODE_BRANCH" /\ imm \cap {0, 11} = {} => d.b_imm = imm
  BY <1>2, B_imm
<1> DEFINE k == CHOOSE k \in Kinds : Opcode(k) = d.opcode
<1>7. /\ print_instruction(inst).kind = k
      /\ print_instruction(inst).funct3 = d.funct3
      /\ print_instruction(inst).rs1 = d.rs1
      /\ print_instruction(inst).rs2 = d.rs2
      /\ print_instruction(inst).rd = IF k = "OPCODE_JAL" THEN d.rs1 ELSE d.rd
      /\ print_instruction(inst).alt = listed_alt(k, inst)
      /\ print_instruction(inst).imm =
            CASE k = "OPCODE_LUI"    -> Bits(d.u_imm, 12, 31)
              [] k = "OPCODE_AUIPC"  -> d.u_imm
              [] k = "OPCODE_JAL"    -> d.j_imm
              [] k = "OPCODE_BRANCH" -> d.b_imm
              [] k = "OPCODE_STORE"  -> d.s_imm
              [] OTHER               -> d.i_imm
  BY Zenon DEF print_instruction
<1>8. k = kind
  BY Kind
<1> HIDE DEF d, k
<1>9. /\ print_instruction(inst).kind = kind
      /\ print_instruction(inst).funct3 = d.funct3
      /\ print_instruction(inst).rs1 = d.rs1
      /\ print_instruction(inst).rs2 = d.rs2
      /\ print_instruction(inst).rd = IF kind = "OPCODE_JAL" THEN d.rs1 ELSE d.rd
      /\ print_instruction(inst).alt = listed_alt(kind, inst)
  BY <1>7, <1>8, Zenon
<1>10. /\ kind = "OPCODE_LUI" => print_instruction(inst).imm = imm
       /\ kind = "OPCODE_BRANCH" /\ imm \cap {0, 11} = {} => print_instruction(inst).imm = imm
       /\ kind \in Bit12Imms \cup {"OPCODE_STORE"} => print_instruction(inst).imm = SignExtended
  BY <1>3, <1>4, <1>5, <1>6, <1>7, <1>8 DEF Bit12Imms
<1>11. /\ kind \notin Upper => d.funct3 = funct3 /\ d.rs1 = rs1
       /\ kind \in {"OPCODE_BRANCH", "OPCODE_STORE", "OPCODE_CALC_REG"} => d.rs2 = rs2
       /\ kind \notin {"OPCODE_BRANCH", "OPCODE_STORE"} => d.rd = rd
  BY <1>1, <1>2
<1>12. QED
  <2>1. kind \notin {"OPCODE_BRANCH", "OPCODE_STORE", "OPCODE_JAL"} =>
          print_instruction(inst).rd = rd
    BY <1>9, <1>11
  <2>2. QED
    BY <1>9, <1>10, <1>11, <2>1, Zenon
\* The sign bits of a listed immediate fall out of the word again.
LEMMA SignFallsOut ==
    ASSUME NEW im \in SUBSET (0..11), NEW op \in SUBSET (0..6), NEW r \in RegBits,
           NEW r1 \in RegBits, NEW r2 \in RegBits, NEW f3 \in Funct3, NEW neg \in BOOLEAN
    PROVE  /\ i_type(im \cup Fill(neg, 12), r1, f3, r, op) = i_type(im, r1, f3, r, op)
           /\ s_type(im \cup Fill(neg, 12), r2, r1, f3, op) = s_type(im, r2, r1, f3, op)
<1> DEFINE signed_im == im \cup Fill(neg, 12)
<1>1. signed_im \in Words32 /\ im \in Words32 /\ \A i \in 0..11 : i \in signed_im <=> i \in im
  <2>1. Fill(neg, 12) \in Words32 /\ \A i \in 0..11 : i \notin Fill(neg, 12)
    BY DEF Fill, Words32
  <2>2. im \in Words32
    BY DEF Words32
  <2>3. signed_im \in Words32
    BY <2>1, <2>2 DEF Words32
  <2>4. \A i \in 0..11 : i \in signed_im <=> i \in im
    BY <2>1
  <2>5. QED
    BY <2>2, <2>3, <2>4
<1> HIDE DEF signed_im
<1>2. i_type(signed_im, r1, f3, r, op) = i_type(im, r1, f3, r, op)
  <2>1. /\ i_type(signed_im, r1, f3, r, op) \in Words32
        /\ \A i \in 0..31 : i \in i_type(signed_im, r1, f3, r, op) <=>
             i - 20 \in signed_im \/ i - 15 \in r1 \/ i - 12 \in f3 \/ i - 7 \in r \/ i \in op
    BY <1>1, ITypeBits
  <2>2. /\ i_type(im, r1, f3, r, op) \in Words32
        /\ \A i \in 0..31 : i \in i_type(im, r1, f3, r, op) <=>
             i - 20 \in im \/ i - 15 \in r1 \/ i - 12 \in f3 \/ i - 7 \in r \/ i \in op
    BY <1>1, ITypeBits
  <2>3. \A i \in 0..31 : i - 20 \in signed_im <=> i - 20 \in im
    BY <1>1 DEF Words32
  <2>4. QED
    BY <2>1, <2>2, <2>3 DEF Words32
<1>3. s_type(signed_im, r2, r1, f3, op) = s_type(im, r2, r1, f3, op)
  <2>1. /\ s_type(signed_im, r2, r1, f3, op) \in Words32
        /\ \A i \in 0..31 : i \in s_type(signed_im, r2, r1, f3, op) <=>
             \/ i >= 25 /\ i - 20 \in signed_im
             \/ i <= 11 /\ i - 7 \in signed_im
             \/ i - 20 \in r2 \/ i - 15 \in r1 \/ i - 12 \in f3 \/ i \in op
    BY <1>1, STypeBits
  <2>2. /\ s_type(im, r2, r1, f3, op) \in Words32
        /\ \A i \in 0..31 : i \in s_type(im, r2, r1, f3, op) <=>
             \/ i >= 25 /\ i - 20 \in im
             \/ i <= 11 /\ i - 7 \in im
             \/ i - 20 \in r2 \/ i - 15 \in r1 \/ i - 12 \in f3 \/ i \in op
    BY <1>1, STypeBits
  <2>3. \A i \in 0..31 : /\ i >= 25 => (i - 20 \in signed_im <=> i - 20 \in im)
                         /\ i <= 11 => (i - 7 \in signed_im <=> i - 7 \in im)
    BY <1>1 DEF Words32
  <2>4. QED
    BY <2>1, <2>2, <2>3 DEF Words32
<1>4. QED
  BY <1>2, <1>3 DEF signed_im

\* A register instruction read back is the same but for a bit 30 the listing
\* has no mnemonic for.
LEMMA RegisterReassembles ==
    ASSUME Drawn, kind = "OPCODE_CALC_REG"
    PROVE  LET again   == assemble(print_instruction(inst))
               Ignored == IF ~Alternatives THEN {30} ELSE {}
           IN  again \ Ignored = inst \ Ignored
<1> DEFINE L     == print_instruction(inst)
           again == assemble(L)
           f7    == IF L.alt \/ L.funct3 = AND THEN {6} ELSE {}
<1>1. /\ L.kind = "OPCODE_CALC_REG" /\ L.funct3 = funct3 /\ L.rs1 = rs1 /\ L.rs2 = rs2 /\ L.rd = rd
      /\ L.alt = listed_alt(kind, inst)
  BY Listed DEF Upper
<1>2. /\ rs1 \in RegBits /\ rs2 \in RegBits /\ rd \in RegBits /\ funct3 \in Funct3
      /\ Opcode(kind) \in SUBSET (0..6) /\ inst \in Words32
  BY DrawnBits DEF Drawn
<1>3. again = r_type(f7, rs2, rs1, funct3, rd, Opcode(kind))
  BY <1>1 DEF assemble, Upper, Bit12Imms
<1>4. f7 \in SUBSET (0..6)
  OBVIOUS
<1>5. Alternatives => (6 \in f7 <=> imm # {})
  <2>1. ASSUME Alternatives
        PROVE  L.alt <=> imm # {}
    <3>1. decode(inst).funct3 = funct3
      <4>1. idu(inst).funct3 = Bits(inst, 12, 14)
        BY DEF idu
      <4>2. QED
        BY <4>1, DrawnBits, SameDecoding, RegFields DEF Upper
    <3>2. funct7(inst) = {} <=> imm = {}
      BY Funct7Bits
    <3>3. listed_alt(kind, inst) <=> imm # {}
      BY <2>1, <3>1, <3>2 DEF listed_alt, Alternatives, Calcs
    <3>4. QED
      BY <1>1, <3>3, Zenon
  <2>2. ASSUME Alternatives
        PROVE  L.funct3 # AND
    BY <1>1, <2>2 DEF Alternatives, AND, ADD, SR
  <2>3. QED
    BY <2>1, <2>2
<1> HIDE DEF L, again, f7
<1>6. /\ again \in Words32
      /\ \A i \in 0..31 : i \in again <=>
           \/ i - 24 \in f7 \/ i - 20 \in rs2 \/ i - 15 \in rs1
           \/ i - 12 \in funct3 \/ i - 7 \in rd \/ i \in Opcode(kind)
  BY <1>2, <1>3, <1>4, RTypeBits
<1>7. \A i \in 0..31 : i \in inst <=>
           \/ i = 30 /\ imm # {}
           \/ i - 20 \in rs2 \/ i - 15 \in rs1
           \/ i - 12 \in funct3 \/ i - 7 \in rd \/ i \in Opcode(kind)
  BY DrawnBits
<1>8. \A i \in 0..31 : i - 24 \in f7 <=> i = 30 /\ 6 \in f7
  BY DEF f7
<1>9. \A i \in 0..31 : i # 30 => (i \in again <=> i \in inst)
  BY <1>6, <1>7, <1>8
<1>10. Alternatives => \A i \in 0..31 : i \in again <=> i \in inst
  BY <1>5, <1>6, <1>7, <1>8
<1>11. again \ {30} = inst \ {30}
  BY <1>2, <1>6, <1>9 DEF Words32
<1>12. Alternatives => again = inst
  BY <1>2, <1>6, <1>10 DEF Words32
<1>13. QED
  BY <1>11, <1>12 DEF again, L

\* The listing of a word, assembled again, gives the word back.
THEOREM ListingAlwaysReassembles == Spec => []ListingReassembles
<1>1. ASSUME Drawn, ~NotReversible, kind # "OPCODE_CALC_REG"
      PROVE  assemble(print_instruction(inst)) = inst
  <2> DEFINE L == print_instruction(inst)
  <2>1. /\ kind \in Kinds /\ inst = Made
        /\ rs1 \in RegBits /\ rs2 \in RegBits /\ rd \in RegBits /\ funct3 \in Funct3
        /\ kind \in Bit12Imms \cup {"OPCODE_BRANCH", "OPCODE_STORE"} => imm \in SUBSET (0..11)
        /\ Opcode(kind) \in SUBSET (0..6)
    BY <1>1, OpcodeBits DEF Drawn
  <2>2. /\ L.kind = kind
        /\ kind \notin Upper => L.funct3 = funct3 /\ L.rs1 = rs1
        /\ kind \in {"OPCODE_BRANCH", "OPCODE_STORE"} => L.rs2 = rs2
        /\ kind \notin {"OPCODE_BRANCH", "OPCODE_STORE", "OPCODE_JAL"} => L.rd = rd
        /\ kind = "OPCODE_LUI" => L.imm = imm
        /\ kind = "OPCODE_BRANCH" /\ imm \cap {0, 11} = {} => L.imm = imm
        /\ kind \in Bit12Imms \cup {"OPCODE_STORE"} => L.imm = SignExtended
    BY <1>1, Listed, Zenon
  <2>3. kind \in Bit12Imms \cup {"OPCODE_STORE"} =>
          /\ i_type(SignExtended, rs1, funct3, rd, Opcode(kind)) =
               i_type(imm, rs1, funct3, rd, Opcode(kind))
          /\ s_type(SignExtended, rs2, rs1, funct3, Opcode(kind)) =
               s_type(imm, rs2, rs1, funct3, Opcode(kind))
    <3>1. PICK neg \in BOOLEAN : neg <=> 11 \in imm
      OBVIOUS
    <3>2. SignExtended = imm \cup Fill(neg, 12)
      BY <3>1 DEF SignExtended, Fill
    <3>3. QED
      BY <2>1, <3>2, SignFallsOut
  <2>4. CASE kind \in Upper
    <3>1. kind = "OPCODE_LUI"
      BY <1>1, <2>4 DEF NotReversible, Upper
    <3>2. assemble(L) = u_type(imm, rd, Opcode(kind))
      BY <2>2, <3>1 DEF assemble, Upper, Bit12Imms
    <3>3. inst = u_type(imm, rd, Opcode(kind))
      BY <2>1, <3>1 DEF Made, Upper, Bit12Imms
    <3>4. QED
      BY <3>2, <3>3
  <2>5. CASE kind \in Bit12Imms
    <3> DEFINE extra == IF L.alt THEN {30} ELSE {}
    <3>1. inst = i_type(imm, rs1, funct3, rd, Opcode(kind))
      BY <2>1, <2>5 DEF Made, Upper, Bit12Imms
    <3>2. assemble(L) = i_type(SignExtended, rs1, funct3, rd, Opcode(kind)) \cup extra
      BY <2>2, <2>5 DEF assemble, Upper, Bit12Imms
    <3>3. i_type(SignExtended, rs1, funct3, rd, Opcode(kind)) = inst
      BY <2>3, <2>5, <3>1
    <3>4. L.alt <=> listed_alt(kind, inst)
      BY <1>1, Listed, Zenon
    <3>5. listed_alt(kind, inst) => 30 \in inst
      <4>1. ASSUME listed_alt(kind, inst)
            PROVE  30 \in inst
        <5>1. /\ kind = "OPCODE_CALC_IMM" /\ decode(inst).funct3 = SR /\ funct7(inst) # {}
          BY <2>5, <4>1 DEF listed_alt, Calcs, Bit12Imms
        <5>2. decode(inst).funct3 = funct3
          <6>1. idu(inst).funct3 = Bits(inst, 12, 14)
            BY DEF idu
          <6>2. QED
            BY <1>1, <5>1, <6>1, DrawnBits, SameDecoding, RegFields DEF Upper
        <5>3. funct7(inst) = {5}
          BY <1>1, <5>1, <5>2 DEF NotReversible
        <5>4. QED
          BY <1>1, <5>3, Funct7Bits
      <4>2. QED
        BY <4>1
    <3>6. L.alt => 30 \in inst
      BY <3>4, <3>5, Zenon
    <3> HIDE DEF L
    <3>7. extra \subseteq inst
      BY <3>6
    <3>8. QED
      BY <3>2, <3>3, <3>7 DEF L
  <2>6. CASE kind = "OPCODE_BRANCH"
    <3>1. imm \cap {0, 11} = {}
      <4>1. ~(7 \in inst) /\ ~(31 \in inst)
        BY <1>1, <2>6 DEF NotReversible
      <4>2. QED
        BY <1>1, <2>6, <4>1, S_bits
    <3>2. assemble(L) = s_type(imm, rs2, rs1, funct3, Opcode(kind))
      BY <2>2, <2>6, <3>1 DEF assemble, Upper, Bit12Imms
    <3>3. inst = s_type(imm, rs2, rs1, funct3, Opcode(kind))
      BY <2>1, <2>6 DEF Made, Upper, Bit12Imms
    <3>4. QED
      BY <3>2, <3>3
  <2>7. CASE kind = "OPCODE_STORE"
    <3>1. inst = s_type(imm, rs2, rs1, funct3, Opcode(kind))
      BY <2>1, <2>7 DEF Made, Upper, Bit12Imms
    <3>2. assemble(L) = s_type(SignExtended, rs2, rs1, funct3, Opcode(kind))
      BY <2>2, <2>7 DEF assemble, Upper, Bit12Imms
    <3>3. QED
      BY <2>3, <2>7, <3>1, <3>2
  <2>8. CASE kind = "OPCODE_SYSTEM"
    BY <2>1, <2>2, <2>8 DEF assemble, Made, Upper, Bit12Imms
  <2>9. QED
    BY <1>1, <2>1, <2>4, <2>5, <2>6, <2>7, <2>8 DEF Kinds, Upper, Bit12Imms
<1>2. Drawn => ListingReassembles
  BY <1>1, RegisterReassembles DEF ListingReassembles
<1>3. QED
  BY <1>2, DrawnAlways, PTL
=============================================================================
