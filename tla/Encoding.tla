------------------------------- MODULE Encoding -------------------------------
(***************************************************************************)
(* How instructions are put into words and taken out of them: the encoders *)
(* and random_instruction of soc/riscv.cpp on one side; the field wires of *)
(* soc/idu.sv, the decoder of soc/gcpu.cpp and inst_info of soc/riscv.cpp  *)
(* on the other.  A 32-bit word is the set of the positions of its ones,   *)
(* so that "or" is union and a shift moves the positions.                  *)
(***************************************************************************)
EXTENDS Integers

CONSTANTS Imm12, Imm20, Regs,   \* what random_bits may draw: sets of positions
          MaxInsts              \* bound: words one behaviour makes

ASSUME EncodingAssumption == /\ Imm12 \subseteq SUBSET (0..11)
                             /\ Imm20 \subseteq SUBSET (0..19)
                             /\ Regs  \subseteq SUBSET (0..4)

Shl(w, n)         == {i + n : i \in {j \in w : j + n <= 31}}
Bits(w, from, to) == {i - from : i \in w \cap (from..to)}     \* w[to:from]
Fill(b, from)     == IF b THEN from..31 ELSE {}

BitOf(w, pos, n)  == Shl(Bits(w, pos, pos), n)

Opcode(kind) ==
    CASE kind = "OPCODE_LUI"      -> {0, 1, 2, 4, 5}
      [] kind = "OPCODE_AUIPC"    -> {0, 1, 2, 4}
      [] kind = "OPCODE_JAL"      -> {0, 1, 2, 3, 5, 6}
      [] kind = "OPCODE_JALR"     -> {0, 1, 2, 5, 6}
      [] kind = "OPCODE_BRANCH"   -> {0, 1, 5, 6}
      [] kind = "OPCODE_LOAD"     -> {0, 1}
      [] kind = "OPCODE_STORE"    -> {0, 1, 5}
      [] kind = "OPCODE_CALC_IMM" -> {0, 1, 4}
      [] kind = "OPCODE_CALC_REG" -> {0, 1, 4, 5}
      [] kind = "OPCODE_SYSTEM"   -> {0, 1, 4, 5, 6}

Kinds == {"OPCODE_LUI", "OPCODE_AUIPC", "OPCODE_JAL", "OPCODE_JALR", "OPCODE_BRANCH",
          "OPCODE_LOAD", "OPCODE_STORE", "OPCODE_CALC_IMM", "OPCODE_CALC_REG", "OPCODE_SYSTEM"}

Bit12Imms == {"OPCODE_JALR", "OPCODE_LOAD", "OPCODE_CALC_IMM"}

-----------------------------------------------------------------------------
(* Encoders.                                                               *)

\* funct7 holds bit 30 only, as 1 << 6, which the shift by 24 takes there.
r_type(funct7, rs2, rs1, funct3, rd, opcode) ==
    Shl(funct7, 24) \cup Shl(rs2, 20) \cup Shl(rs1, 15) \cup Shl(funct3, 12)
        \cup Shl(rd, 7) \cup opcode

i_type(imm, rs1, funct3, rd, opcode) ==
    Shl(imm, 20) \cup Shl(rs1, 15) \cup Shl(funct3, 12) \cup Shl(rd, 7) \cup opcode

\* Plausible bug: the halves of the immediate are split at bit 4.
s_typeSplitAt4(imm, rs2, rs1, funct3, opcode) ==
    Shl(Bits(imm, 4, 31), 25) \cup Shl(rs2, 20) \cup Shl(rs1, 15) \cup Shl(funct3, 12)
        \cup Shl(Bits(imm, 0, 4), 7) \cup opcode

s_type(imm, rs2, rs1, funct3, opcode) ==
    Shl(Bits(imm, 5, 31), 25) \cup Shl(rs2, 20) \cup Shl(rs1, 15) \cup Shl(funct3, 12)
        \cup Shl(Bits(imm, 0, 4), 7) \cup opcode

\* The immediate of a branch is laid out like that of a store.
b_type(imm, rs2, rs1, funct3, opcode) == s_type(imm, rs2, rs1, funct3, opcode)

u_type(imm, rd, opcode) == Shl(imm, 12) \cup Shl(rd, 7) \cup opcode

ebreak == Shl({0}, 20) \cup Opcode("OPCODE_SYSTEM")

-----------------------------------------------------------------------------
(* Decoders: the fields that do not depend on the opcode, and the five     *)
(* immediates.                                                             *)

\* Plausible bug: bit 11 of the jump offset is taken for a sign bit.
idu_j_immNoBit11(inst) ==
    Fill(31 \in inst, 20) \cup Shl(Bits(inst, 12, 19), 12) \cup Shl(Bits(inst, 21, 30), 1)

idu_j_imm(inst) ==
    Fill(31 \in inst, 20) \cup Shl(Bits(inst, 12, 19), 12) \cup BitOf(inst, 20, 11)
        \cup Shl(Bits(inst, 21, 30), 1)

\* Wires of idu.sv, written from the concatenations.
idu(inst) ==
    LET sign == 31 \in inst
    IN  [opcode |-> Bits(inst, 0, 6), rd |-> Bits(inst, 7, 11), funct3 |-> Bits(inst, 12, 14),
         rs1 |-> Bits(inst, 15, 19), rs2 |-> Bits(inst, 20, 24),
         i_imm |-> Fill(sign, 12) \cup Bits(inst, 20, 31),
         u_imm |-> inst \cap (12..31),
         s_imm |-> Fill(sign, 12) \cup Shl(Bits(inst, 25, 31), 5) \cup Bits(inst, 7, 11),
         j_imm |-> idu_j_imm(inst),
         b_imm |-> Fill(sign, 12) \cup BitOf(inst, 7, 11) \cup Shl(Bits(inst, 25, 30), 5)
                       \cup Shl(Bits(inst, 8, 11), 1)]

idu_sub(inst) == 30 \in inst

\* decode of gcpu.cpp and inst_info: masks and shifts of what take_bits_range
\* and take_bit return, with ~0u << n for the sign.
take_bits_range(bits, from, to) == {i - from : i \in {j \in bits : from <= j /\ j <= to}}

take_bit(bits, pos) == take_bits_range(bits, pos, pos)

signed(inst, n, low) == IF take_bit(inst, 31) # {} THEN Shl(0..31, n) \cup low ELSE low

decode(inst) ==
    LET rng(from, to, n) == Shl(take_bits_range(inst, from, to), n)
    IN  [opcode |-> rng(0, 6, 0), rd |-> rng(7, 11, 0), funct3 |-> rng(12, 14, 0),
         rs1 |-> rng(15, 19, 0), rs2 |-> rng(20, 24, 0),
         i_imm |-> signed(inst, 12, rng(20, 31, 0)),
         u_imm |-> rng(12, 31, 12),
         s_imm |-> signed(inst, 12, rng(25, 31, 5) \cup rng(7, 11, 0)),
         j_imm |-> signed(inst, 20, rng(12, 19, 12) \cup Shl(take_bit(inst, 20), 11)
                                        \cup rng(21, 30, 1)),
         b_imm |-> signed(inst, 12, Shl(take_bit(inst, 7), 11) \cup rng(25, 30, 5)
                                        \cup rng(8, 11, 1))]

-----------------------------------------------------------------------------
(* The listing of a failed test and the assembler.  A mnemonic stands for  *)
(* opcode, funct3 and whether it is the alternative (sub, sra, srai).      *)

Upper == {"OPCODE_LUI", "OPCODE_AUIPC", "OPCODE_JAL"}
Calcs == {"OPCODE_CALC_IMM", "OPCODE_CALC_REG"}
ADD   == {}
SR    == {0, 2}
AND   == {0, 1, 2}

funct7(inst) == take_bits_range(inst, 25, 31)

\* Plausible bug: sub is listed as add.
listed_altShiftsOnly(k, inst) ==
    k \in Calcs /\ decode(inst).funct3 = SR /\ funct7(inst) # {}

listed_alt(k, inst) ==
    /\ funct7(inst) # {}
    /\ \/ k \in Calcs /\ decode(inst).funct3 = SR
       \/ k = "OPCODE_CALC_REG" /\ decode(inst).funct3 = ADD

\* What print_instruction shows; for jal it shows rs1 where it should show rd,
\* for auipc the immediate unshifted.
print_instruction(inst) ==
    LET d == decode(inst)
        k == CHOOSE k \in Kinds : Opcode(k) = d.opcode
    IN  [kind |-> k, funct3 |-> d.funct3, alt |-> listed_alt(k, inst),
         rs1 |-> d.rs1, rs2 |-> d.rs2, rd |-> IF k = "OPCODE_JAL" THEN d.rs1 ELSE d.rd,
         imm |-> CASE k = "OPCODE_LUI"    -> Bits(d.u_imm, 12, 31)
                   [] k = "OPCODE_AUIPC"  -> d.u_imm
                   [] k = "OPCODE_JAL"    -> d.j_imm
                   [] k = "OPCODE_BRANCH" -> d.b_imm
                   [] k = "OPCODE_STORE"  -> d.s_imm
                   [] OTHER               -> d.i_imm]

\* beq, ..., sra: one encoder for each mnemonic; vand sets bit 30, too.
assemble(l) ==
    LET opcode == Opcode(l.kind)
    IN  CASE l.kind \in Upper -> u_type(l.imm, l.rd, opcode)
          [] l.kind \in Bit12Imms ->
                i_type(l.imm, l.rs1, l.funct3, l.rd, opcode) \cup (IF l.alt THEN {30} ELSE {})
          [] l.kind \in {"OPCODE_BRANCH", "OPCODE_STORE"} ->
                s_type(l.imm, l.rs2, l.rs1, l.funct3, opcode)
          [] l.kind = "OPCODE_CALC_REG" ->
                r_type(IF l.alt \/ l.funct3 = AND THEN {6} ELSE {},
                       l.rs2, l.rs1, l.funct3, l.rd, opcode)
          [] l.kind = "OPCODE_SYSTEM" -> ebreak

-----------------------------------------------------------------------------
(* random_instruction, one action per case, after test_random's prelude.   *)

VARIABLES kind, imm, rs1, rs2, funct3, rd,    \* what was drawn last
          inst,                               \* the word made of it
          n                                   \* words made so far

vars == <<kind, imm, rs1, rs2, funct3, rd, inst, n>>

\* random_range(gen, 0, 5) leaves the last of the six branch types out.
branch_types == {{}, {0}, {2}, {0, 2}, {1, 2}}
load_types   == {{}, {0}, {1}, {2}, {0, 2}}
store_types  == {{}, {0}, {1}}
Funct3       == SUBSET (0..2)

\* The word made of what was drawn.
Word ==
    CASE kind' = "OPCODE_SYSTEM" -> ebreak
      [] kind' \in Upper -> u_type(imm', rd', Opcode(kind'))
      [] kind' \in Bit12Imms -> i_type(imm', rs1', funct3', rd', Opcode(kind'))
      [] kind' = "OPCODE_BRANCH" -> b_type(imm', rs2', rs1', funct3', Opcode(kind'))
      [] kind' = "OPCODE_STORE" -> s_type(imm', rs2', rs1', funct3', Opcode(kind'))
      \* Here imm stands for funct7.
      [] kind' = "OPCODE_CALC_REG" -> r_type(imm', rs2', rs1', funct3', rd', Opcode(kind'))

Draw(k, imms, rs1s, rs2s, funct3s, rds) ==
    /\ n < MaxInsts
    /\ n' = n + 1
    /\ kind' = k
    /\ imm' \in imms
    /\ rs1' \in rs1s
    /\ rs2' \in rs2s
    /\ funct3' \in funct3s
    /\ rd' \in rds
    /\ inst' = Word

\* A field the format does not have.
None == {{}}

\* test_random: lui of the middle of flash or of RAM (never of the UART:
\* random_range(0, 2) leaves it out), then addi, for each register but x0.
PreludeBases == {{11, 16, 17}, {12, 19}}

PreludeLui  == Draw("OPCODE_LUI", PreludeBases, None, None, None, Regs \ None)
PreludeAddi == /\ Draw("OPCODE_CALC_IMM", Imm12, Regs \ None, None, None, Regs \ None)
               /\ rs1' = rd'

Lui     == Draw("OPCODE_LUI", Imm20, None, None, None, Regs)
Auipc   == Draw("OPCODE_AUIPC", Imm20, None, None, None, Regs)
Jal     == Draw("OPCODE_JAL", Imm20, None, None, None, Regs)
Jalr    == Draw("OPCODE_JALR", Imm12, Regs, None, None, Regs)
Branch  == Draw("OPCODE_BRANCH", Imm12, Regs, Regs, branch_types, None)
Load    == Draw("OPCODE_LOAD", Imm12, Regs \ None, None, load_types, Regs)
Store   == Draw("OPCODE_STORE", Imm12, Regs \ None, Regs, store_types, None)
CalcImm == Draw("OPCODE_CALC_IMM", Imm12, Regs, None, Funct3, Regs)
CalcReg == Draw("OPCODE_CALC_REG", {{}, {6}}, Regs, Regs, Funct3, Regs)
System  == Draw("OPCODE_SYSTEM", {{0}}, None, None, None, None)

Init == /\ n = 0
        /\ kind = "OPCODE_SYSTEM" /\ imm = {0}
        /\ rs1 = {} /\ rs2 = {} /\ funct3 = {} /\ rd = {}
        /\ inst = ebreak

Next == \/ PreludeLui \/ PreludeAddi \/ Lui \/ Auipc \/ Jal \/ Jalr \/ Branch
        \/ Load \/ Store \/ CalcImm \/ CalcReg \/ System

Spec == Init /\ [][Next]_vars

-----------------------------------------------------------------------------
(* Properties.                                                             *)

\* The decoders agree on every field and on all five immediates of every word
\* the tests contain (idu.sv:67-76, gcpu.cpp:302-346, riscv.cpp:324-349).
DecodersAgree == idu(inst) = decode(inst)

SignExtended == imm \cup Fill(11 \in imm, 12)

\* The IDU finds in a word what the encoder was given: the fields do not run
\* into each other.  An even branch offset below 2048 keeps its value in the
\* store-like layout of b_type (riscv.cpp:92-129, 462-552).
DecodedAsAsked ==
    LET d == idu(inst)
    IN  /\ d.opcode = Opcode(kind)
        /\ kind \notin {"OPCODE_BRANCH", "OPCODE_STORE"} => d.rd = rd
        /\ kind \notin Upper => d.funct3 = funct3 /\ d.rs1 = rs1
        /\ kind \in {"OPCODE_BRANCH", "OPCODE_STORE", "OPCODE_CALC_REG"} => d.rs2 = rs2
        /\ kind \in Bit12Imms => d.i_imm = SignExtended
        /\ kind = "OPCODE_STORE" => d.s_imm = SignExtended
        /\ kind \in Upper \ {"OPCODE_JAL"} => d.u_imm = Shl(imm, 12)
        /\ kind = "OPCODE_BRANCH" /\ imm \cap {0, 11} = {} => d.b_imm = imm
        /\ kind = "OPCODE_CALC_REG" => (idu_sub(inst) <=> imm # {})

Alternatives == kind = "OPCODE_CALC_REG" /\ funct3 \in {ADD, SR}

\* What does not come back: what the listing or b_type gets wrong (jal, auipc,
\* branches backwards or beyond 2046), and shifts by a constant with a funct7
\* that no assembler makes, which execute as srli and are listed as srai.
NotReversible ==
    \/ kind \in {"OPCODE_JAL", "OPCODE_AUIPC"}
    \/ kind = "OPCODE_BRANCH" /\ inst \cap {7, 31} # {}
    \/ kind = "OPCODE_CALC_IMM" /\ funct3 = SR /\ funct7(inst) \notin {{}, {5}}

\* The listing printed for a failed random test is that of the test: assembled
\* again, it gives the same word, up to a bit 30 that means nothing
\* (riscv.cpp:116-300, 350-443, soc_main.cpp:1182).
ListingReassembles ==
    ~NotReversible =>
        LET again   == assemble(print_instruction(inst))
            Ignored == IF kind = "OPCODE_CALC_REG" /\ ~Alternatives THEN {30} ELSE {}
        IN  again \ Ignored = inst \ Ignored
=============================================================================
