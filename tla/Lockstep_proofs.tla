---------------------------- MODULE Lockstep_proofs ----------------------------
(***************************************************************************)
(* Proofs about the CPU on its test bench next to the golden model, for    *)
(* every width of a word, map, cache, number of registers, program and     *)
(* range of delays.                                                        *)
(***************************************************************************)
EXTENDS Lockstep, Words_proofs

-----------------------------------------------------------------------------
(* The arithmetic of both sides.                                           *)

\* Both sides, and the bench, mean the same by a word.
LEMMA SameWords ==
    /\ AluI!Pow2 = Pow2 /\ AluI!Modulus = Modulus
    /\ Gold!Pow2 = Pow2 /\ Gold!Modulus = Modulus /\ Gold!ByteSize = ByteSize
    /\ Gold!AllWords = AllWords /\ Gold!AllBytes = AllBytes
    /\ Cpu!Word = AllWords /\ Cpu!Lane4 = Lanes
<1>1. AluI!Pow2 = Pow2 /\ Gold!Pow2 = Pow2
  BY DEF Pow2, AluI!Pow2, Gold!Pow2
<1>2. QED
  BY <1>1 DEF Modulus, AluI!Modulus, Gold!Modulus, ByteSize, Gold!ByteSize,
     AllWords, AllBytes, Gold!AllWords, Gold!AllBytes, Cpu!Word, Cpu!Lane4, Lanes

\* The same by the bits of words.
LEMMA SameBits ==
    ASSUME NEW a, NEW b
    PROVE  /\ AluI!And(a, b) = And(a, b) /\ AluI!Or(a, b) = Or(a, b)
           /\ AluI!Xor(a, b) = Xor(a, b) /\ AluI!Not(b) = Not(b)
           /\ AluI!Signed(a) = Signed(a) /\ AluI!Truth(a) = Truth(a)
           /\ Gold!And(a, b) = And(a, b) /\ Gold!Or(a, b) = Or(a, b)
           /\ Gold!Xor(a, b) = Xor(a, b)
           /\ Gold!Signed(a) = Signed(a) /\ Gold!Truth(a) = Truth(a)
  BY SameWords
  DEF And, Or, Xor, Not, Signed, Truth, Bitwise, Bit,
      AluI!And, AluI!Or, AluI!Xor, AluI!Not, AluI!Signed, AluI!Truth, AluI!Bitwise, AluI!Bit,
      Gold!And, Gold!Or, Gold!Xor, Gold!Signed, Gold!Truth, Gold!Bitwise, Gold!Bit

\* The same by their bytes.
LEMMA SameBytes ==
    ASSUME NEW a, NEW n, NEW signed
    PROVE  /\ Gold!Joined(a) = Joined(a) /\ Gold!Split(a) = Split(a)
           /\ Gold!Extended(a, n, signed) = Extended(a, n, signed)
  BY SameWords
  DEF Joined, Split, Extended, Weight, Gold!Joined, Gold!Split, Gold!Extended, Gold!Weight

\* The ALU makes words of words.
LEMMA AluType ==
    ASSUME NEW op \in 0..15, NEW a \in AllWords, NEW b \in AllWords
    PROVE  AluI!alu(op, a, b) \in AllWords
<1>1. /\ a \in Nat /\ b \in Nat /\ Modulus \in Nat \ {0} /\ b % XLEN \in 0..(XLEN - 1)
      /\ b % XLEN \in 0..XLEN
  BY Sizes, XLENAssumption DEF AllWords
<1>2. \A x \in Int : x % Modulus \in AllWords
  BY <1>1 DEF AllWords
<1>3. Pow2[b % XLEN] \in Nat \ {0}
  BY <1>1, PowersPositive
<1>4. a + b \in Int /\ a - b \in Int /\ a * Pow2[b % XLEN] \in Int
  BY <1>1, <1>3
<1>5. a \div Pow2[b % XLEN] \in AllWords
  <2>1. \A p \in Nat \ {0} : a \div p \in Nat /\ a \div p <= a
    BY <1>1
  <2>2. QED
    BY <1>1, <1>3, <2>1 DEF AllWords
<1>6. /\ And(a, b) \in AllWords /\ Or(a, b) \in AllWords /\ Xor(a, b) \in AllWords
      /\ And(a, Not(b)) \in AllWords
  BY BitwiseTypes
<1>7. (Signed(a) \div Pow2[b % XLEN]) % Modulus \in AllWords
  BY <1>1, ShiftSigned
<1>8. 0 \in AllWords /\ 1 \in AllWords /\ \A x : Truth(x) \in AllWords
  BY Sizes DEF AllWords, Truth
<1>9. /\ (a + b) % Modulus \in AllWords /\ (a - b) % Modulus \in AllWords
      /\ (a * Pow2[b % XLEN]) % Modulus \in AllWords
  BY <1>2, <1>4
<1>10. QED
  BY <1>5, <1>6, <1>7, <1>8, <1>9, SameWords, SameBits
  DEF AluI!alu, AluI!shamt, AluI!shift_right_signed

\* What the golden model asks of its ALU, the ALU of the CPU computes alike.
LEMMA SameAlu ==
    ASSUME NEW op \in 0..8 \cup {13}, NEW a \in AllWords, NEW b \in AllWords
    PROVE  Gold!alu_eval(op, a, b) = AluI!alu(op, a, b)
<1>1. b % XLEN \in 0..(XLEN - 1)
  BY Sizes, XLENAssumption DEF AllWords
<1>2. (Signed(a) \div Pow2[b % XLEN]) % Modulus =
        IF b % XLEN = 0 THEN a
        ELSE (a \div Pow2[b % XLEN])
             + IF a >= Pow2[XLEN - 1] THEN Modulus - Pow2[XLEN - (b % XLEN)] ELSE 0
  BY <1>1, ShiftSigned
<1>3. Gold!sra32(a, b % XLEN) = AluI!shift_right_signed(a, b)
  BY <1>2, SameWords, SameBits DEF Gold!sra32, AluI!shift_right_signed, AluI!shamt
<1>4. Gold!slt(a, b) <=> AluI!Signed(a) < AluI!Signed(b)
  BY SameBits DEF Gold!slt
<1>5. Gold!Truth(Gold!slt(a, b)) = AluI!Truth(AluI!Signed(a) < AluI!Signed(b))
  BY <1>4 DEF Gold!Truth, AluI!Truth
<1>6. Gold!Truth(a < b) = AluI!Truth(a < b)
  BY DEF Gold!Truth, AluI!Truth
<1> HIDE DEF Gold!sra32, Gold!slt
<1>7. op \in {0, 1, 2, 3, 4, 5, 6, 7, 8, 13}
  OBVIOUS
<1>8. QED
  BY <1>3, <1>5, <1>6, <1>7, SameWords, SameBits
  DEF Gold!alu_eval, AluI!alu, AluI!shamt, AluI!ALU_OP_ADD, AluI!ALU_OP_SUB, AluI!ALU_OP_XOR,
      AluI!ALU_OP_AND, AluI!ALU_OP_ANDN, AluI!ALU_OP_OR, AluI!ALU_OP_SLL, AluI!ALU_OP_SRL,
      AluI!ALU_OP_SRA, AluI!ALU_OP_SLT, AluI!ALU_OP_SLTU, AluI!ALU_OP_LHS, AluI!ALU_OP_RHS

\* And of the comparisons, but for the operation 2.
LEMMA SameCom ==
    ASSUME NEW op \in 0..7, op # 2, NEW a \in AllWords, NEW b \in AllWords
    PROVE  Gold!compare(op, a, b) <=> AluI!com(op, a, b)
<1>1. Gold!slt(a, b) <=> Signed(a) < Signed(b)
  BY SameBits DEF Gold!slt
<1>2. Signed(a) \in Int /\ Signed(b) \in Int
  BY Sizes DEF Signed, AllWords
<1>3. ~Gold!slt(a, b) <=> Signed(a) >= Signed(b)
  BY <1>1, <1>2
<1>4. op \in {0, 1, 3, 4, 5, 6, 7}
  OBVIOUS
<1> HIDE DEF Gold!slt
<1>5. QED
  BY <1>1, <1>3, <1>4, SameBits
  DEF Gold!compare, AluI!com, AluI!COM_OP_EQ, AluI!COM_OP_NE, AluI!COM_OP_ONE, AluI!COM_OP_LT,
      AluI!COM_OP_GE, AluI!COM_OP_LTU, AluI!COM_OP_GEU

-----------------------------------------------------------------------------
(* Types of constants and of what goes from unit to unit.                  *)

\* The regions, one by one.
LEMMA MapFacts ==
    /\ FLASH_START \in Nat /\ FLASH_END \in Nat /\ MEM_START \in Nat /\ MEM_END \in Nat
    /\ UART_START \in Nat /\ UART_END \in Nat
    /\ FLASH_END <= Modulus - 1 /\ MEM_START <= Modulus - 1 /\ MEM_END <= Modulus - 1
    /\ FLASH_START % 4 = 0 /\ FLASH_END % 4 = 0 /\ MEM_START % 4 = 0 /\ MEM_END % 4 = 0
    /\ UART_START % 4 = 0
    /\ FLASH_START + 4 <= FLASH_END /\ FLASH_END <= MEM_START
    /\ UART_START + 10 <= UART_END /\ UART_END <= FLASH_START
    /\ INITIAL_PC \in AllWords /\ 0 \in AllWords /\ 0 \in AllBytes /\ ByteSize - 1 \in AllBytes
    /\ Modulus \in Nat \ {0} /\ Modulus % 4 = 0 /\ Cpu!NWords \in Nat \ {0}
    /\ 4 * Cpu!NWords = Modulus
<1>1. /\ FLASH_START \in 0..Modulus-1 /\ FLASH_END \in 0..Modulus-1
      /\ MEM_START \in 0..Modulus-1 /\ MEM_END \in 0..Modulus-1
      /\ FLASH_START % 4 = 0 /\ FLASH_END % 4 = 0 /\ MEM_START % 4 = 0 /\ MEM_END % 4 = 0
      /\ UART_START % 4 = 0
  BY MapAssumption DEF AllWords
<1>2. Modulus \in Nat \ {0} /\ Modulus % 4 = 0 /\ ByteSize \in Nat /\ ByteSize >= 2
  BY Sizes
<1>3. Cpu!NWords = Modulus \div 4
  BY DEF Cpu!NWords
<1>4. INITIAL_PC \in FLASH_START..FLASH_END-4
  BY MapAssumption
<1>5. INITIAL_PC \in AllWords /\ FLASH_START + 4 <= FLASH_END
  BY <1>1, <1>2, <1>4 DEF AllWords
<1>6. Cpu!NWords \in Nat \ {0} /\ 4 * Cpu!NWords = Modulus
  BY <1>2, <1>3
<1>7. 0 \in AllWords /\ 0 \in AllBytes /\ ByteSize - 1 \in AllBytes
  BY <1>2 DEF AllWords, AllBytes
<1>8. QED
  BY <1>1, <1>2, <1>5, <1>6, <1>7, MapAssumption

\* What the decoder gives.
LEMMA DecodeType ==
    ASSUME NEW w \in AllWords
    PROVE  RtlDecode(w) \in Cpu!Idu!Decoded
<1> DEFINE f == Fields(w)
<1>1. /\ f.funct3 \in 0..7 /\ f.sub \in BOOLEAN
      /\ f.rd \in RegNums /\ f.rs1 \in RegNums /\ f.rs2 \in RegNums /\ f.imm \in AllWords
  BY FieldsAssumption
<1> HIDE DEF f
<1>2. IduD!inst_type(f) \in Cpu!Idu!types
  BY <1>1 DEF IduD!inst_type, IduD!system_type, Cpu!Idu!types
<1>3. IduD!size(f) \in {"LSU_BYTE", "LSU_HALF", "LSU_WORD", "LSU_EXTA"}
  <2>1. f.funct3 % 4 \in {0, 1, 2, 3}
    BY <1>1
  <2>2. QED
    BY <2>1 DEF IduD!size
<1>4. IduD!sign(f) \in BOOLEAN
  BY DEF IduD!sign
<1>5. IduD!alu_op(f) \in 0..15
  <2>1. 2 + 4 * ((f.funct3 \div 2) % 2) + 8 * (f.funct3 % 2) \in 0..15
    BY <1>1
  <2>2. f.funct3 + (IF IduD!alternative(f) THEN 8 ELSE 0) \in 0..15
    BY <1>1
  <2>3. QED
    BY <2>1, <2>2 DEF IduD!alu_op
<1>6. IduD!com_op(f) \in 0..7
  BY <1>1 DEF IduD!com_op
<1>7. IduD!imm(f) \in AllWords
  BY <1>1, MapFacts DEF IduD!imm
<1>8. QED
  BY <1>1, <1>2, <1>3, <1>4, <1>5, <1>6, <1>7, SameWords
  DEF RtlDecode, IduD!decode, Cpu!Idu!Decoded, f

\* What the buses show the CPU.
BusTyped == /\ ifu_respValid \in BOOLEAN /\ ifu_rdata \in AllWords
            /\ lsu_respValid \in BOOLEAN /\ lsu_rdata \in Lanes

\* The operands are words, and so is what the ALU makes of them.
LEMMA OperandsType ==
    ASSUME Cpu!TypeOK
    PROVE  /\ Cpu!Operands.rdata1 \in AllWords /\ Cpu!Operands.rdata2 \in AllWords
           /\ Cpu!Exu!alu_res(Cpu!Operands) \in AllWords
<1>1. Cpu!dec \in Cpu!Idu!Decoded
  BY DecodeType, SameWords DEF Cpu!TypeOK, Cpu!Idu!TypeOK, Cpu!dec
<1>2. \A rs \in RegNums : Cpu!Rf!Read(rs) \in AllWords
  BY BenchAssumption, MapFacts, SameWords DEF Cpu!TypeOK, Cpu!Rf!TypeOK, Cpu!Rf!Read
<1>3. Cpu!dec.rs1 \in RegNums /\ Cpu!dec.rs2 \in RegNums /\ Cpu!dec.imm \in AllWords /\ Cpu!dec.alu_op \in 0..15
  BY <1>1, SameWords DEF Cpu!Idu!Decoded
<1>4. Cpu!Operands.rdata1 \in AllWords /\ Cpu!Operands.rdata2 \in AllWords /\ Cpu!Operands.pc \in AllWords
      /\ Cpu!Operands.dec = Cpu!dec
  BY <1>2, <1>3, SameWords DEF Cpu!Operands, Cpu!TypeOK
<1>5. Cpu!Exu!alu_lhs(Cpu!Operands) \in AllWords /\ Cpu!Exu!alu_rhs(Cpu!Operands) \in AllWords
  BY <1>3, <1>4 DEF Cpu!Exu!alu_lhs, Cpu!Exu!alu_rhs
<1>6. QED
  BY <1>3, <1>4, <1>5, AluType DEF Cpu!Exu!alu_res

\* The LSU gives back a word.
LEMMA LsuRdataType ==
    ASSUME NEW in, in.addr \in Nat, in.io_rdata \in Lanes,
           first_rdata_q \in [1..3 -> AllBytes]
    PROVE  Cpu!Lsu!rdata(in) \in Lanes
<1>1. Cpu!Lsu!addr_offset(in) \in 0..3
  BY DEF Cpu!Lsu!addr_offset
<1>2. Cpu!Lsu!first_rdata(in) \in [1..3 -> AllBytes]
  BY DEF Cpu!Lsu!first_rdata, Lanes
<1>3. Cpu!Lsu!align_rdata(in) \in Lanes
  BY <1>1, <1>2 DEF Cpu!Lsu!align_rdata, Lanes, Cpu!Lsu!Lanes
<1>4. Cpu!Lsu!Width(in.data_size) \in {1, 2, 4}
  BY DEF Cpu!Lsu!Width
<1>5. \A b, sg : Cpu!Lsu!Extension(b, sg) \in AllBytes
  BY MapFacts DEF Cpu!Lsu!Extension
<1>6. QED
  BY <1>3, <1>4, <1>5 DEF Cpu!Lsu!rdata, Lanes, Cpu!Lsu!Lanes

-----------------------------------------------------------------------------
(* The type invariant.                                                     *)

\* Every register keeps its type in a rising edge.
LEMMA ClockType ==
    ASSUME Cpu!TypeOK, BusTyped, Cpu!Clock(Io)
    PROVE  Cpu!TypeOK'
<1>s. Cpu!Word = AllWords /\ Cpu!Lane4 = Lanes
  BY SameWords
<1> USE <1>s
<1>0. /\ Io.ifu_respValid \in BOOLEAN /\ Io.ifu_rdata \in AllWords
      /\ Io.lsu_respValid \in BOOLEAN /\ Io.lsu_rdata \in Lanes
      /\ Io.csr_rdata \in AllWords
  BY MapFacts DEF Io, BusTyped
<1>1. 0 \in AllWords /\ pc \in AllWords /\ pc \in Nat /\ pc \div 4 \in 0..Cpu!NWords-1
  BY MapFacts DEF Cpu!TypeOK, AllWords
<1>2. Cpu!Ifu!TypeOK'
  <2> DEFINE in == Cpu!IfuIn(Io)
             ic == Cpu!Ifu!IcacheIn(in)
  <2>1. in.io_rdata \in AllWords /\ in.pc = pc /\ in.io_respValid \in BOOLEAN
    BY <1>0 DEF Cpu!IfuIn
  <2>2. ic.wdata \in AllWords /\ ic.addr = pc \div 4 /\ ic.wen \in BOOLEAN
    BY <2>1 DEF Cpu!Ifu!IcacheIn, Cpu!Ifu!Filling
  <2> HIDE DEF ic
  <2>3. Cpu!Ifu!Icache!Filled(ic.addr, ic.wdata) \in Cpu!Ifu!Icache!Line
    BY <1>1, <2>2 DEF Cpu!Ifu!Icache!Filled, Cpu!Ifu!Icache!Line
  <2>4. /\ lines' = IF ic.wen
                    THEN [lines EXCEPT ![Cpu!Ifu!Icache!Index(ic.addr)] = Cpu!Ifu!Icache!Filled(ic.addr, ic.wdata)]
                    ELSE lines
        /\ writeValid' = ic.wen
    BY DEF Cpu!Clock, Cpu!Ifu!Clock, Cpu!Ifu!Icache!Clock, ic
  <2>5. lines' \in [0..LINE_N-1 -> Cpu!Ifu!Icache!Line] /\ writeValid' \in BOOLEAN
    BY <2>2, <2>3, <2>4 DEF Cpu!TypeOK, Cpu!Ifu!TypeOK, Cpu!Ifu!Icache!TypeOK
  <2>6. ifu_state' \in Cpu!Ifu!ifu_states
    BY DEF Cpu!TypeOK, Cpu!Ifu!TypeOK, Cpu!Clock, Cpu!Ifu!Clock, Cpu!Ifu!next_state, Cpu!Ifu!ifu_states
  <2>7. QED
    BY <2>5, <2>6 DEF Cpu!Ifu!TypeOK, Cpu!Ifu!Icache!TypeOK, Cpu!Ifu!Icache!Line
<1>3. Cpu!Idu!TypeOK'
  <2>1. Cpu!Ifu!respValid(Cpu!IfuIn(Io)) \in BOOLEAN
    BY DEF Cpu!Ifu!respValid
  <2>2. Cpu!Ifu!inst(Cpu!IfuIn(Io)) \in AllWords
    <3>1. \A a \in 0..Cpu!NWords-1 : Cpu!Ifu!Icache!LineOf(a).data \in AllWords
      <4>1. \A a \in 0..Cpu!NWords-1 : Cpu!Ifu!Icache!Index(a) \in 0..LINE_N-1
        BY BenchAssumption, MapFacts DEF Cpu!Ifu!Icache!Index
      <4>2. QED
        BY <4>1 DEF Cpu!TypeOK, Cpu!Ifu!TypeOK, Cpu!Ifu!Icache!TypeOK, Cpu!Ifu!Icache!Line, Cpu!Ifu!Icache!LineOf
    <3>2. QED
      BY <1>0, <1>1, <3>1 DEF Cpu!Ifu!inst, Cpu!IfuIn, Cpu!Ifu!IcacheIn, Cpu!Ifu!Icache!Rdata
  <2>3. QED
    BY <2>1, <2>2 DEF Cpu!Clock, Cpu!Idu!Clock, Cpu!TypeOK, Cpu!Idu!TypeOK
<1>4. Cpu!Exu!TypeOK'
  BY DEF Cpu!TypeOK, Cpu!Clock, Cpu!Exu!Clock, Cpu!Exu!TypeOK, Cpu!Exu!next_state, Cpu!Exu!exu_states, Cpu!Exu!lsu_or_exec
<1>5. Cpu!Lsu!TypeOK'
  <2>1. lsu_state' \in Cpu!Lsu!lsu_states
    BY DEF Cpu!TypeOK, Cpu!Lsu!TypeOK, Cpu!Clock, Cpu!Lsu!Clock, Cpu!Lsu!next_state, Cpu!Lsu!lsu_states
  <2>2. io_reqValid_q' \in BOOLEAN
    BY DEF Cpu!Clock, Cpu!Lsu!Clock, Cpu!Lsu!io_reqValid_d
  <2>3. first_rdata_q' \in [1..3 -> AllBytes]
    <3>1. Cpu!LsuIn(Io).io_rdata \in Lanes
      BY <1>0 DEF Cpu!LsuIn
    <3>2. QED
      BY <3>1 DEF Cpu!TypeOK, Cpu!Lsu!TypeOK, Cpu!Clock, Cpu!Lsu!Clock, Lanes
  <2>4. QED
    BY <2>1, <2>2, <2>3 DEF Cpu!Lsu!TypeOK
<1>6. (pc \in AllWords)' /\ Cpu!Rf!TypeOK'
  <2>1. Joined(Cpu!Lsu!rdata(Cpu!LsuIn(Io))) \in AllWords
    <3>1. Cpu!LsuIn(Io).addr \in Nat /\ Cpu!LsuIn(Io).io_rdata \in Lanes
      BY <1>0, OperandsType, MapFacts DEF Cpu!LsuIn, AllWords
    <3>2. QED
      BY <3>1, LsuRdataType, SplitJoined DEF Cpu!TypeOK, Cpu!Lsu!TypeOK
  <2>2. /\ Cpu!ExuIn(Io).pc = pc /\ Cpu!ExuIn(Io).dec = Cpu!dec
        /\ Cpu!ExuIn(Io).rdata1 = Cpu!Operands.rdata1 /\ Cpu!ExuIn(Io).rdata2 = Cpu!Operands.rdata2
        /\ Cpu!ExuIn(Io).csr_rdata \in AllWords /\ Cpu!ExuIn(Io).lsu_rdata \in AllWords
    BY <1>0, <2>1 DEF Cpu!ExuIn
  <2>3. Cpu!Exu!pc_inc(Cpu!ExuIn(Io)) \in AllWords
    <3>1. Modulus \in Nat \ {0}
      BY MapFacts
    <3>2. (pc + 4) % Modulus \in AllWords
      BY <1>1, <3>1 DEF AllWords
    <3>3. QED
      BY <2>2, <3>2 DEF Cpu!Exu!pc_inc
  <2>4. Cpu!Exu!alu_res(Cpu!ExuIn(Io)) \in AllWords
    BY <2>2, OperandsType DEF Cpu!Exu!alu_res, Cpu!Exu!alu_lhs, Cpu!Exu!alu_rhs, Cpu!Operands
  <2>5. Cpu!Exu!pc_next(Cpu!ExuIn(Io)) \in AllWords /\ Cpu!Exu!rf_wdata(Cpu!ExuIn(Io)) \in AllWords
    BY <1>1, <2>2, <2>3, <2>4 DEF Cpu!Exu!pc_next, Cpu!Exu!rf_wdata
  <2>6. pc' \in AllWords
    BY <1>1, <2>5 DEF Cpu!Clock
  <2>7. regs' \in [0..N_REGS-1 -> AllWords]
    BY <2>5 DEF Cpu!Clock, Cpu!Rf!Clock, Cpu!TypeOK, Cpu!Rf!TypeOK
  <2>8. QED
    BY <2>6, <2>7 DEF Cpu!Rf!TypeOK, AllWords
<1>7. is_start' \in BOOLEAN /\ ifu_reqValid' \in BOOLEAN
  BY DEF Cpu!Clock, Cpu!AsksNext, Cpu!Retires, Cpu!Exu!respValid, Cpu!TypeOK
<1>8. QED
  BY <1>2, <1>3, <1>4, <1>5, <1>6, <1>7 DEF Cpu!TypeOK

\* The reset state is well typed.
LEMMA ResetType ==
    ASSUME Cpu!TypeOK, Cpu!Reset
    PROVE  Cpu!TypeOK'
<1>s. Cpu!Word = AllWords /\ Cpu!Lane4 = Lanes
  BY SameWords
<1> USE <1>s
<1>1. Cpu!Ifu!TypeOK'
  <2>1. \A i \in 0..LINE_N-1 : [lines[i] EXCEPT !.valid = FALSE] \in Cpu!Ifu!Icache!Line
    BY DEF Cpu!TypeOK, Cpu!Ifu!TypeOK, Cpu!Ifu!Icache!TypeOK, Cpu!Ifu!Icache!Line
  <2>2. lines' \in [0..LINE_N-1 -> Cpu!Ifu!Icache!Line] /\ writeValid' = FALSE
    BY <2>1 DEF Cpu!Reset, Cpu!Ifu!Reset, Cpu!Ifu!Icache!Reset
  <2>3. ifu_state' \in Cpu!Ifu!ifu_states
    BY DEF Cpu!Reset, Cpu!Ifu!Reset, Cpu!Ifu!ifu_states
  <2>4. QED
    BY <2>2, <2>3 DEF Cpu!Ifu!TypeOK, Cpu!Ifu!Icache!TypeOK, Cpu!Ifu!Icache!Line
<1>2. Cpu!Idu!TypeOK' /\ Cpu!Exu!TypeOK'
  BY DEF Cpu!TypeOK, Cpu!Reset, Cpu!Idu!TypeOK, Cpu!Idu!Reset, Cpu!Exu!TypeOK, Cpu!Exu!Reset, Cpu!Exu!exu_states
<1>3. Cpu!Lsu!TypeOK'
  BY MapFacts DEF Cpu!Reset, Cpu!Lsu!TypeOK, Cpu!Lsu!Reset, Cpu!Lsu!lsu_states
<1>4. regs' \in [0..N_REGS-1 -> AllWords] /\ pc' \in AllWords
  BY MapFacts DEF Cpu!Reset, Cpu!Rf!Reset
<1>5. is_start' \in BOOLEAN /\ ifu_reqValid' \in BOOLEAN
  BY DEF Cpu!Reset
<1>6. QED
  BY <1>1, <1>2, <1>3, <1>4, <1>5 DEF Cpu!TypeOK, Cpu!Rf!TypeOK, AllWords

-----------------------------------------------------------------------------
(* Types of the bench and of the golden model.                             *)

\* The types, one by one.
LEMMA BenchTypes ==
    ASSUME TypeOK
    PROVE  /\ BusTyped
           /\ ifu_respTicks \in 0..2 /\ ifu_reqPending \in BOOLEAN /\ ifu_latch \in AllWords
           /\ ifu_waitTicks \in Nat
           /\ lsu_respTicks \in 0..2 /\ lsu_reqPending \in BOOLEAN
           /\ lsu_latch \in Cpu!Lsu!Requests /\ lsu_waitTicks \in Nat
           /\ mem \in [MEM_START..MEM_END-1 -> AllBytes]
           /\ uart \in [0..UART_END-UART_START-1 -> AllBytes]
           /\ g_pc \in AllWords /\ g_regs \in [0..N_REGS-1 -> AllWords]
           /\ g_mem \in [MEM_START..MEM_END-1 -> AllBytes]
           /\ flash \in [FLASH_START..FLASH_END-1 -> AllBytes]
           /\ g_written_address \in AllWords
<1>1. /\ mem \in [MEM_START..MEM_END-1 -> AllBytes]
      /\ g_pc \in AllWords /\ g_regs \in [0..N_REGS-1 -> AllWords]
      /\ g_mem \in [MEM_START..MEM_END-1 -> AllBytes]
      /\ flash \in [FLASH_START..FLASH_END-1 -> AllBytes]
      /\ g_written_address \in AllWords
  BY SameWords DEF TypeOK, Gold!TypeOK
<1>2. uart \in [0..UART_END-UART_START-1 -> AllBytes]
  <2>1. DOMAIN UartReset = 0..UART_END-UART_START-1
    BY MapAssumption
  <2>2. QED
    BY <2>1 DEF TypeOK
<1>3. QED
  BY <1>1, <1>2 DEF TypeOK, BusTyped, IfuChannel!TypeOK, LsuChannel!TypeOK, Lanes

\* No address is in two regions, for the bench or for the golden model.
LEMMA Regions ==
    ASSUME NEW a \in Nat
    PROVE  /\ Gold!InFlash(a) => ~InUart(a) /\ ~Gold!InMem(a) /\ ~Gold!InUartRegs(a)
           /\ Gold!InMem(a) => ~Gold!InFlash(a) /\ ~InUart(a) /\ ~Gold!InUartRegs(a)
           /\ InUart(a) => ~Gold!InFlash(a) /\ ~Gold!InMem(a)
           /\ Gold!InUartRegs(a) => InUart(a)
  BY MapFacts DEF Gold!InFlash, Gold!InMem, InUart, Gold!InUartRegs, Gold!UartRegs

\* A word read from the bus is four bytes.
LEMMA ReadType ==
    ASSUME NEW m \in [MEM_START..MEM_END-1 -> AllBytes],
           NEW u \in [0..UART_END-UART_START-1 -> AllBytes],
           flash \in [FLASH_START..FLASH_END-1 -> AllBytes],
           NEW a \in Nat
    PROVE  v_mem_read(m, u, a) \in Lanes
<1> DEFINE base == 4 * (a \div 4)
<1>1. CASE Gold!InFlash(a)
  <2>1. \A lane \in 0..3 : base + lane \in FLASH_START..FLASH_END-1
    <3>1. /\ FLASH_START \in Nat /\ FLASH_END \in Nat
          /\ FLASH_START % 4 = 0 /\ FLASH_END % 4 = 0
      BY MapFacts
    <3>2. FLASH_START <= a /\ a < FLASH_END - 3
      BY <1>1 DEF Gold!InFlash
    <3>3. QED
      BY <3>1, <3>2
  <2> HIDE DEF base
  <2>2. [lane \in 0..3 |-> flash[base + lane]] \in Lanes
    BY <2>1 DEF Lanes
  <2>3. QED
    BY <1>1, <2>2, Regions DEF v_mem_read, base
<1>2. CASE ~Gold!InFlash(a) /\ InUart(a)
  <2>1. a - UART_START \in 0..UART_END-UART_START-1
    BY <1>2, MapFacts DEF InUart
  <2>2. [lane \in 0..3 |-> u[a - UART_START]] \in Lanes
    BY <2>1 DEF Lanes
  <2>3. QED
    BY <1>2, <2>2, Regions DEF v_mem_read
<1>3. CASE ~Gold!InFlash(a) /\ ~InUart(a) /\ Gold!InMem(a)
  <2>1. \A lane \in 0..3 : base + lane \in MEM_START..MEM_END-1
    <3>1. /\ MEM_START \in Nat /\ MEM_END \in Nat
          /\ MEM_START % 4 = 0 /\ MEM_END % 4 = 0
      BY MapFacts
    <3>2. MEM_START <= a /\ a < MEM_END - 3
      BY <1>3 DEF Gold!InMem
    <3>3. QED
      BY <3>1, <3>2
  <2> HIDE DEF base
  <2>2. [lane \in 0..3 |-> m[base + lane]] \in Lanes
    BY <2>1 DEF Lanes
  <2>3. QED
    BY <1>3, <2>2 DEF v_mem_read, base
<1>4. CASE ~Gold!InFlash(a) /\ ~InUart(a) /\ ~Gold!InMem(a)
  <2>1. Split(0) \in Lanes
    BY MapFacts, JoinedSplit
  <2>2. QED
    BY <1>4, <2>1 DEF v_mem_read
<1>5. QED
  BY <1>1, <1>2, <1>3, <1>4

\* A request of the bus, by its parts.
LEMMA RequestParts ==
    ASSUME NEW req \in Cpu!Lsu!Requests
    PROVE  /\ req.addr \in AllWords /\ req.addr \in Nat /\ req.wdata \in Lanes
           /\ req.wmask \in SUBSET (0..3) /\ req.wen \in BOOLEAN
<1>1. 0..(4 * Cpu!NWords - 1) = AllWords /\ AllWords \subseteq Nat
  BY MapFacts DEF AllWords
<1>2. QED
  BY <1>1 DEF Cpu!Lsu!Requests, Cpu!Lsu!ByteAddr, Cpu!Lsu!BusWord, Cpu!Lsu!Lanes, Lanes

\* What the LSU puts on the bus is a request.
LEMMA LsuRequestType ==
    ASSUME Cpu!TypeOK
    PROVE  Cpu!Lsu!Request(LsuIn) \in Cpu!Lsu!Requests
<1> DEFINE addr == Cpu!Exu!alu_res(Cpu!Operands)
           data == Split(Cpu!Operands.rdata2)
<1>1. /\ LsuIn.addr = addr /\ LsuIn.wdata = data
      /\ LsuIn.is_write = (Cpu!dec.type = "INST_STORE") /\ LsuIn.data_size = Cpu!dec.size
  BY DEF LsuIn, Cpu!LsuIn
<1>2. /\ Cpu!dec.size \in {"LSU_BYTE", "LSU_HALF", "LSU_WORD", "LSU_EXTA"}
  BY DecodeType, SameWords DEF Cpu!TypeOK, Cpu!Idu!TypeOK, Cpu!dec, Cpu!Idu!Decoded
<1>3. addr \in AllWords /\ addr \in Nat /\ data \in Lanes /\ addr % 4 \in 0..3
  <2>1. addr \in AllWords /\ data \in Lanes
    BY OperandsType, JoinedSplit
  <2>2. QED
    BY <2>1, MapFacts DEF AllWords
<1> HIDE DEF addr, data
<1>4. Cpu!Lsu!NextWord(addr) \in Cpu!Lsu!ByteAddr /\ addr \in Cpu!Lsu!ByteAddr
  <2>1. (addr \div 4 + 1) % Cpu!NWords \in 0..Cpu!NWords-1
    BY <1>3, MapFacts
  <2>2. addr \in 0..(4 * Cpu!NWords - 1)
    BY <1>3, MapFacts DEF AllWords
  <2>3. QED
    BY <2>1, <2>2, MapFacts DEF Cpu!Lsu!NextWord, Cpu!Lsu!ByteAddr
<1>5. Cpu!Lsu!io_wdata(LsuIn) \in Cpu!Lsu!BusWord
  <2>1. \A lane \in 0..3 : (lane - (addr % 4)) % 4 \in 0..3
    BY <1>3
  <2>2. Cpu!Lsu!io_wdata(LsuIn) = [lane \in 0..3 |-> data[(lane - (addr % 4)) % 4]]
    BY <1>1 DEF Cpu!Lsu!io_wdata, Cpu!Lsu!Lanes, Cpu!Lsu!addr_offset
  <2>3. \A lane \in 0..3 : data[(lane - (addr % 4)) % 4] \in AllBytes
    BY <1>3, <2>1 DEF Lanes
  <2>4. QED
    BY <2>2, <2>3 DEF Cpu!Lsu!BusWord, Cpu!Lsu!Lanes
<1>6. \A off \in 0..3 : \A size \in {"LSU_BYTE", "LSU_HALF", "LSU_WORD", "LSU_EXTA"} :
        /\ Cpu!Lsu!FirstMask(off, size) \in SUBSET Cpu!Lsu!Lanes
        /\ Cpu!Lsu!SecondMask(off, size) \in SUBSET Cpu!Lsu!Lanes
  BY DEF Cpu!Lsu!FirstMask, Cpu!Lsu!SecondMask, Cpu!Lsu!Lanes
<1>7. Cpu!Lsu!io_wmask(LsuIn) \in SUBSET Cpu!Lsu!Lanes
  BY <1>1, <1>2, <1>3, <1>6 DEF Cpu!Lsu!io_wmask, Cpu!Lsu!addr_offset
<1>8. QED
  BY <1>1, <1>4, <1>5, <1>7 DEF Cpu!Lsu!Request, Cpu!Lsu!Requests, Cpu!Lsu!io_addr

\* The delays of random_range are natural numbers, whatever its bounds.
LEMMA DelaysNat == IfuChannel!Delays \subseteq Nat /\ LsuChannel!Delays \subseteq Nat
  BY BenchAssumption DEF IfuChannel!Delays, LsuChannel!Delays

\* A half period of the IFU's channel: the address sampled, if any, takes the
\* place of the one pending; the one pending may be answered; an answer comes
\* nearer to its end.
LEMMA IfuHalf ==
    ASSUME TypeOK, NEW sampled \in BOOLEAN, SubtickIfu(sampled)
    PROVE  \E answers \in BOOLEAN : \E ticks \in 0..1 :
             /\ ifu_latch' = IF sampled THEN pc ELSE ifu_latch
             /\ answers => ifu_reqPending \/ sampled
             /\ ifu_reqPending' = ((ifu_reqPending \/ sampled) /\ ~answers)
             /\ ifu_respTicks <= 1 => ticks = 0
             /\ ifu_respTicks' = IF answers THEN 2 ELSE ticks
             /\ ifu_respValid' = (answers \/ (ifu_respValid /\ ticks # 0))
             /\ ifu_waitTicks' \in Nat
             /\ answers => ifu_rdata' = Joined(v_mem_read(mem, uart, ifu_latch'))
             /\ ~answers => ifu_rdata' = ifu_rdata
<1>1. PICK delay \in IfuChannel!Delays :
        /\ IfuChannel!Subtick(sampled, Cpu!Ifu!io_addr(IfuIn), delay)
        /\ ifu_rdata' =
             IF IfuChannel!Answers(sampled, delay)
             THEN Joined(v_mem_read(mem, uart, IfuChannel!Latched(sampled, Cpu!Ifu!io_addr(IfuIn))))
             ELSE ifu_rdata
  BY DEF SubtickIfu
<1>2. Cpu!Ifu!io_addr(IfuIn) = pc
  BY DEF Cpu!Ifu!io_addr, IfuIn, Cpu!IfuIn
<1> DEFINE answers == IfuChannel!Answers(sampled, delay)
           ticks   == IfuChannel!Decremented(ifu_respTicks)
<1>3. /\ ifu_latch' = IfuChannel!Latched(sampled, pc)
      /\ ifu_respTicks' = IF answers THEN 2 ELSE ticks
      /\ ifu_respValid' = (answers \/ (ifu_respValid /\ ticks # 0))
      /\ ifu_reqPending' = ((ifu_reqPending \/ sampled) /\ ~answers)
      /\ ifu_waitTicks' = IfuChannel!WaitLeft(sampled, delay)
  BY <1>1, <1>2 DEF IfuChannel!Subtick, IfuChannel!Pends
<1>4. answers \in BOOLEAN /\ (answers => ifu_reqPending \/ sampled)
  BY DEF IfuChannel!Answers
<1>5. ticks \in 0..1 /\ (ifu_respTicks <= 1 => ticks = 0)
  BY BenchTypes DEF IfuChannel!Decremented
<1>6. delay \in Nat
  BY DelaysNat
<1>7. ifu_waitTicks' \in Nat
  BY <1>3, <1>6, BenchTypes DEF IfuChannel!WaitLeft, IfuChannel!Decremented
<1>8. ifu_latch' = IF sampled THEN pc ELSE ifu_latch
  BY <1>3 DEF IfuChannel!Latched
<1> HIDE DEF answers, ticks
<1>9. /\ answers => ifu_rdata' = Joined(v_mem_read(mem, uart, ifu_latch'))
      /\ ~answers => ifu_rdata' = ifu_rdata
  BY <1>1, <1>2, <1>3 DEF answers
<1>10. QED
  BY <1>3, <1>4, <1>5, <1>7, <1>8, <1>9

\* A half period of the LSU's channel, likewise: the bench writes, then reads.
LEMMA LsuHalf ==
    ASSUME TypeOK, NEW sampled \in BOOLEAN, SubtickLsu(sampled)
    PROVE  \E answers \in BOOLEAN : \E ticks \in 0..1 : \E req \in Cpu!Lsu!Requests :
             /\ req = IF sampled THEN Cpu!Lsu!Request(LsuIn) ELSE lsu_latch
             /\ lsu_latch' = req
             /\ answers => lsu_reqPending \/ sampled
             /\ lsu_reqPending' = ((lsu_reqPending \/ sampled) /\ ~answers)
             /\ lsu_respTicks <= 1 => ticks = 0
             /\ lsu_respTicks' = IF answers THEN 2 ELSE ticks
             /\ lsu_respValid' = (answers \/ (lsu_respValid /\ ticks # 0))
             /\ lsu_waitTicks' \in Nat
             /\ answers => v_mem_write(req) /\ lsu_rdata' = v_mem_read(mem', uart', req.addr)
             /\ ~answers => UNCHANGED busVars /\ lsu_rdata' = lsu_rdata
<1> DEFINE req == IF sampled THEN Cpu!Lsu!Request(LsuIn) ELSE lsu_latch
<1>0. req \in Cpu!Lsu!Requests
  BY LsuRequestType, BenchTypes DEF TypeOK
<1>r. LsuChannel!Latched(sampled, Cpu!Lsu!Request(LsuIn)) = req
  BY DEF LsuChannel!Latched
<1> HIDE DEF req
<1>1. PICK delay \in LsuChannel!Delays :
        /\ LsuChannel!Subtick(sampled, Cpu!Lsu!Request(LsuIn), delay)
        /\ IF LsuChannel!Answers(sampled, delay) THEN v_mem_write(req) ELSE UNCHANGED busVars
        /\ lsu_rdata' = IF LsuChannel!Answers(sampled, delay)
                        THEN v_mem_read(mem', uart', req.addr) ELSE lsu_rdata
  BY <1>r DEF SubtickLsu
<1> DEFINE answers == LsuChannel!Answers(sampled, delay)
           ticks   == LsuChannel!Decremented(lsu_respTicks)
<1>3. /\ lsu_latch' = req
      /\ lsu_respTicks' = IF answers THEN 2 ELSE ticks
      /\ lsu_respValid' = (answers \/ (lsu_respValid /\ ticks # 0))
      /\ lsu_reqPending' = ((lsu_reqPending \/ sampled) /\ ~answers)
      /\ lsu_waitTicks' = LsuChannel!WaitLeft(sampled, delay)
  BY <1>1, <1>r DEF LsuChannel!Subtick, LsuChannel!Pends
<1>4. answers \in BOOLEAN /\ (answers => lsu_reqPending \/ sampled)
  BY DEF LsuChannel!Answers
<1>5. ticks \in 0..1 /\ (lsu_respTicks <= 1 => ticks = 0)
  BY BenchTypes DEF LsuChannel!Decremented
<1>6. delay \in Nat
  BY DelaysNat
<1>7. lsu_waitTicks' \in Nat
  BY <1>3, <1>6, BenchTypes DEF LsuChannel!WaitLeft, LsuChannel!Decremented
<1>8. /\ answers => v_mem_write(req) /\ lsu_rdata' = v_mem_read(mem', uart', req.addr)
      /\ ~answers => UNCHANGED busVars /\ lsu_rdata' = lsu_rdata
  BY <1>1
<1>9. req = IF sampled THEN Cpu!Lsu!Request(LsuIn) ELSE lsu_latch
  BY DEF req
<1> HIDE DEF answers, ticks
<1>10. QED
  BY <1>0, <1>3, <1>4, <1>5, <1>7, <1>8, <1>9

\* What the bench writes is typed.
LEMMA WriteType ==
    ASSUME TypeOK, NEW req \in Cpu!Lsu!Requests, v_mem_write(req)
    PROVE  /\ mem' \in [MEM_START..MEM_END-1 -> AllBytes]
           /\ uart' \in [0..UART_END-UART_START-1 -> AllBytes]
           /\ is_mem_write' \in BOOLEAN /\ written_address' \in AllWords
           /\ printed' \in Seq(AllBytes)
<1>1. /\ req.addr \in AllWords /\ req.addr \in Nat
      /\ req.wmask \in SUBSET (0..3) /\ req.wen \in BOOLEAN
      /\ req.wdata \in [0..3 -> AllBytes]
  BY RequestParts DEF Lanes
<1>2. req.wdata[req.addr % 4] \in AllBytes
  BY <1>1
<1>3. mem' \in [MEM_START..MEM_END-1 -> AllBytes]
  <2>1. /\ mem \in [MEM_START..MEM_END-1 -> AllBytes]
        /\ \A a \in MEM_START..MEM_END-1 : a % 4 \in 0..3
    BY BenchTypes, MapFacts
  <2>2. mem' = [a \in DOMAIN mem |->
                  IF /\ req.wen /\ Gold!InMem(req.addr)
                     /\ a \div 4 = req.addr \div 4
                     /\ a % 4 \in req.wmask
                  THEN req.wdata[a % 4] ELSE mem[a]]
    BY DEF v_mem_write
  <2>3. QED
    BY <1>1, <2>1, <2>2
<1>4. uart' \in [0..UART_END-UART_START-1 -> AllBytes]
  BY <1>2, BenchTypes DEF v_mem_write
<1>5. printed' \in Seq(AllBytes)
  BY <1>2 DEF v_mem_write, TypeOK
<1>6. is_mem_write' \in BOOLEAN /\ written_address' \in AllWords
  BY <1>1 DEF v_mem_write, TypeOK
<1>7. QED
  BY <1>3, <1>4, <1>5, <1>6

\* A half period keeps the types.
LEMMA SubtickType ==
    ASSUME TypeOK, NEW s1 \in BOOLEAN, NEW s2 \in BOOLEAN, SubtickIfu(s1), SubtickLsu(s2),
           UNCHANGED <<cpuVars, goldVars, testVars>>,
           phase' \in {"high", "low", "edge", "compare"}
    PROVE  TypeOK'
<1>1. /\ ifu_respTicks' \in 0..2 /\ ifu_reqPending' \in BOOLEAN /\ ifu_latch' \in AllWords
      /\ ifu_waitTicks' \in Nat /\ ifu_respValid' \in BOOLEAN /\ ifu_rdata' \in AllWords
  <2>1. PICK answers \in BOOLEAN, ticks \in 0..1 :
             /\ ifu_latch' = IF s1 THEN pc ELSE ifu_latch
             /\ ifu_reqPending' = ((ifu_reqPending \/ s1) /\ ~answers)
             /\ ifu_respTicks' = IF answers THEN 2 ELSE ticks
             /\ ifu_respValid' = (answers \/ (ifu_respValid /\ ticks # 0))
             /\ ifu_waitTicks' \in Nat
             /\ answers => ifu_rdata' = Joined(v_mem_read(mem, uart, ifu_latch'))
             /\ ~answers => ifu_rdata' = ifu_rdata
    BY IfuHalf
  <2>2. pc \in AllWords
    BY SameWords DEF TypeOK, Cpu!TypeOK
  <2>3. ifu_latch' \in AllWords /\ ifu_latch' \in Nat
    <3>1. ifu_latch' \in AllWords
      BY <2>1, <2>2, BenchTypes
    <3>2. AllWords \subseteq Nat
      BY MapFacts DEF AllWords
    <3>3. QED
      BY <3>1, <3>2
  <2>4. Joined(v_mem_read(mem, uart, ifu_latch')) \in AllWords
    BY <2>3, ReadType, BenchTypes, SplitJoined
  <2>5. ifu_rdata' \in AllWords
    BY <2>1, <2>4, BenchTypes DEF BusTyped
  <2>6. QED
    BY <2>1, <2>3, <2>5
<1>2. /\ lsu_respTicks' \in 0..2 /\ lsu_reqPending' \in BOOLEAN
      /\ lsu_latch' \in Cpu!Lsu!Requests /\ lsu_waitTicks' \in Nat
      /\ lsu_respValid' \in BOOLEAN /\ lsu_rdata' \in Lanes
      /\ mem' \in [MEM_START..MEM_END-1 -> AllBytes]
      /\ uart' \in [0..UART_END-UART_START-1 -> AllBytes]
      /\ is_mem_write' \in BOOLEAN /\ written_address' \in AllWords
      /\ printed' \in Seq(AllBytes)
  <2>1. PICK answers \in BOOLEAN, ticks \in 0..1, req \in Cpu!Lsu!Requests :
             /\ lsu_latch' = req
             /\ lsu_reqPending' = ((lsu_reqPending \/ s2) /\ ~answers)
             /\ lsu_respTicks' = IF answers THEN 2 ELSE ticks
             /\ lsu_respValid' = (answers \/ (lsu_respValid /\ ticks # 0))
             /\ lsu_waitTicks' \in Nat
             /\ answers => v_mem_write(req) /\ lsu_rdata' = v_mem_read(mem', uart', req.addr)
             /\ ~answers => UNCHANGED busVars /\ lsu_rdata' = lsu_rdata
    BY LsuHalf
  <2>2. CASE answers
    <3>1. /\ mem' \in [MEM_START..MEM_END-1 -> AllBytes]
          /\ uart' \in [0..UART_END-UART_START-1 -> AllBytes]
          /\ is_mem_write' \in BOOLEAN /\ written_address' \in AllWords
          /\ printed' \in Seq(AllBytes)
      BY <2>1, <2>2, WriteType
    <3>2. lsu_rdata' \in Lanes
      BY <2>1, <2>2, <3>1, ReadType, BenchTypes, RequestParts
    <3>3. QED
      BY <2>1, <2>2, <3>1, <3>2
  <2>3. CASE ~answers
    BY <2>1, <2>3, BenchTypes DEF BusTyped, busVars, TypeOK
  <2>4. QED
    BY <2>2, <2>3
<1>3. Cpu!TypeOK'
  BY DEF TypeOK, cpuVars, Cpu!TypeOK, Cpu!Ifu!TypeOK, Cpu!Ifu!Icache!TypeOK, Cpu!Ifu!Icache!Line,
     Cpu!Idu!TypeOK, Cpu!Exu!TypeOK, Cpu!Lsu!TypeOK, Cpu!Rf!TypeOK
<1>4. Gold!TypeOK'
  <2>1. vuart' \in [Gold!UartRegs -> AllBytes]
    <3>1. \A reg \in {0, 1, 2, 3, 5, 6} : reg \in 0..UART_END-UART_START-1
      BY MapFacts
    <3>2. QED
      BY <1>2, <3>1 DEF vuart, Gold!UartRegs
  <2>2. QED
    BY <2>1, SameWords DEF TypeOK, Gold!TypeOK, goldVars
<1>5. uart' \in [DOMAIN UartReset -> AllBytes]
  BY <1>2, MapAssumption
<1>6. QED
  BY <1>1, <1>2, <1>3, <1>4, <1>5
  DEF TypeOK, IfuChannel!TypeOK, LsuChannel!TypeOK, goldVars, testVars, n_insts, Lanes

\* The fields of the instruction the golden model executes, its operands and
\* what its ALU makes of them.
GoldDec == Gold!decode(GoldFields)

GoldL == Gold!alu_lhs(GoldDec, Gold!rf_read(GoldFields.rs1))
GoldR == Gold!alu_rhs(GoldDec, Gold!rf_read(GoldFields.rs2))

\* What the golden model reads is a word.
LEMMA GoldReadType ==
    ASSUME TypeOK, NEW a \in Nat
    PROVE  Gold!g_mem_read(a) \in AllWords
<1>1. CASE Gold!InFlash(a)
  <2>1. \A lane \in 0..3 : a + lane \in FLASH_START..FLASH_END-1
    BY <1>1, MapFacts DEF Gold!InFlash
  <2>2. [lane \in 0..3 |-> flash[a + lane]] \in Lanes
    BY <2>1, BenchTypes DEF Lanes
  <2>3. QED
    BY <1>1, <2>2, Regions, SplitJoined, SameBytes DEF Gold!g_mem_read
<1>2. CASE Gold!InMem(a)
  <2>1. \A lane \in 0..3 : a + lane \in MEM_START..MEM_END-1
    BY <1>2, MapFacts DEF Gold!InMem
  <2>2. [lane \in 0..3 |-> g_mem[a + lane]] \in Lanes
    BY <2>1, BenchTypes DEF Lanes
  <2>3. QED
    BY <1>2, <2>2, Regions, SplitJoined, SameBytes DEF Gold!g_mem_read
<1>3. CASE Gold!InUartRegs(a)
  <2>1. vuart[a - UART_START] \in AllBytes
    <3>1. a - UART_START \in {0, 1, 2, 3, 5, 6}
      BY <1>3 DEF Gold!InUartRegs, Gold!UartRegs
    <3>2. a - UART_START \in 0..UART_END-UART_START-1
      BY <3>1, MapFacts
    <3>3. QED
      BY <3>1, <3>2, BenchTypes DEF vuart
  <2>2. [lane \in 0..3 |-> vuart[a - UART_START]] \in Lanes
    BY <2>1 DEF Lanes
  <2>3. QED
    BY <1>3, <2>2, Regions, SplitJoined, SameBytes DEF Gold!g_mem_read
<1>4. CASE ~Gold!InFlash(a) /\ ~Gold!InMem(a) /\ ~Gold!InUartRegs(a)
  BY <1>4, MapFacts DEF Gold!g_mem_read
<1>5. QED
  BY <1>1, <1>2, <1>3, <1>4

\* The instruction the golden model executes, in terms of words.
LEMMA GoldTypes ==
    ASSUME TypeOK
    PROVE  /\ Gold!g_mem_read(g_pc - (g_pc % 4)) \in AllWords
           /\ GoldFields.funct3 \in 0..7 /\ GoldFields.sub \in BOOLEAN
           /\ GoldFields.rd \in Nat /\ GoldFields.rs1 \in Nat /\ GoldFields.rs2 \in Nat
           /\ GoldFields.imm \in AllWords
           /\ GoldDec.alu_op \in 0..8 \cup {13}
           /\ \A r \in Nat : Gold!rf_read(r) \in AllWords
           /\ GoldL \in AllWords /\ GoldR \in AllWords
           /\ GoldAddr = Gold!alu_eval(GoldDec.alu_op, GoldL, GoldR)
           /\ GoldAddr = AluI!alu(GoldDec.alu_op, GoldL, GoldR)
           /\ GoldAddr \in AllWords
<1> DEFINE w == Gold!g_mem_read(g_pc - (g_pc % 4))
<1>1. g_pc \in AllWords /\ g_pc \in Nat /\ 0 \in AllWords
  BY BenchTypes, MapFacts DEF AllWords
<1>2. w \in AllWords
  <2>1. g_pc - (g_pc % 4) \in Nat
    BY <1>1
  <2>2. QED
    BY <2>1, GoldReadType
<1>3. /\ GoldFields.funct3 \in 0..7 /\ GoldFields.sub \in BOOLEAN
      /\ GoldFields.rd \in RegNums /\ GoldFields.rs1 \in RegNums /\ GoldFields.rs2 \in RegNums
      /\ GoldFields.imm \in AllWords
  BY <1>2, FieldsAssumption DEF GoldFields
<1>4. GoldFields.rd \in Nat /\ GoldFields.rs1 \in Nat /\ GoldFields.rs2 \in Nat
  BY <1>3, BenchAssumption
<1>5. \A r \in Nat : Gold!rf_read(r) \in AllWords
  <2>1. \A r \in Nat : r < N_REGS => r \in 0..N_REGS-1
    BY BenchAssumption
  <2>2. QED
    BY <1>1, <2>1, BenchTypes DEF Gold!rf_read
<1>6. GoldDec.alu_op \in 0..8 \cup {13}
  <2>1. GoldDec.alu_op = Gold!alu_op(GoldFields)
    BY DEF GoldDec, Gold!decode
  <2>2. QED
    BY <1>3, <2>1 DEF Gold!alu_op
<1>7. GoldDec.imm \in AllWords
  BY <1>1, <1>3 DEF GoldDec, Gold!decode
<1>8. GoldL \in AllWords /\ GoldR \in AllWords
  BY <1>1, <1>4, <1>5, <1>7 DEF GoldL, GoldR, Gold!alu_lhs, Gold!alu_rhs
<1>9. GoldAddr = Gold!alu_eval(GoldDec.alu_op, GoldL, GoldR)
  BY DEF GoldAddr, GoldL, GoldR, GoldDec
<1>10. GoldAddr = AluI!alu(GoldDec.alu_op, GoldL, GoldR)
  BY <1>6, <1>8, <1>9, SameAlu
<1>11. GoldDec.alu_op \in 0..15
  BY <1>6
<1>12. GoldAddr \in AllWords
  BY <1>8, <1>10, <1>11, AluType
<1>13. QED
  BY <1>2, <1>3, <1>4, <1>5, <1>6, <1>8, <1>9, <1>10, <1>12

\* One instruction of the golden model, told by the parts of the invariants.
LEMMA GoldStep ==
    ASSUME TypeOK, Gold!cpu_eval
    PROVE  /\ g_regs' = IF /\ GoldDec.inst_type \notin {"INST_STORE", "INST_BRANCH", "INST_UNDEFINED"}
                           /\ GoldFields.rd # 0 /\ GoldFields.rd < N_REGS
                        THEN [g_regs EXCEPT ![GoldFields.rd] = Gold!reg_wdata(GoldDec, GoldAddr)]
                        ELSE g_regs
           /\ g_is_mem_write' = (GoldDec.inst_type = "INST_STORE")
           /\ g_written_address' = IF GoldDec.inst_type = "INST_STORE" THEN GoldAddr
                                   ELSE g_written_address
           /\ g_mem' = [a \in DOMAIN g_mem |->
                          IF /\ GoldDec.inst_type = "INST_STORE" /\ Gold!InMem(GoldAddr)
                             /\ a - GoldAddr \in Gold!mem_wbmask(GoldFields)
                          THEN Split(Gold!rf_read(GoldFields.rs2))[a - GoldAddr] ELSE g_mem[a]]
           /\ g_pc' = IF \/ GoldDec.inst_type \in {"INST_JUMP", "INST_JUMPR"}
                         \/ /\ GoldDec.inst_type = "INST_BRANCH"
                            /\ Gold!compare(GoldDec.com_op, Gold!rf_read(GoldFields.rs1),
                                            Gold!rf_read(GoldFields.rs2))
                      THEN GoldAddr ELSE (g_pc + 4) % Modulus
           /\ g_is_not_mapped' = (g_is_not_mapped \/ Gold!Unmapped(GoldDec, GoldAddr))
           /\ g_ebreak' = GoldDec.ebreak
           /\ flash' = flash
<1>1. GoldDec.mem_wbmask = Gold!mem_wbmask(GoldFields)
  BY DEF GoldDec, Gold!decode
<1>2. Gold!Split(Gold!rf_read(GoldFields.rs2)) = Split(Gold!rf_read(GoldFields.rs2))
  BY SameBytes
<1>3. Gold!Modulus = Modulus
  BY SameWords
<1>4. Gold!cpu_eval <=>
        /\ Gold!rf_write(GoldDec.inst_type \notin {"INST_STORE", "INST_BRANCH", "INST_UNDEFINED"},
                         GoldFields.rd, Gold!reg_wdata(GoldDec, GoldAddr))
        /\ Gold!g_mem_write(GoldDec.inst_type = "INST_STORE", GoldDec.mem_wbmask, GoldAddr,
                            Gold!rf_read(GoldFields.rs2))
        /\ g_pc' = IF \/ GoldDec.inst_type \in {"INST_JUMP", "INST_JUMPR"}
                      \/ /\ GoldDec.inst_type = "INST_BRANCH"
                         /\ Gold!compare(GoldDec.com_op, Gold!rf_read(GoldFields.rs1),
                                         Gold!rf_read(GoldFields.rs2))
                   THEN GoldAddr ELSE (g_pc + 4) % Gold!Modulus
        /\ g_is_not_mapped' = (g_is_not_mapped \/ Gold!Unmapped(GoldDec, GoldAddr))
        /\ g_ebreak' = GoldDec.ebreak
        /\ UNCHANGED flash
  BY DEF Gold!cpu_eval, GoldDec, GoldFields, GoldAddr
<1>5. QED
  BY <1>1, <1>2, <1>3, <1>4 DEF Gold!rf_write, Gold!g_mem_write

\* An instruction keeps the types of the golden model.
LEMMA GoldType ==
    ASSUME TypeOK, Gold!cpu_eval
    PROVE  /\ g_pc' \in AllWords /\ g_regs' \in [0..N_REGS-1 -> AllWords]
           /\ g_mem' \in [MEM_START..MEM_END-1 -> AllBytes]
           /\ flash' = flash
           /\ g_ebreak' \in BOOLEAN /\ g_is_not_mapped' \in BOOLEAN
           /\ g_is_mem_write' \in BOOLEAN /\ g_written_address' \in AllWords
<1>1. (g_pc + 4) % Modulus \in AllWords
  <2>1. Modulus \in Nat \ {0} /\ g_pc \in Nat
    BY BenchTypes, MapFacts DEF AllWords
  <2>2. QED
    BY <2>1 DEF AllWords
<1>2. GoldAddr \in AllWords /\ GoldAddr \in Nat /\ GoldFields.imm \in AllWords
  BY GoldTypes, MapFacts DEF AllWords
<1>3. g_pc' \in AllWords
  BY <1>1, <1>2, GoldStep
<1>4. Gold!reg_wdata(GoldDec, GoldAddr) \in AllWords
  <2>1. Gold!g_mem_read(GoldAddr) \in AllWords
    BY <1>2, GoldReadType
  <2>2. GoldDec.is_mem_sign \in BOOLEAN
    BY DEF GoldDec, Gold!decode
  <2>3. \A n \in {1, 2} : Gold!Extended(Gold!g_mem_read(GoldAddr), n, GoldDec.is_mem_sign) \in AllWords
    <3> TAKE n \in {1, 2}
    <3> DEFINE l == Split(Gold!g_mem_read(GoldAddr))
    <3>1. l \in Lanes /\ Joined(l) = Gold!g_mem_read(GoldAddr)
      BY <2>1, JoinedSplit
    <3> HIDE DEF l
    <3>2. Extended(Joined(l), n, GoldDec.is_mem_sign) \in AllWords
      BY <2>2, <3>1, ExtendedIs, SplitJoined
    <3>3. QED
      BY <3>1, <3>2, SameBytes
  <2>4. GoldDec.imm \in AllWords
    BY <1>2, MapFacts DEF GoldDec, Gold!decode
  <2>5. (g_pc + 4) % Gold!Modulus \in AllWords
    BY <1>1, SameWords
  <2>6. QED
    BY <1>2, <2>1, <2>3, <2>4, <2>5 DEF Gold!reg_wdata
<1>5. g_regs' \in [0..N_REGS-1 -> AllWords]
  <2>1. g_regs \in [0..N_REGS-1 -> AllWords]
    BY BenchTypes
  <2>2. \A r, v : v \in AllWords => [g_regs EXCEPT ![r] = v] \in [0..N_REGS-1 -> AllWords]
    BY <2>1
  <2>3. QED
    BY <1>4, <2>1, <2>2, GoldStep
<1>6. g_mem' \in [MEM_START..MEM_END-1 -> AllBytes]
  <2> DEFINE data == Split(Gold!rf_read(GoldFields.rs2))
  <2>1. data \in [0..3 -> AllBytes]
    BY GoldTypes, JoinedSplit DEF Lanes
  <2>2. Gold!mem_wbmask(GoldFields) \subseteq 0..3
    BY DEF Gold!mem_wbmask
  <2> HIDE DEF data
  <2>3. g_mem \in [MEM_START..MEM_END-1 -> AllBytes]
    BY BenchTypes
  <2>4. g_mem' = [a \in DOMAIN g_mem |->
                          IF /\ GoldDec.inst_type = "INST_STORE" /\ Gold!InMem(GoldAddr)
                             /\ a - GoldAddr \in Gold!mem_wbmask(GoldFields)
                          THEN data[a - GoldAddr] ELSE g_mem[a]]
    BY GoldStep DEF data
  <2>5. \A x \in Gold!mem_wbmask(GoldFields) : data[x] \in AllBytes
    BY <2>1, <2>2
  <2>6. QED
    BY <2>3, <2>4, <2>5
<1>7. g_is_mem_write' \in BOOLEAN
  BY GoldStep
<1>8. g_written_address' \in AllWords
  BY <1>2, GoldStep, BenchTypes
<1>9. g_ebreak' \in BOOLEAN
  BY GoldStep DEF GoldDec, Gold!decode
<1>10. g_is_not_mapped' \in BOOLEAN
  <2>1. g_is_not_mapped \in BOOLEAN
    BY DEF TypeOK, Gold!TypeOK
  <2>2. Gold!Unmapped(GoldDec, GoldAddr) \in BOOLEAN
    BY DEF Gold!Unmapped
  <2>3. QED
    BY <2>1, <2>2, GoldStep
<1>11. QED
  BY <1>3, <1>5, <1>6, <1>7, <1>8, <1>9, <1>10, GoldStep

\* As long as a test runs, it has room for one more retirement.
Counted == running /\ phase # "compare" => instrets <= n_insts

\* A rising edge keeps the types.
LEMMA EdgeType ==
    ASSUME TypeOK, Counted, Edge
    PROVE  TypeOK' /\ Counted'
<1>1. Cpu!TypeOK'
  BY ClockType, BenchTypes DEF Edge, TypeOK
<1>2. UNCHANGED <<ifuVars, lsuVars, busVars>> /\ insts' = insts /\ running' = running
      /\ is_test_success' = is_test_success /\ tests' = tests
  BY DEF Edge, testVars
<1>3. /\ IfuChannel!TypeOK' /\ ifu_rdata' \in AllWords
      /\ LsuChannel!TypeOK' /\ lsu_rdata' \in [0..3 -> AllBytes]
      /\ mem' \in [MEM_START..MEM_END-1 -> AllBytes]
      /\ uart' \in [DOMAIN UartReset -> AllBytes]
      /\ is_mem_write' \in BOOLEAN /\ written_address' \in AllWords
      /\ printed' \in Seq(AllBytes)
      /\ insts' \in Programs /\ {running', is_test_success'} \subseteq BOOLEAN
      /\ tests' \in 1..MaxTests
  BY <1>2 DEF TypeOK, ifuVars, lsuVars, busVars, IfuChannel!TypeOK, LsuChannel!TypeOK
<1>4. vuart' = vuart
  BY <1>2 DEF vuart, busVars
<1>5. CASE Cpu!Retires(Io)
  <2>1. /\ Gold!cpu_eval /\ Sends /\ instrets' = instrets + 1 /\ phase' = "compare"
        /\ running /\ phase = "edge"
    BY <1>5 DEF Edge
  <2>2. Gold!TypeOK'
    BY <1>4, <2>1, GoldType, SameWords DEF TypeOK, Gold!TypeOK
  <2>3. sent' \in Seq(AllBytes)
    <3> DEFINE byte == Gold!rf_read(GoldFields.rs2) % ByteSize
    <3>1. byte \in AllBytes
      <4>1. Gold!rf_read(GoldFields.rs2) \in Nat /\ ByteSize \in Nat \ {0}
        BY GoldTypes, Sizes DEF AllWords
      <4>2. QED
        BY <4>1 DEF AllBytes
    <3> HIDE DEF byte
    <3>2. 4 * (g_pc \div 4) = g_pc - (g_pc % 4)
      <4>1. g_pc \in Nat
        BY BenchTypes, MapFacts DEF AllWords
      <4>2. QED
        BY <4>1
    <3>3. sent' = Append(sent, byte) \/ sent' = sent
      BY <2>1, <3>2 DEF Sends, byte, GoldFields
    <3>4. sent \in Seq(AllBytes)
      BY DEF TypeOK
    <3>5. QED
      BY <3>1, <3>3, <3>4
  <2>4. instrets' \in 0..(n_insts + 1)'
    <3>1. instrets \in 0..(n_insts + 1) /\ instrets <= n_insts
      BY <2>1 DEF TypeOK, Counted
    <3>2. n_insts \in Nat /\ n_insts' = n_insts
      BY <1>2, ProgramsAssumption DEF TypeOK, n_insts
    <3>3. QED
      BY <2>1, <3>1, <3>2
  <2>5. Counted'
    BY <2>1 DEF Counted
  <2>6. QED
    BY <1>1, <1>3, <2>1, <2>2, <2>3, <2>4, <2>5 DEF TypeOK
<1>6. CASE ~Cpu!Retires(Io)
  <2>1. UNCHANGED <<goldVars, testVars>> /\ phase' = "high"
    BY <1>6 DEF Edge
  <2>2. Gold!TypeOK'
    BY <1>4, <2>1, SameWords DEF TypeOK, Gold!TypeOK, goldVars
  <2>3. sent' \in Seq(AllBytes) /\ instrets' \in 0..(n_insts + 1)'
    BY <2>1 DEF TypeOK, goldVars, testVars, n_insts
  <2>4. Counted'
    BY <2>1 DEF Counted, Edge, testVars, n_insts
  <2>5. QED
    BY <1>1, <1>3, <2>1, <2>2, <2>3, <2>4 DEF TypeOK
<1>7. QED
  BY <1>5, <1>6

\* So does the comparison.
LEMMA CompareType ==
    ASSUME TypeOK, Compare
    PROVE  TypeOK' /\ Counted'
<1>1. /\ UNCHANGED <<cpuVars, ifuVars, lsuVars, busVars, g_pc, g_regs, g_mem, flash, g_ebreak,
                     g_is_mem_write, g_written_address, sent, insts, instrets, tests>>
      /\ phase' = "high"
  BY DEF Compare
<1>2. /\ running' \in BOOLEAN /\ is_test_success' \in BOOLEAN /\ g_is_not_mapped' \in BOOLEAN
      /\ running' => instrets <= n_insts
  BY DEF Compare, compare_vcpu_gold, is_valid_pc_address, TypeOK, Gold!TypeOK
<1>3. Cpu!TypeOK'
  BY <1>1 DEF TypeOK, cpuVars, Cpu!TypeOK, Cpu!Ifu!TypeOK, Cpu!Ifu!Icache!TypeOK,
     Cpu!Ifu!Icache!Line, Cpu!Idu!TypeOK, Cpu!Exu!TypeOK, Cpu!Lsu!TypeOK, Cpu!Rf!TypeOK
<1>4. Gold!TypeOK'
  <2>1. vuart' = vuart
    BY <1>1 DEF vuart, busVars
  <2>2. QED
    BY <1>1, <1>2, <2>1, SameWords DEF TypeOK, Gold!TypeOK
<1>5. Counted'
  BY <1>1, <1>2 DEF Counted, n_insts
<1>6. QED
  BY <1>1, <1>2, <1>3, <1>4, <1>5
  DEF TypeOK, IfuChannel!TypeOK, LsuChannel!TypeOK, ifuVars, lsuVars, busVars, n_insts

\* A program loaded into the flash leaves it a function from addresses to bytes.
LEMMA LoadedType ==
    ASSUME NEW p \in Programs, NEW old \in [FLASH_START..FLASH_END-1 -> AllBytes]
    PROVE  Loaded(p, old) \in [FLASH_START..FLASH_END-1 -> AllBytes]
<1> SUFFICES ASSUME NEW a \in FLASH_START..FLASH_END-1, a - FLASH_START < 4 * Len(p)
             PROVE  Split(p[(a - FLASH_START) \div 4 + 1])[(a - FLASH_START) % 4] \in AllBytes
  BY DEF Loaded
<1>1. p \in Seq(AllWords) /\ Len(p) \in Nat
  BY ProgramsAssumption
<1>2. a - FLASH_START \in Nat
  BY MapFacts
<1>3. (a - FLASH_START) \div 4 + 1 \in 1..Len(p) /\ (a - FLASH_START) % 4 \in 0..3
  BY <1>1, <1>2
<1>4. p[(a - FLASH_START) \div 4 + 1] \in AllWords
  BY <1>1, <1>3
<1>5. QED
  BY <1>3, <1>4, JoinedSplit DEF Lanes

\* A test starts with a request that asks for nothing.
LEMMA NoRequestType == NoRequest \in Cpu!Lsu!Requests
<1>1. Split(0) \in [0..3 -> AllBytes]
  BY MapFacts, JoinedSplit DEF Lanes
<1>2. 0 \in 0..(4 * Cpu!NWords - 1)
  BY MapFacts
<1>3. QED
  BY <1>1, <1>2
  DEF NoRequest, Cpu!Lsu!Requests, Cpu!Lsu!ByteAddr, Cpu!Lsu!BusWord, Cpu!Lsu!Lanes

\* The next test starts well typed.
LEMMA NextTestType ==
    ASSUME TypeOK, NextTest
    PROVE  TypeOK' /\ Counted'
<1>1. Cpu!TypeOK'
  BY ResetType DEF NextTest, TypeOK
<1>2. IfuChannel!TypeOK' /\ ifu_rdata' \in AllWords /\ LsuChannel!TypeOK'
      /\ lsu_rdata' \in [0..3 -> AllBytes]
  <2>1. /\ ifu_latch' = 0 /\ ifu_respTicks' = 0 /\ ifu_waitTicks' = 0 /\ ifu_reqPending' = FALSE
        /\ lsu_latch' = NoRequest /\ lsu_respTicks' = 0 /\ lsu_waitTicks' = 0
        /\ lsu_reqPending' = FALSE
        /\ UNCHANGED <<ifu_respValid, ifu_rdata, lsu_respValid, lsu_rdata>>
    BY DEF NextTest
  <2>2. ifu_latch' \in AllWords /\ lsu_latch' \in Cpu!Lsu!Requests
    BY <2>1, NoRequestType, MapFacts
  <2>3. 0 \in 0..2 /\ 0 \in Nat
    OBVIOUS
  <2>4. /\ ifu_respTicks' \in 0..2 /\ ifu_waitTicks' \in Nat
        /\ lsu_respTicks' \in 0..2 /\ lsu_waitTicks' \in Nat
    BY <2>1, <2>3, Zenon
  <2>5. /\ ifu_reqPending' \in BOOLEAN /\ lsu_reqPending' \in BOOLEAN
        /\ ifu_respValid' \in BOOLEAN /\ lsu_respValid' \in BOOLEAN
    BY <2>1, Zenon DEF TypeOK, IfuChannel!TypeOK, LsuChannel!TypeOK
  <2>6. ifu_rdata' \in AllWords /\ lsu_rdata' \in [0..3 -> AllBytes]
    BY <2>1, Zenon DEF TypeOK
  <2>7. IfuChannel!TypeOK'
    BY <2>2, <2>4, <2>5, Zenon DEF IfuChannel!TypeOK
  <2>8. LsuChannel!TypeOK'
    BY <2>2, <2>4, <2>5, Zenon DEF LsuChannel!TypeOK
  <2>9. QED
    BY <2>6, <2>7, <2>8
<1>3. uart' \in [DOMAIN UartReset -> AllBytes] /\ uart' = UartReset
  BY MapAssumption DEF NextTest
<1>4. insts' \in Programs /\ Len(insts') \in Nat
  BY ProgramsAssumption DEF NextTest, TypeOK
<1>5. Gold!TypeOK'
  <2>1. flash' \in [FLASH_START..FLASH_END-1 -> AllBytes]
    BY <1>4, LoadedType, BenchTypes DEF NextTest
  <2>2. vuart' \in [Gold!UartRegs -> AllBytes]
    <3>1. uart' \in [0..UART_END-UART_START-1 -> AllBytes]
      BY <1>3, MapAssumption
    <3>2. \A reg \in {0, 1, 2, 3, 5, 6} : reg \in 0..UART_END-UART_START-1
      BY MapFacts
    <3>3. QED
      BY <3>1, <3>2 DEF vuart, Gold!UartRegs
  <2>3. QED
    BY <2>1, <2>2, SameWords, MapFacts DEF NextTest, Gold!g_reset, TypeOK, Gold!TypeOK
<1>6. <<>> \in Seq(AllBytes)
  OBVIOUS
<1>7. tests' \in 1..MaxTests
  BY BenchAssumption DEF NextTest, TypeOK
<1>8. instrets' \in 0..(n_insts + 1)' /\ Counted'
  BY <1>4 DEF NextTest, n_insts, Counted
<1>9. QED
  BY <1>1, <1>2, <1>3, <1>4, <1>5, <1>6, <1>7, <1>8, MapFacts DEF NextTest, TypeOK

\* The first test starts well typed.
LEMMA InitType ==
    ASSUME Init
    PROVE  TypeOK /\ Counted
<1>1. Cpu!TypeOK
  <2>1. Cpu!Ifu!TypeOK
    BY DEF Init, Cpu!Init, Cpu!Ifu!Init, Cpu!Ifu!TypeOK, Cpu!Ifu!ifu_states,
       Cpu!Ifu!Icache!Init, Cpu!Ifu!Icache!TypeOK
  <2>2. Cpu!Lsu!TypeOK
    BY MapFacts DEF Init, Cpu!Init, Cpu!Lsu!TypeOK, Cpu!Lsu!Init, Cpu!Lsu!lsu_states
  <2>3. /\ idu_respValid \in BOOLEAN /\ is_start \in BOOLEAN /\ ifu_reqValid \in BOOLEAN
        /\ Cpu!Exu!TypeOK
    BY DEF Init, Cpu!Init, Cpu!Idu!Init, Cpu!Exu!Init, Cpu!Exu!TypeOK, Cpu!Exu!exu_states
  <2>4. inst \in AllWords /\ regs \in [0..N_REGS-1 -> AllWords] /\ pc \in AllWords
    BY MapFacts DEF Init, Cpu!Init, Cpu!Idu!Init, Cpu!Rf!Init
  <2>5. QED
    BY <2>1, <2>2, <2>3, <2>4, SameWords DEF Cpu!TypeOK, Cpu!Idu!TypeOK, Cpu!Rf!TypeOK
<1>2. IfuChannel!TypeOK /\ ifu_rdata \in AllWords /\ LsuChannel!TypeOK
      /\ lsu_rdata \in [0..3 -> AllBytes]
  <2>1. Split(0) \in [0..3 -> AllBytes]
    BY MapFacts, JoinedSplit DEF Lanes
  <2>2. /\ ifu_latch = 0 /\ ifu_respTicks = 0 /\ ifu_waitTicks = 0 /\ ifu_reqPending = FALSE
        /\ lsu_latch = NoRequest /\ lsu_respTicks = 0 /\ lsu_waitTicks = 0
        /\ lsu_reqPending = FALSE /\ ifu_respValid = FALSE /\ lsu_respValid = FALSE
        /\ ifu_rdata = 0 /\ lsu_rdata = Split(0)
    BY DEF Init, IfuChannel!Init, LsuChannel!Init
  <2>3. ifu_latch \in AllWords /\ lsu_latch \in Cpu!Lsu!Requests
    BY <2>2, NoRequestType, MapFacts
  <2>4. ifu_rdata \in AllWords /\ lsu_rdata \in [0..3 -> AllBytes]
    BY <2>1, <2>2, MapFacts
  <2>5. 0 \in 0..2 /\ 0 \in Nat
    OBVIOUS
  <2>6. /\ ifu_respTicks \in 0..2 /\ ifu_waitTicks \in Nat
        /\ lsu_respTicks \in 0..2 /\ lsu_waitTicks \in Nat
    BY <2>2, <2>5, Zenon
  <2>7. /\ ifu_reqPending \in BOOLEAN /\ lsu_reqPending \in BOOLEAN
        /\ ifu_respValid \in BOOLEAN /\ lsu_respValid \in BOOLEAN
    BY <2>2, Zenon
  <2>8. IfuChannel!TypeOK
    BY <2>3, <2>6, <2>7, Zenon DEF IfuChannel!TypeOK
  <2>9. LsuChannel!TypeOK
    BY <2>3, <2>6, <2>7, Zenon DEF LsuChannel!TypeOK
  <2>10. QED
    BY <2>4, <2>8, <2>9
<1>3. uart \in [DOMAIN UartReset -> AllBytes] /\ uart \in [0..UART_END-UART_START-1 -> AllBytes]
  BY MapAssumption DEF Init
<1>4. insts \in Programs /\ Len(insts) \in Nat
  BY ProgramsAssumption DEF Init
<1>5. Gold!TypeOK
  <2>1. flash \in [FLASH_START..FLASH_END-1 -> AllBytes]
    <3> DEFINE zeros == [a \in FLASH_START..FLASH_END-1 |-> 0]
    <3>1. zeros \in [FLASH_START..FLASH_END-1 -> AllBytes]
      BY MapFacts
    <3>2. flash = Loaded(insts, zeros)
      BY DEF Init
    <3> HIDE DEF zeros
    <3>3. QED
      BY <1>4, <3>1, <3>2, LoadedType
  <2>2. vuart \in [Gold!UartRegs -> AllBytes]
    <3>1. \A reg \in {0, 1, 2, 3, 5, 6} : reg \in 0..UART_END-UART_START-1
      BY MapFacts
    <3>2. QED
      BY <1>3, <3>1 DEF vuart, Gold!UartRegs
  <2>3. QED
    BY <2>1, <2>2, SameWords, MapFacts DEF Init, Gold!Init, Gold!TypeOK
<1>6. <<>> \in Seq(AllBytes)
  OBVIOUS
<1>7. tests \in 1..MaxTests
  BY BenchAssumption DEF Init
<1>8. instrets \in 0..(n_insts + 1) /\ Counted
  BY <1>4 DEF Init, n_insts, Counted
<1>9. mem \in [MEM_START..MEM_END-1 -> AllBytes]
  BY MapFacts DEF Init
<1>10. QED
  BY <1>1, <1>2, <1>3, <1>4, <1>5, <1>6, <1>7, <1>8, <1>9, MapFacts DEF Init, TypeOK

\* Nothing changes without a step.
LEMMA StutterType ==
    ASSUME TypeOK, Counted, UNCHANGED vars
    PROVE  TypeOK' /\ Counted'
<1>1. /\ UNCHANGED <<cpuVars, ifuVars, lsuVars, busVars, goldVars, testVars>> /\ phase' = phase
  BY DEF vars
<1>2. Cpu!TypeOK'
  BY <1>1 DEF TypeOK, cpuVars, Cpu!TypeOK, Cpu!Ifu!TypeOK, Cpu!Ifu!Icache!TypeOK,
     Cpu!Ifu!Icache!Line, Cpu!Idu!TypeOK, Cpu!Exu!TypeOK, Cpu!Lsu!TypeOK, Cpu!Rf!TypeOK
<1>3. Gold!TypeOK'
  <2>1. vuart' = vuart
    BY <1>1 DEF vuart, busVars
  <2>2. QED
    BY <1>1, <2>1, SameWords DEF TypeOK, Gold!TypeOK, goldVars
<1>4. Counted'
  BY <1>1 DEF Counted, n_insts, testVars
<1>5. QED
  BY <1>1, <1>2, <1>3, <1>4
  DEF TypeOK, IfuChannel!TypeOK, LsuChannel!TypeOK, ifuVars, lsuVars, busVars, goldVars,
      testVars, n_insts

\* What the IFU and the LSU ask the bench is one of two truth values.
LEMMA AsksType ==
    Cpu!Ifu!io_reqValid(IfuIn) \in BOOLEAN /\ (TypeOK => Cpu!Lsu!io_reqValid(LsuIn) \in BOOLEAN)
  BY DEF Cpu!Ifu!io_reqValid, Cpu!Ifu!Miss, Cpu!Lsu!io_reqValid, Cpu!Lsu!io_reqValid_d,
     Cpu!Lsu!Starts, TypeOK, Cpu!TypeOK, Cpu!Lsu!TypeOK

\* A half period keeps the types, and counts nothing.
LEMMA HalfType ==
    ASSUME TypeOK, Counted, SubtickHigh \/ SubtickLow
    PROVE  TypeOK' /\ Counted'
<1>1. PICK s1 \in BOOLEAN, s2 \in BOOLEAN : SubtickIfu(s1) /\ SubtickLsu(s2)
  BY AsksType DEF SubtickHigh, SubtickLow
<1>2. /\ UNCHANGED <<cpuVars, goldVars, testVars>>
      /\ phase' \in {"high", "low", "edge", "compare"} /\ phase # "compare"
  BY DEF SubtickHigh, SubtickLow
<1>3. TypeOK'
  BY <1>1, <1>2, SubtickType
<1>4. Counted'
  BY <1>2 DEF Counted, testVars, n_insts
<1>5. QED
  BY <1>3, <1>4

\* Every step keeps the types and the count.
LEMMA StepType ==
    ASSUME TypeOK, Counted, [Next]_vars
    PROVE  TypeOK' /\ Counted'
  BY HalfType, EdgeType, CompareType, NextTestType, StutterType DEF Next

\* Whatever the program does and whenever the bench answers, the registers of
\* the CPU, of the bench and of the golden model hold words, bytes and counts
\* within their bounds: no operation of either side leaves the words, and no
\* test retires more than one instruction beyond the length of its program.
THEOREM LockstepTypeCorrect == Spec => []TypeOK
<1>1. Init => TypeOK /\ Counted
  BY InitType
<1>2. TypeOK /\ Counted /\ [Next]_vars => TypeOK' /\ Counted'
  BY StepType
<1>3. QED
  BY <1>1, <1>2, PTL DEF Spec

-----------------------------------------------------------------------------
(* The CPU on this bench: what is shown of the CPU on any buses (see        *)
(* Cpu_proofs), for the words and units it has here.                        *)

\* The IFU answers at once on a hit, and otherwise when the bus does; it
\* leaves its idle state only to wait for the bus.
LEMMA IfuStep ==
    ASSUME NEW in,
           in.reqValid \in BOOLEAN, in.io_respValid \in BOOLEAN,
           ifu_state \in {"IFU_IDLE", "IFU_WAIT_IO"},
           in.reqValid => ifu_state = "IFU_IDLE",
           Cpu!Ifu!Clock(in)
    PROVE  /\ Cpu!Ifu!respValid(in) =>
                /\ ifu_state' = "IFU_IDLE"
                /\ in.reqValid \/ ifu_state = "IFU_WAIT_IO"
           /\ ~Cpu!Ifu!respValid(in) =>
                ifu_state' = IF in.reqValid THEN "IFU_WAIT_IO" ELSE ifu_state
<1> USE DEF Cpu!Ifu!Clock, Cpu!Ifu!Advances, Cpu!Ifu!next_state, Cpu!Ifu!respValid, Cpu!Ifu!Hit, Cpu!Ifu!Miss,
     Cpu!Ifu!Filling, Cpu!Ifu!LookingUp, Cpu!Ifu!IcacheIn, Cpu!Ifu!Icache!RespValid, Cpu!Ifu!Icache!ReadValid
<1>3. CASE ifu_state = "IFU_IDLE" /\ in.reqValid
  BY <1>3
<1>4. CASE ifu_state = "IFU_IDLE" /\ ~in.reqValid
  BY <1>4
<1>5. CASE ifu_state = "IFU_WAIT_IO"
  BY <1>5
<1>6. QED
  BY <1>3, <1>4, <1>5

\* The LSU goes idle in the cycle in which it answers and in no other.
LEMMA LsuStep ==
    ASSUME NEW in,
           in.reqValid \in BOOLEAN, in.io_respValid \in BOOLEAN,
           lsu_state \in Cpu!Lsu!lsu_states,
           Cpu!Lsu!Clock(in)
    PROVE  /\ lsu_state' \in Cpu!Lsu!lsu_states
           /\ Cpu!Lsu!respValid(in) =>
                /\ lsu_state' = "LSU_IDLE"
                /\ lsu_state # "LSU_IDLE" \/ in.reqValid
           /\ ~Cpu!Lsu!respValid(in) =>
                (lsu_state' # "LSU_IDLE" <=> lsu_state # "LSU_IDLE" \/ in.reqValid)
  BY DEF Cpu!Lsu!Clock, Cpu!Lsu!next_state, Cpu!Lsu!respValid, Cpu!Lsu!Starts, Cpu!Lsu!FirstPartDone, Cpu!Lsu!lsu_states

\* The EXU retires an instruction it takes at once, or when the LSU answers.
LEMMA ExuStep ==
    ASSUME NEW in,
           in.reqValid \in BOOLEAN, in.lsu_respValid \in BOOLEAN,
           exu_state \in Cpu!Exu!exu_states,
           Cpu!Exu!Clock(in)
    PROVE  /\ exu_state' \in Cpu!Exu!exu_states
           /\ exu_state = "EXU_RESET" => exu_state' = "EXU_START"
           /\ exu_state \in {"EXU_START", "EXU_STALL_IDU", "EXU_EXECUTE"} =>
                exu_state' = IF ~in.reqValid THEN "EXU_STALL_IDU"
                             ELSE IF Cpu!Exu!is_lsu_inst(in.dec) /\ ~in.lsu_respValid
                             THEN "EXU_STALL_LSU" ELSE "EXU_EXECUTE"
           /\ exu_state = "EXU_STALL_LSU" =>
                exu_state' = IF in.lsu_respValid THEN "EXU_EXECUTE" ELSE "EXU_STALL_LSU"
           /\ Cpu!Exu!respValid(in) <=> exu_state' = "EXU_EXECUTE"
  BY DEF Cpu!Exu!Clock, Cpu!Exu!next_state, Cpu!Exu!respValid, Cpu!Exu!Takes, Cpu!Exu!lsu_or_exec, Cpu!Exu!exu_states

\* One instruction is in the CPU, in one place, and the state of the EXU says in
\* which: here a test ends when an instruction has retired, so that a reset finds
\* the IDU empty, and Cpu!OneInFlight holds without its exceptions.
OneInPlace ==
    /\ Cpu!Starting <=> exu_state = "EXU_RESET"
    /\ ifu_reqValid <=> exu_state \in {"EXU_START", "EXU_EXECUTE"}
    /\ Cpu!InMemory <=> exu_state = "EXU_STALL_LSU"
    /\ exu_state = "EXU_STALL_IDU" <=> (Cpu!Decoding \/ ifu_state = "IFU_WAIT_IO")
    /\ ~(Cpu!Decoding /\ ifu_state = "IFU_WAIT_IO")
    /\ ifu_state \in {"IFU_IDLE", "IFU_WAIT_IO"}
    /\ Cpu!InMemory => Cpu!Exu!is_lsu_inst(Cpu!dec)

\* One rising edge, told by the state of the EXU: what the unit lemmas say of
\* the units once they are wired together.
LEMMA ClockFacts ==
    ASSUME Cpu!TypeOK, OneInPlace, BusTyped, Cpu!Clock(Io)
    PROVE  /\ ifu_state \in {"IFU_IDLE", "IFU_WAIT_IO"}
           /\ ifu_state' \in {"IFU_IDLE", "IFU_WAIT_IO"}
           /\ idu_respValid' \in BOOLEAN
           /\ idu_respValid' => /\ ifu_state' = "IFU_IDLE"
                                /\ ifu_reqValid \/ ifu_state = "IFU_WAIT_IO"
           /\ ~idu_respValid' =>
                /\ ifu_state' = IF ifu_reqValid THEN "IFU_WAIT_IO" ELSE ifu_state
                /\ inst' = inst
                /\ Cpu!dec' = Cpu!dec
           /\ Cpu!Lsu!respValid(LsuIn) =>
                lsu_state' = "LSU_IDLE" /\ (lsu_state # "LSU_IDLE" \/ Cpu!lsu_reqValid)
           /\ ~Cpu!Lsu!respValid(LsuIn) =>
                (lsu_state' # "LSU_IDLE" <=> lsu_state # "LSU_IDLE" \/ Cpu!lsu_reqValid)
           /\ exu_state \in Cpu!Exu!exu_states /\ exu_state' \in Cpu!Exu!exu_states
           /\ exu_state = "EXU_RESET" => exu_state' = "EXU_START"
           /\ exu_state \in {"EXU_START", "EXU_STALL_IDU", "EXU_EXECUTE"} =>
                exu_state' = IF ~idu_respValid THEN "EXU_STALL_IDU"
                             ELSE IF Cpu!Exu!is_lsu_inst(Cpu!dec) /\ ~Cpu!Lsu!respValid(LsuIn)
                             THEN "EXU_STALL_LSU" ELSE "EXU_EXECUTE"
           /\ exu_state = "EXU_STALL_LSU" =>
                exu_state' = IF Cpu!Lsu!respValid(LsuIn)
                             THEN "EXU_EXECUTE" ELSE "EXU_STALL_LSU"
           /\ Cpu!Retires(Io) <=> exu_state' = "EXU_EXECUTE"
           /\ is_start' = FALSE
           /\ ifu_reqValid' = (Cpu!Retires(Io) \/ is_start)
           /\ ~Cpu!Retires(Io) => pc' = pc /\ regs' = regs
<1> DEFINE ii == IfuIn
           li == LsuIn
           xi == Cpu!ExuIn(Io)
<1>1. /\ ii.reqValid = ifu_reqValid /\ ii.reqValid \in BOOLEAN
      /\ ii.io_respValid \in BOOLEAN
  BY DEF IfuIn, Cpu!IfuIn, Io, BusTyped, Cpu!TypeOK
<1>2. /\ li.reqValid = Cpu!lsu_reqValid /\ li.reqValid \in BOOLEAN
      /\ li.io_respValid \in BOOLEAN
  BY DEF LsuIn, Cpu!LsuIn, Io, BusTyped, Cpu!TypeOK, Cpu!lsu_reqValid, Cpu!Idu!TypeOK, Cpu!Exu!is_lsu_inst
<1>3. /\ xi.reqValid = idu_respValid /\ xi.reqValid \in BOOLEAN
      /\ xi.lsu_respValid = Cpu!Lsu!respValid(li) /\ xi.lsu_respValid \in BOOLEAN
      /\ xi.dec = Cpu!dec
  BY DEF Cpu!ExuIn, LsuIn, Cpu!TypeOK, Cpu!Idu!TypeOK, Cpu!Lsu!respValid
<1>4. /\ ifu_state \in {"IFU_IDLE", "IFU_WAIT_IO"}
      /\ ifu_reqValid => ifu_state = "IFU_IDLE"
      /\ exu_state \in Cpu!Exu!exu_states /\ lsu_state \in Cpu!Lsu!lsu_states
  BY DEF OneInPlace, Cpu!TypeOK, Cpu!Exu!TypeOK, Cpu!Lsu!TypeOK
<1>5. /\ Cpu!Ifu!Clock(ii) /\ Cpu!Lsu!Clock(li) /\ Cpu!Exu!Clock(xi)
      /\ idu_respValid' = Cpu!Ifu!respValid(ii)
      /\ ~Cpu!Ifu!respValid(ii) => inst' = inst
      /\ is_start' = FALSE
      /\ ifu_reqValid' = (Cpu!Exu!respValid(xi) \/ is_start)
  BY DEF IfuIn, LsuIn, Cpu!Clock, Cpu!Idu!Clock, Cpu!AsksNext, Cpu!Retires
<1>6. ~Cpu!Exu!respValid(xi) => pc' = pc /\ regs' = regs
  BY DEF Cpu!Clock, Cpu!Retires, Cpu!Rf!Clock, Cpu!Exu!rf_wen
<1>7. inst' = inst => Cpu!dec' = Cpu!dec
  BY DEF Cpu!dec
<1> HIDE DEF ii, li, xi
<1>8. Cpu!Retires(Io) <=> Cpu!Exu!respValid(xi)
  BY DEF Cpu!Retires, xi
<1>9. idu_respValid' \in BOOLEAN
  BY <1>5 DEF Cpu!Ifu!respValid
<1>10. /\ Cpu!Ifu!respValid(ii) => ifu_state' = "IFU_IDLE" /\ (ifu_reqValid \/ ifu_state = "IFU_WAIT_IO")
       /\ ~Cpu!Ifu!respValid(ii) =>
            ifu_state' = IF ifu_reqValid THEN "IFU_WAIT_IO" ELSE ifu_state
  BY <1>1, <1>4, <1>5, IfuStep
<1>11. /\ Cpu!Lsu!respValid(li) => lsu_state' = "LSU_IDLE" /\ (lsu_state # "LSU_IDLE" \/ Cpu!lsu_reqValid)
       /\ ~Cpu!Lsu!respValid(li) =>
            (lsu_state' # "LSU_IDLE" <=> lsu_state # "LSU_IDLE" \/ Cpu!lsu_reqValid)
  BY <1>2, <1>4, <1>5, LsuStep
<1>12. /\ exu_state' \in Cpu!Exu!exu_states
       /\ exu_state = "EXU_RESET" => exu_state' = "EXU_START"
       /\ exu_state \in {"EXU_START", "EXU_STALL_IDU", "EXU_EXECUTE"} =>
            exu_state' = IF ~idu_respValid THEN "EXU_STALL_IDU"
                         ELSE IF Cpu!Exu!is_lsu_inst(Cpu!dec) /\ ~Cpu!Lsu!respValid(li)
                         THEN "EXU_STALL_LSU" ELSE "EXU_EXECUTE"
       /\ exu_state = "EXU_STALL_LSU" =>
            exu_state' = IF Cpu!Lsu!respValid(li) THEN "EXU_EXECUTE" ELSE "EXU_STALL_LSU"
       /\ Cpu!Exu!respValid(xi) <=> exu_state' = "EXU_EXECUTE"
  BY <1>3, <1>4, <1>5, ExuStep
<1>13. QED
  BY <1>4, <1>5, <1>6, <1>7, <1>8, <1>9, <1>10, <1>11, <1>12 DEF li

\* OneInPlace is inductive with the types: its clauses tie the state of every
\* unit to the one state of the EXU, so that each step is a case of it.
LEMMA ClockOneInPlace ==
    ASSUME Cpu!TypeOK, OneInPlace, BusTyped, Cpu!Clock(Io)
    PROVE  OneInPlace'
<1> USE ClockFacts DEF OneInPlace, Cpu!Starting, Cpu!InMemory, Cpu!Decoding, Cpu!lsu_reqValid
<1>1. CASE exu_state = "EXU_RESET"
  BY <1>1
<1>2. CASE exu_state \in {"EXU_START", "EXU_EXECUTE"}
  BY <1>2
<1>3. CASE exu_state = "EXU_STALL_IDU"
  BY <1>3
<1>4. CASE exu_state = "EXU_STALL_LSU"
  BY <1>4 DEF Cpu!Exu!is_lsu_inst
<1>5. QED
  BY <1>1, <1>2, <1>3, <1>4 DEF Cpu!Exu!exu_states

\* As long as the LSU is busy after an edge, the edge has retired nothing, and
\* the registers the LSU's inputs come from are as they were.
LEMMA HeldInMemory ==
    ASSUME Cpu!TypeOK, OneInPlace, BusTyped, Cpu!Clock(Io), Cpu!InMemory'
    PROVE  /\ ~Cpu!Retires(Io)
           /\ inst' = inst /\ Cpu!Operands' = Cpu!Operands
           /\ Cpu!InMemory \/ Cpu!lsu_reqValid
<1> DEFINE answers == Cpu!Lsu!respValid(LsuIn)
<1>1. /\ ~answers /\ (lsu_state # "LSU_IDLE" \/ Cpu!lsu_reqValid)
      /\ exu_state' = "EXU_STALL_LSU"
  BY ClockFacts, ClockOneInPlace DEF Cpu!InMemory, OneInPlace
<1>2. ~Cpu!Retires(Io) /\ ~idu_respValid'
  BY <1>1, ClockFacts, ClockOneInPlace DEF OneInPlace, Cpu!InMemory, Cpu!Decoding
<1>3. inst' = inst /\ pc' = pc /\ regs' = regs
  BY <1>2, ClockFacts
<1>4. QED
  BY <1>1, <1>2, <1>3 DEF Cpu!Operands, Cpu!dec, Cpu!Rf!Read, Cpu!InMemory

-----------------------------------------------------------------------------
(* Where the instruction is.                                               *)

\* One instruction is in flight; the LSU keeps its request up for one cycle
\* only; and the bench compares, or stops, when an instruction has retired.
Control ==
    /\ OneInPlace
    /\ io_reqValid_q => exu_state \in {"EXU_EXECUTE", "EXU_STALL_LSU"}
    /\ phase = "compare" \/ ~running => exu_state = "EXU_EXECUTE"
    /\ ~running => phase = "high"

\* The CPU waits for the LSU.
MemBusy == lsu_state # "LSU_IDLE" \/ Cpu!lsu_reqValid

\* The IFU fetches.
FetchBusy == ifu_reqValid \/ ifu_state = "IFU_WAIT_IO"

\* The decoded instruction, and what an instruction is made of.
LEMMA DecFacts ==
    ASSUME Cpu!TypeOK
    PROVE  /\ Cpu!dec \in Cpu!Idu!Decoded
           /\ Cpu!dec.size \in {"LSU_BYTE", "LSU_HALF", "LSU_WORD", "LSU_EXTA"}
           /\ Cpu!dec.sign \in BOOLEAN /\ Cpu!dec.type \in Cpu!Idu!types
<1>1. Cpu!dec \in Cpu!Idu!Decoded
  BY DecodeType, SameWords DEF Cpu!TypeOK, Cpu!Idu!TypeOK, Cpu!dec
<1>2. QED
  BY <1>1 DEF Cpu!Idu!Decoded

\* Nothing of where the instruction is changes as long as the CPU does not.
LEMMA ControlHeld ==
    ASSUME Control, UNCHANGED cpuVars
    PROVE  /\ OneInPlace'
           /\ (MemBusy' <=> MemBusy) /\ (FetchBusy' <=> FetchBusy)
           /\ (Cpu!lsu_reqValid' <=> Cpu!lsu_reqValid)
           /\ Cpu!dec' = Cpu!dec /\ exu_state' = exu_state /\ io_reqValid_q' = io_reqValid_q
<1>1. /\ ifu_state' = ifu_state /\ inst' = inst /\ idu_respValid' = idu_respValid
      /\ exu_state' = exu_state /\ lsu_state' = lsu_state /\ io_reqValid_q' = io_reqValid_q
      /\ is_start' = is_start /\ ifu_reqValid' = ifu_reqValid
  BY DEF cpuVars
<1>2. Cpu!dec' = Cpu!dec
  BY <1>1 DEF Cpu!dec
<1>3. Cpu!lsu_reqValid' <=> Cpu!lsu_reqValid
  BY <1>1, <1>2 DEF Cpu!lsu_reqValid, Cpu!Exu!is_lsu_inst
<1>4. OneInPlace'
  BY <1>1, <1>2
  DEF Control, OneInPlace, Cpu!Starting, Cpu!InMemory, Cpu!Decoding, Cpu!Exu!is_lsu_inst
<1>5. QED
  BY <1>1, <1>2, <1>3, <1>4 DEF MemBusy, FetchBusy

\* A rising edge keeps it.
LEMMA EdgeControl ==
    ASSUME TypeOK, Control, Edge
    PROVE  Control'
<1>1. BusTyped /\ Cpu!TypeOK /\ OneInPlace /\ Cpu!Clock(Io) /\ running = TRUE
  BY BenchTypes DEF TypeOK, Control, Edge
<1>2. OneInPlace' /\ (Cpu!Retires(Io) <=> exu_state' = "EXU_EXECUTE")
  BY <1>1, ClockOneInPlace, ClockFacts
<1>3. phase' = IF Cpu!Retires(Io) THEN "compare" ELSE "high"
  BY DEF Edge
<1>4. running' = running
  BY DEF Edge, testVars
<1>5. io_reqValid_q' => exu_state' \in {"EXU_EXECUTE", "EXU_STALL_LSU"}
  <2>1. io_reqValid_q' = Cpu!Lsu!io_reqValid_d(LsuIn)
    BY DEF Edge, Cpu!Clock, Cpu!Lsu!Clock, LsuIn
  <2>2. Cpu!Lsu!io_reqValid_d(LsuIn) => MemBusy
    BY DEF Cpu!Lsu!io_reqValid_d, Cpu!Lsu!Starts, Cpu!Lsu!FirstPartDone, LsuIn, Cpu!LsuIn, MemBusy
  <2>3. MemBusy => exu_state' \in {"EXU_EXECUTE", "EXU_STALL_LSU"}
    BY <1>1, ClockFacts
    DEF MemBusy, OneInPlace, Cpu!Starting, Cpu!InMemory, Cpu!Decoding, Cpu!lsu_reqValid,
        Cpu!Exu!exu_states
  <2>4. QED
    BY <2>1, <2>2, <2>3
<1>6. QED
  BY <1>1, <1>2, <1>3, <1>4, <1>5 DEF Control

\* So does every other step.
LEMMA StepControl ==
    ASSUME TypeOK, Control, [Next]_vars
    PROVE  Control'
<1>1. CASE SubtickHigh \/ SubtickLow
  <2>1. UNCHANGED cpuVars /\ phase' \in {"low", "edge"} /\ running = TRUE /\ running' = running
    BY <1>1 DEF SubtickHigh, SubtickLow, testVars, TypeOK
  <2>2. QED
    BY <2>1, ControlHeld DEF Control
<1>2. CASE Edge
  BY <1>2, EdgeControl
<1>3. CASE Compare
  <2>1. UNCHANGED cpuVars /\ phase = "compare" /\ phase' = "high"
    BY <1>3 DEF Compare
  <2>2. QED
    BY <2>1, ControlHeld DEF Control
<1>4. CASE NextTest
  <2>1. exu_state = "EXU_EXECUTE" /\ ~idu_respValid
    BY <1>4 DEF NextTest, Control, OneInPlace, Cpu!Decoding
  <2>2. OneInPlace' /\ ~io_reqValid_q'
    BY <1>4, <2>1
    DEF NextTest, Cpu!Reset, Cpu!Ifu!Reset, Cpu!Idu!Reset, Cpu!Exu!Reset, Cpu!Lsu!Reset,
        OneInPlace, Cpu!Starting, Cpu!InMemory, Cpu!Decoding
  <2>3. running' = TRUE /\ phase' = "low"
    BY <1>4 DEF NextTest
  <2>4. QED
    BY <2>2, <2>3 DEF Control
<1>5. CASE UNCHANGED vars
  <2>1. UNCHANGED cpuVars /\ phase' = phase /\ running' = running
    BY <1>5 DEF vars, testVars
  <2>2. QED
    BY <2>1, ControlHeld DEF Control
<1>6. QED
  BY <1>1, <1>2, <1>3, <1>4, <1>5 DEF Next

\* And it holds at first.
LEMMA InitControl ==
    ASSUME Init
    PROVE  Control
BY DEF Init, Control, Cpu!Init, OneInPlace, Cpu!Starting, Cpu!InMemory, Cpu!Decoding,
       Cpu!Ifu!Init, Cpu!Idu!Init, Cpu!Exu!Init, Cpu!Lsu!Init

-----------------------------------------------------------------------------
(* The memory side: the access the LSU makes, and the requests it consists  *)
(* of.                                                                      *)

\* The address of the access, and whether it is a store or takes two parts.
Addr == Cpu!Exu!alu_res(Cpu!Operands)

IsStore == Cpu!dec.type = "INST_STORE"

Crosses == Cpu!Lsu!is_misalign(LsuIn)

\* The requests of the access: one for the word its first byte is in and, if
\* it crosses the boundary, one for the next word.
FirstReq == [addr |-> Addr, wdata |-> Cpu!Lsu!io_wdata(LsuIn),
             wmask |-> Cpu!Lsu!FirstMask(Addr % 4, Cpu!dec.size), wen |-> IsStore]

SecondReq == [addr |-> Cpu!Lsu!NextWord(Addr), wdata |-> Cpu!Lsu!io_wdata(LsuIn),
              wmask |-> Cpu!Lsu!SecondMask(Addr % 4, Cpu!dec.size), wen |-> IsStore]

\* The one the LSU waits for.
PartReq == IF lsu_state = "LSU_WAIT_MIS_TWO" THEN SecondReq ELSE FirstReq

\* Request req writes the byte of RAM at a.
Writes(req, a) == /\ req.wen /\ Gold!InMem(req.addr)
                  /\ a \div 4 = req.addr \div 4
                  /\ a % 4 \in req.wmask

\* RAM holds what req writes: serving it would change nothing of it.
Holds(req) == \A a \in MEM_START..MEM_END-1 : Writes(req, a) => mem[a] = req.wdata[a % 4]

\* The answer on the bus is the one to the part the LSU waits for.
Answered == /\ ~lsu_reqPending
            /\ lsu_latch = PartReq
            /\ lsu_rdata = v_mem_read(mem, uart, lsu_latch.addr)
            /\ Holds(lsu_latch)

\* The LSU waits for two parts if the access has two.
PartsMatch == lsu_state # "LSU_IDLE" => (Crosses <=> lsu_state # "LSU_WAIT_ONE")

\* While an access is under way, what is pending in the channel is a request
\* for the part the LSU waits for, or is about to be overwritten by one, and an
\* answer that reaches a rising edge is the answer to it.
ServesPart ==
    MemBusy =>
      /\ phase # "high" \/ ~(Cpu!lsu_reqValid \/ io_reqValid_q) =>
           (lsu_reqPending => lsu_latch = PartReq)
      /\ /\ phase = "high" /\ lsu_state # "LSU_IDLE"
         /\ ~(lsu_state = "LSU_WAIT_MIS_TWO" /\ io_reqValid_q)
         => ~lsu_respValid
      /\ phase = "low" /\ lsu_respTicks = 2 => Answered
      /\ phase = "edge" /\ lsu_respValid => Answered

\* What the first part of an access in two parts has done is there when the
\* second is waited for.
FirstPartKept ==
    lsu_state = "LSU_WAIT_MIS_TWO" =>
      /\ Holds(FirstReq)
      /\ ~IsStore =>
           \A lane \in 1..3 : first_rdata_q[lane] = v_mem_read(mem, uart, Addr)[lane]

\* The request left behind by an access that was answered at once changes
\* nothing of RAM when it is served.
LeftoverHarmless ==
    ~MemBusy => /\ lsu_reqPending => Holds(lsu_latch)
                /\ io_reqValid_q => Holds(FirstReq)

MemPath == PartsMatch /\ ServesPart /\ FirstPartKept /\ LeftoverHarmless

\* What the LSU sees and drives, in terms of its state and the access.
LEMMA LsuWires ==
    /\ Cpu!Lsu!Starts(LsuIn) <=> lsu_state = "LSU_IDLE" /\ Cpu!lsu_reqValid
    /\ Cpu!Lsu!FirstPartDone(LsuIn) <=> lsu_state = "LSU_WAIT_MIS_ONE" /\ lsu_respValid
    /\ Cpu!Lsu!respValid(LsuIn) <=>
         lsu_respValid /\ \/ Cpu!Lsu!Starts(LsuIn) /\ ~Crosses
                          \/ lsu_state \in {"LSU_WAIT_ONE", "LSU_WAIT_MIS_TWO"}
    /\ Cpu!Lsu!Request(LsuIn) =
         IF lsu_state = "LSU_WAIT_MIS_TWO" \/ Cpu!Lsu!FirstPartDone(LsuIn)
         THEN SecondReq ELSE FirstReq
    /\ Crosses <=> \/ Addr % 4 # 0 /\ Cpu!dec.size = "LSU_WORD"
                   \/ Addr % 4 = 3 /\ Cpu!dec.size = "LSU_HALF"
    /\ LsuIn.addr = Addr /\ LsuIn.wdata = Split(Cpu!Operands.rdata2)
    /\ LsuIn.is_write = IsStore /\ LsuIn.data_size = Cpu!dec.size
    /\ LsuIn.is_mem_sign = Cpu!dec.sign
    /\ LsuIn.io_respValid = lsu_respValid /\ LsuIn.io_rdata = lsu_rdata
<1>1. /\ LsuIn.reqValid = Cpu!lsu_reqValid /\ LsuIn.io_respValid = lsu_respValid
      /\ LsuIn.addr = Addr /\ LsuIn.data_size = Cpu!dec.size /\ LsuIn.is_write = IsStore
      /\ LsuIn.io_rdata = lsu_rdata /\ LsuIn.wdata = Split(Cpu!Operands.rdata2)
      /\ LsuIn.is_mem_sign = Cpu!dec.sign
  BY DEF LsuIn, Cpu!LsuIn, Io, Addr, IsStore
<1>2. QED
  BY <1>1 DEF Cpu!Lsu!Starts, Cpu!Lsu!FirstPartDone, Cpu!Lsu!respValid, Cpu!Lsu!is_misalign,
     Cpu!Lsu!addr_offset, Cpu!Lsu!Request, Cpu!Lsu!is_second_part, Cpu!Lsu!io_addr,
     Cpu!Lsu!io_wmask, FirstReq, SecondReq, Crosses

\* The requests of an access are made of the operands of the instruction, and
\* of nothing else of the state.
LEMMA RequestsKept ==
    ASSUME Addr' = Addr, IsStore' = IsStore, Cpu!dec.size' = Cpu!dec.size,
           Cpu!Operands.rdata2' = Cpu!Operands.rdata2
    PROVE  /\ FirstReq' = FirstReq /\ SecondReq' = SecondReq
           /\ lsu_state' = lsu_state => PartReq' = PartReq
           /\ Crosses' <=> Crosses
<1>1. /\ LsuIn.wdata = Split(Cpu!Operands.rdata2) /\ LsuIn.addr = Addr
      /\ LsuIn.data_size = Cpu!dec.size
      /\ LsuIn'.wdata = Split(Cpu!Operands.rdata2') /\ LsuIn'.addr = Addr'
      /\ LsuIn'.data_size = Cpu!dec.size'
  BY DEF LsuIn, Cpu!LsuIn, Addr
<1>2. Cpu!Lsu!io_wdata(LsuIn)' = Cpu!Lsu!io_wdata(LsuIn)
  BY <1>1 DEF Cpu!Lsu!io_wdata, Cpu!Lsu!addr_offset
<1>3. FirstReq' = FirstReq /\ SecondReq' = SecondReq
  BY <1>2 DEF FirstReq, SecondReq
<1>4. Crosses' <=> Crosses
  BY <1>1 DEF Crosses, Cpu!Lsu!is_misalign, Cpu!Lsu!addr_offset
<1>5. QED
  BY <1>3, <1>4 DEF PartReq

\* As long as the registers of the CPU stay, so do the requests.
LEMMA AccessHeld ==
    ASSUME UNCHANGED cpuVars
    PROVE  /\ Addr' = Addr /\ IsStore' = IsStore
           /\ FirstReq' = FirstReq /\ SecondReq' = SecondReq
           /\ PartReq' = PartReq /\ (Crosses' <=> Crosses)
           /\ (MemBusy' <=> MemBusy) /\ (Cpu!lsu_reqValid' <=> Cpu!lsu_reqValid)
           /\ lsu_state' = lsu_state /\ io_reqValid_q' = io_reqValid_q
           /\ first_rdata_q' = first_rdata_q
<1>1. /\ inst' = inst /\ regs' = regs /\ pc' = pc /\ lsu_state' = lsu_state
      /\ io_reqValid_q' = io_reqValid_q /\ first_rdata_q' = first_rdata_q
      /\ idu_respValid' = idu_respValid
  BY DEF cpuVars
<1>2. Cpu!dec' = Cpu!dec /\ Cpu!Operands' = Cpu!Operands
  BY <1>1 DEF Cpu!dec, Cpu!Operands, Cpu!Rf!Read
<1>3. /\ Addr' = Addr /\ IsStore' = IsStore /\ Cpu!dec.size' = Cpu!dec.size
      /\ Cpu!Operands.rdata2' = Cpu!Operands.rdata2
  BY <1>2 DEF Addr, IsStore, Cpu!Exu!alu_res, Cpu!Exu!alu_lhs, Cpu!Exu!alu_rhs
<1>4. (MemBusy' <=> MemBusy) /\ (Cpu!lsu_reqValid' <=> Cpu!lsu_reqValid)
  BY <1>1, <1>2 DEF MemBusy, Cpu!lsu_reqValid, Cpu!Exu!is_lsu_inst
<1>5. QED
  BY <1>1, <1>3, <1>4, RequestsKept

\* Once a request has been served RAM holds what it writes.
LEMMA ServedHolds ==
    ASSUME TypeOK, NEW req, v_mem_write(req)
    PROVE  \A a \in MEM_START..MEM_END-1 : Writes(req, a) => mem'[a] = req.wdata[a % 4]
BY BenchTypes DEF v_mem_write, Writes

\* The bytes a request does not write stay as they are.
LEMMA ServedKeeps ==
    ASSUME TypeOK, NEW req, v_mem_write(req)
    PROVE  /\ \A a \in MEM_START..MEM_END-1 : ~Writes(req, a) => mem'[a] = mem[a]
           /\ DOMAIN mem' = MEM_START..MEM_END-1
BY BenchTypes DEF v_mem_write, Writes

\* Serving a write again changes nothing.
LEMMA ServedAgain ==
    ASSUME TypeOK, NEW req, Holds(req), v_mem_write(req)
    PROVE  mem' = mem
<1>1. mem = [a \in MEM_START..MEM_END-1 |-> mem[a]]
  BY BenchTypes
<1>2. mem' = [a \in MEM_START..MEM_END-1 |->
                IF Writes(req, a) THEN req.wdata[a % 4] ELSE mem[a]]
  BY BenchTypes DEF v_mem_write, Writes
<1>3. QED
  BY <1>1, <1>2 DEF Holds

\* A load changes neither RAM nor the UART.
LEMMA LoadReads ==
    ASSUME TypeOK, NEW req \in Cpu!Lsu!Requests, ~req.wen, v_mem_write(req)
    PROVE  mem' = mem /\ uart' = uart
<1>1. uart' = uart
  BY DEF v_mem_write
<1>2. Holds(req)
  BY DEF Holds, Writes
<1>3. QED
  BY <1>1, <1>2, ServedAgain

\* A half period keeps the path, provided that what is sampled is the request
\* for the part waited for and that, while an access is under way, so is what
\* stays in the channel.
LEMMA SubtickPath ==
    ASSUME TypeOK, MemPath, NEW sampled \in BOOLEAN, SubtickLsu(sampled),
           UNCHANGED <<cpuVars, goldVars, testVars>>,
           sampled => Cpu!Lsu!Request(LsuIn) = PartReq /\ (~MemBusy => Holds(PartReq)),
           MemBusy /\ lsu_reqPending /\ ~sampled => lsu_latch = PartReq,
           \/ phase' = "low"
           \/ phase = "low" /\ phase' = "edge" /\ ~sampled
    PROVE  MemPath'
<1>1. PICK answers \in BOOLEAN, ticks \in 0..1, req \in Cpu!Lsu!Requests :
        /\ req = IF sampled THEN Cpu!Lsu!Request(LsuIn) ELSE lsu_latch
        /\ lsu_latch' = req
        /\ answers => lsu_reqPending \/ sampled
        /\ lsu_reqPending' = ((lsu_reqPending \/ sampled) /\ ~answers)
        /\ lsu_respTicks <= 1 => ticks = 0
        /\ lsu_respTicks' = IF answers THEN 2 ELSE ticks
        /\ lsu_respValid' = (answers \/ (lsu_respValid /\ ticks # 0))
        /\ answers => v_mem_write(req) /\ lsu_rdata' = v_mem_read(mem', uart', req.addr)
        /\ ~answers => UNCHANGED busVars /\ lsu_rdata' = lsu_rdata
  BY LsuHalf
<1>2. /\ Addr' = Addr /\ IsStore' = IsStore
      /\ FirstReq' = FirstReq /\ SecondReq' = SecondReq
      /\ PartReq' = PartReq /\ (Crosses' <=> Crosses)
      /\ (MemBusy' <=> MemBusy) /\ (Cpu!lsu_reqValid' <=> Cpu!lsu_reqValid)
      /\ lsu_state' = lsu_state /\ io_reqValid_q' = io_reqValid_q
      /\ first_rdata_q' = first_rdata_q /\ flash' = flash
  BY AccessHeld DEF goldVars
<1>3. ~answers => mem' = mem /\ uart' = uart
  BY <1>1 DEF busVars
<1>4. PartsMatch'
  BY <1>2 DEF PartsMatch, MemPath
<1>5. /\ MemBusy /\ (lsu_reqPending \/ sampled) => req = PartReq
      /\ ~MemBusy /\ (lsu_reqPending \/ sampled) => Holds(req)
  BY <1>1 DEF MemPath, LeftoverHarmless
<1>6. answers => Holds(lsu_latch)'
  BY <1>1, ServedHolds DEF Holds, Writes
<1>7. ~MemBusy => mem' = mem
  BY <1>1, <1>3, <1>5, ServedAgain
<1>8. MemBusy /\ answers => Answered'
  <2>1. v_mem_read(mem, uart, lsu_latch.addr)' = v_mem_read(mem', uart', lsu_latch'.addr)
    BY <1>2 DEF v_mem_read
  <2>2. QED
    BY <1>1, <1>2, <1>5, <1>6, <2>1 DEF Answered
<1>9. ServesPart'
  <2>1. MemBusy' /\ lsu_reqPending' => lsu_latch' = PartReq'
    BY <1>1, <1>2, <1>5
  <2>2. MemBusy' /\ phase' = "low" /\ lsu_respTicks' = 2 => Answered'
    BY <1>1, <1>2, <1>8
  <2>3. ASSUME MemBusy', phase' = "edge", lsu_respValid'
        PROVE  Answered'
    <3>1. CASE answers
      BY <1>2, <1>8, <2>3, <3>1
    <3>2. CASE ~answers
      <4>1. lsu_respTicks = 2
        BY <1>1, <2>3, <3>2, BenchTypes
      <4>2. Answered /\ ~sampled
        BY <1>1, <1>2, <2>3, <3>2, <4>1 DEF MemPath, ServesPart
      <4>3. lsu_latch' = lsu_latch /\ lsu_rdata' = lsu_rdata /\ ~lsu_reqPending'
        BY <1>1, <3>2, <4>2 DEF Answered
      <4>4. v_mem_read(mem, uart, lsu_latch.addr)' = v_mem_read(mem, uart, lsu_latch.addr)
        BY <1>2, <1>3, <3>2, <4>3 DEF v_mem_read
      <4>5. Holds(lsu_latch)'
        BY <1>3, <3>2, <4>2, <4>3 DEF Answered, Holds, Writes
      <4>6. QED
        BY <1>2, <4>2, <4>3, <4>4, <4>5 DEF Answered
    <3>3. QED
      BY <3>1, <3>2
  <2>4. QED
    BY <2>1, <2>2, <2>3 DEF ServesPart
<1>10. FirstPartKept'
  <2>1. SUFFICES ASSUME lsu_state = "LSU_WAIT_MIS_TWO"
                 PROVE  FirstPartKept'
    BY <1>2 DEF FirstPartKept
  <2>2. /\ MemBusy /\ PartReq = SecondReq /\ Holds(FirstReq)
        /\ ~IsStore =>
             \A lane \in 1..3 : first_rdata_q[lane] = v_mem_read(mem, uart, Addr)[lane]
    BY <2>1 DEF MemPath, MemBusy, FirstPartKept, PartReq
  <2>3. Holds(FirstReq)'
    <3>1. CASE answers
      <4>1. req = SecondReq /\ v_mem_write(SecondReq) /\ SecondReq.wdata = FirstReq.wdata
        BY <1>1, <1>5, <2>2, <3>1 DEF FirstReq, SecondReq
      <4>2. \A a \in MEM_START..MEM_END-1 : Writes(FirstReq, a) => mem'[a] = FirstReq.wdata[a % 4]
        BY <2>2, <4>1, ServedHolds, ServedKeeps DEF Holds
      <4>3. QED
        BY <1>2, <4>2 DEF Holds, Writes
    <3>2. CASE ~answers
      BY <1>2, <1>3, <2>2, <3>2 DEF Holds, Writes
    <3>3. QED
      BY <3>1, <3>2
  <2>4. ~IsStore => mem' = mem /\ uart' = uart
    <3>1. ~IsStore => ~SecondReq.wen
      BY DEF SecondReq
    <3>2. QED
      BY <1>1, <1>3, <1>5, <2>2, <3>1, LoadReads
  <2>5. ~IsStore => v_mem_read(mem, uart, Addr)' = v_mem_read(mem, uart, Addr)
    BY <1>2, <2>4 DEF v_mem_read
  <2>6. QED
    BY <1>2, <2>2, <2>3, <2>5 DEF FirstPartKept
<1>11. LeftoverHarmless'
  <2>1. SUFFICES ASSUME ~MemBusy
                 PROVE  LeftoverHarmless'
    BY <1>2 DEF LeftoverHarmless
  <2>2. lsu_reqPending' => Holds(lsu_latch)'
    BY <1>1, <1>5, <1>7, <2>1 DEF Holds, Writes
  <2>3. io_reqValid_q' => Holds(FirstReq)'
    BY <1>2, <1>7, <2>1 DEF MemPath, LeftoverHarmless, Holds, Writes
  <2>4. QED
    BY <2>2, <2>3 DEF LeftoverHarmless
<1>12. QED
  BY <1>4, <1>9, <1>10, <1>11 DEF MemPath

\* The half period that samples: only then can a request be taken, and it is
\* the one for the part waited for because the answer to the first part has
\* been taken off the bus before the second part is asked for.
LEMMA HighSampled ==
    ASSUME TypeOK, Control, MemPath, SubtickHigh
    PROVE  \E sampled \in BOOLEAN :
             /\ SubtickLsu(sampled)
             /\ sampled <=> Cpu!lsu_reqValid \/ io_reqValid_q
             /\ sampled => Cpu!Lsu!Request(LsuIn) = PartReq /\ (~MemBusy => Holds(PartReq))
             /\ MemBusy /\ lsu_reqPending /\ ~sampled => lsu_latch = PartReq
<1> DEFINE sampled == Cpu!Lsu!io_reqValid(LsuIn)
<1>1. sampled \in BOOLEAN /\ SubtickLsu(sampled)
  BY AsksType DEF SubtickHigh
<1>2. ~Cpu!Lsu!FirstPartDone(LsuIn)
  BY LsuWires DEF SubtickHigh, MemPath, MemBusy, ServesPart
<1>3. Cpu!lsu_reqValid => lsu_state = "LSU_IDLE"
  BY DEF Control, OneInPlace, Cpu!lsu_reqValid, Cpu!Decoding, Cpu!InMemory
<1>4. /\ Cpu!Lsu!Request(LsuIn) = PartReq
      /\ sampled <=> Cpu!lsu_reqValid \/ io_reqValid_q
  BY <1>2, <1>3, LsuWires DEF PartReq, Cpu!Lsu!io_reqValid, Cpu!Lsu!io_reqValid_d
<1> HIDE DEF sampled
<1>5. sampled /\ ~MemBusy => Holds(PartReq)
  BY <1>4 DEF MemPath, MemBusy, LeftoverHarmless, PartReq
<1>6. MemBusy /\ lsu_reqPending /\ ~sampled => lsu_latch = PartReq
  BY <1>4 DEF MemPath, ServesPart, SubtickHigh
<1>7. QED
  BY <1>1, <1>4, <1>5, <1>6

\* The subtick at clk high keeps the path.
LEMMA HighPath ==
    ASSUME TypeOK, Control, MemPath, SubtickHigh
    PROVE  MemPath'
<1>1. PICK sampled \in BOOLEAN :
        /\ SubtickLsu(sampled)
        /\ sampled => Cpu!Lsu!Request(LsuIn) = PartReq /\ (~MemBusy => Holds(PartReq))
        /\ MemBusy /\ lsu_reqPending /\ ~sampled => lsu_latch = PartReq
  BY HighSampled
<1>2. UNCHANGED <<cpuVars, goldVars, testVars>> /\ phase' = "low"
  BY DEF SubtickHigh
<1>3. QED
  BY <1>1, <1>2, SubtickPath

\* So does the one at clk low.
LEMMA LowPath ==
    ASSUME TypeOK, MemPath, SubtickLow
    PROVE  MemPath'
<1>1. MemBusy /\ lsu_reqPending => lsu_latch = PartReq
  BY DEF SubtickLow, MemPath, ServesPart
<1>2. /\ UNCHANGED <<cpuVars, goldVars, testVars>> /\ phase = "low" /\ phase' = "edge"
      /\ SubtickLsu(FALSE)
  BY DEF SubtickLow
<1>3. QED
  BY <1>1, <1>2, SubtickPath

\* The LSU in a rising edge: an access starts, goes on to its second part, is
\* answered, or stays where it is because the bus has no answer.
LEMMA LsuSteps ==
    ASSUME TypeOK, Edge
    PROVE  /\ phase = "edge" /\ phase' \in {"high", "compare"}
           /\ UNCHANGED <<lsu_respValid, lsu_respTicks, lsu_reqPending, lsu_latch, lsu_rdata,
                          mem, uart>>
           /\ io_reqValid_q' <=> Cpu!Lsu!Starts(LsuIn) \/ Cpu!Lsu!FirstPartDone(LsuIn)
           /\ first_rdata_q' = IF ~IsStore /\ lsu_respValid
                               THEN [lane \in 1..3 |-> lsu_rdata[lane]] ELSE first_rdata_q
           /\ Cpu!Lsu!Starts(LsuIn) /\ lsu_respValid =>
                lsu_state' = IF Crosses THEN "LSU_WAIT_MIS_TWO" ELSE "LSU_IDLE"
           /\ Cpu!Lsu!Starts(LsuIn) /\ ~lsu_respValid =>
                lsu_state' = IF Crosses THEN "LSU_WAIT_MIS_ONE" ELSE "LSU_WAIT_ONE"
           /\ Cpu!Lsu!FirstPartDone(LsuIn) => lsu_state' = "LSU_WAIT_MIS_TWO"
           /\ lsu_state \in {"LSU_WAIT_ONE", "LSU_WAIT_MIS_TWO"} /\ lsu_respValid =>
                lsu_state' = "LSU_IDLE"
           /\ \/ ~Cpu!Lsu!Starts(LsuIn) /\ ~lsu_respValid
              \/ lsu_state = "LSU_IDLE" /\ ~Cpu!lsu_reqValid
              => lsu_state' = lsu_state
<1>2. Cpu!Lsu!Clock(LsuIn)
  BY DEF Edge, Cpu!Clock, LsuIn
<1>3. first_rdata_q' = IF ~IsStore /\ lsu_respValid
                       THEN [lane \in 1..3 |-> lsu_rdata[lane]] ELSE first_rdata_q
  BY <1>2, LsuWires DEF Cpu!Lsu!Clock, Cpu!Lsu!Keeps
<1>4. io_reqValid_q' <=> Cpu!Lsu!Starts(LsuIn) \/ Cpu!Lsu!FirstPartDone(LsuIn)
  BY <1>2 DEF Cpu!Lsu!Clock, Cpu!Lsu!io_reqValid_d
<1>5. lsu_state' =
        CASE Cpu!Lsu!Starts(LsuIn) /\ lsu_respValid ->
               IF Crosses THEN "LSU_WAIT_MIS_TWO" ELSE "LSU_IDLE"
          [] Cpu!Lsu!Starts(LsuIn) /\ ~lsu_respValid ->
               IF Crosses THEN "LSU_WAIT_MIS_ONE" ELSE "LSU_WAIT_ONE"
          [] Cpu!Lsu!FirstPartDone(LsuIn) -> "LSU_WAIT_MIS_TWO"
          [] Cpu!Lsu!respValid(LsuIn) /\ ~Cpu!Lsu!Starts(LsuIn) -> "LSU_IDLE"
          [] OTHER -> lsu_state
  BY <1>2, LsuWires DEF Cpu!Lsu!Clock, Cpu!Lsu!next_state, Crosses
<1>6. phase = "edge" /\ phase' \in {"high", "compare"}
  BY DEF Edge
<1>7. UNCHANGED <<lsu_respValid, lsu_respTicks, lsu_reqPending, lsu_latch, lsu_rdata, mem, uart>>
  BY DEF Edge, lsuVars, busVars
<1>8. QED
  BY <1>3, <1>4, <1>5, <1>6, <1>7, LsuWires

\* The edge, told by what the CPU waits for: the LSU is asked only when it is
\* idle, and as long as it has not answered its inputs stay.
LEMMA EdgeHolds ==
    ASSUME TypeOK, Control, Edge
    PROVE  /\ Control'
           /\ Cpu!lsu_reqValid => lsu_state = "LSU_IDLE"
           /\ ~MemBusy => lsu_state' = "LSU_IDLE"
           /\ Cpu!Lsu!respValid(LsuIn) => /\ MemBusy /\ ~MemBusy' /\ Cpu!Retires(Io)
                                          /\ lsu_state' = "LSU_IDLE"
           /\ MemBusy /\ ~Cpu!Lsu!respValid(LsuIn) =>
                /\ MemBusy' /\ ~Cpu!Retires(Io) /\ ~Cpu!lsu_reqValid' /\ lsu_state' # "LSU_IDLE"
                /\ inst' = inst /\ Cpu!Operands' = Cpu!Operands /\ pc' = pc /\ regs' = regs
           /\ MemBusy' => ~Cpu!Retires(Io)
           /\ Cpu!Retires(Io) => ~MemBusy' /\ inst' = inst /\ ~idu_respValid'
<1>1. BusTyped /\ Cpu!TypeOK /\ OneInPlace /\ Cpu!Clock(Io)
  BY BenchTypes DEF TypeOK, Control, Edge
<1>2. Control'
  BY EdgeControl
<1>3. OneInPlace'
  BY <1>2 DEF Control
<1>4. Cpu!lsu_reqValid => lsu_state = "LSU_IDLE" /\ idu_respValid /\ Cpu!Exu!is_lsu_inst(Cpu!dec)
                          /\ exu_state = "EXU_STALL_IDU"
  BY <1>1 DEF OneInPlace, Cpu!lsu_reqValid, Cpu!Decoding, Cpu!InMemory
<1>5. ~MemBusy => lsu_state' = "LSU_IDLE"
  BY <1>1, ClockFacts DEF MemBusy
<1>6. Cpu!Retires(Io) => ~MemBusy' /\ ~idu_respValid'
  <2>1. Cpu!Retires(Io) => exu_state' = "EXU_EXECUTE"
    BY <1>1, ClockFacts
  <2>2. QED
    BY <1>3, <2>1 DEF OneInPlace, MemBusy, Cpu!lsu_reqValid, Cpu!Decoding, Cpu!InMemory
<1>7. Cpu!Lsu!respValid(LsuIn) => MemBusy /\ lsu_state' = "LSU_IDLE" /\ Cpu!Retires(Io)
  <2>1. Cpu!Lsu!respValid(LsuIn) => MemBusy /\ lsu_state' = "LSU_IDLE"
    BY <1>1, ClockFacts DEF MemBusy
  <2>2. MemBusy => \/ exu_state = "EXU_STALL_LSU"
                   \/ /\ exu_state = "EXU_STALL_IDU" /\ idu_respValid
                      /\ Cpu!Exu!is_lsu_inst(Cpu!dec)
    BY <1>1, <1>4 DEF MemBusy, OneInPlace, Cpu!InMemory
  <2>3. Cpu!Lsu!respValid(LsuIn) => exu_state' = "EXU_EXECUTE"
    BY <1>1, <2>1, <2>2, ClockFacts
  <2>4. QED
    BY <1>1, <2>1, <2>3, ClockFacts
<1>8. ASSUME MemBusy, ~Cpu!Lsu!respValid(LsuIn)
      PROVE  /\ MemBusy' /\ ~Cpu!Retires(Io) /\ ~Cpu!lsu_reqValid' /\ lsu_state' # "LSU_IDLE"
             /\ inst' = inst /\ Cpu!Operands' = Cpu!Operands /\ pc' = pc /\ regs' = regs
  <2>1. lsu_state' # "LSU_IDLE" /\ Cpu!InMemory'
    BY <1>1, <1>8, ClockFacts DEF MemBusy, Cpu!InMemory
  <2>2. ~Cpu!Retires(Io) /\ inst' = inst /\ Cpu!Operands' = Cpu!Operands
    BY <1>1, <2>1, HeldInMemory
  <2>3. ~Cpu!lsu_reqValid'
    BY <1>3, <2>1 DEF OneInPlace, Cpu!lsu_reqValid, Cpu!Decoding, Cpu!InMemory
  <2>4. pc' = pc /\ regs' = regs
    BY <1>1, <2>2, ClockFacts
  <2>5. QED
    BY <2>1, <2>2, <2>3, <2>4 DEF MemBusy
<1>9. Cpu!Retires(Io) => inst' = inst
  BY <1>1, <1>6, ClockFacts
<1>10. QED
  BY <1>2, <1>4, <1>5, <1>6, <1>7, <1>8, <1>9

\* At an edge nothing is under way.
LEMMA RestEdge ==
    ASSUME TypeOK, Control, MemPath, Edge, ~MemBusy
    PROVE  MemPath'
<1>1. lsu_state = "LSU_IDLE" /\ ~Cpu!lsu_reqValid
  BY DEF MemBusy
<1>2. /\ lsu_state' = "LSU_IDLE" /\ ~io_reqValid_q' /\ phase' \in {"high", "compare"}
      /\ lsu_reqPending' = lsu_reqPending /\ lsu_latch' = lsu_latch /\ mem' = mem
  BY <1>1, LsuSteps, LsuWires
<1>3. MemBusy' => Cpu!lsu_reqValid' /\ phase' = "high"
  <2>1. MemBusy' => Cpu!lsu_reqValid'
    BY <1>2 DEF MemBusy
  <2>2. MemBusy' => ~Cpu!Retires(Io)
    BY EdgeHolds
  <2>3. QED
    BY <2>1, <2>2 DEF Edge
<1>4. PartsMatch' /\ FirstPartKept'
  BY <1>2 DEF PartsMatch, FirstPartKept
<1>5. ServesPart'
  BY <1>2, <1>3 DEF ServesPart
<1>6. LeftoverHarmless'
  BY <1>2 DEF LeftoverHarmless, MemPath, Holds, Writes
<1>7. QED
  BY <1>4, <1>5, <1>6 DEF MemPath

\* At an edge the LSU answers: what it was answered is in RAM, and so is all
\* that the request it may leave behind would write; a store changes none of
\* the registers its requests are made of.
LEMMA DoneEdge ==
    ASSUME TypeOK, Control, MemPath, Edge, Cpu!Lsu!respValid(LsuIn)
    PROVE  MemPath'
<1>1. MemBusy /\ ~MemBusy' /\ Cpu!Retires(Io) /\ lsu_state' = "LSU_IDLE" /\ inst' = inst
  BY EdgeHolds
<1>2. lsu_respValid /\ Answered
  BY <1>1, LsuWires, LsuSteps DEF MemPath, ServesPart
<1>3. /\ io_reqValid_q' => lsu_state = "LSU_IDLE"
      /\ lsu_reqPending' = lsu_reqPending /\ lsu_latch' = lsu_latch /\ mem' = mem
  BY LsuSteps, LsuWires
<1>4. Cpu!dec' = Cpu!dec /\ IsStore' = IsStore
  BY <1>1 DEF Cpu!dec, IsStore
<1>5. io_reqValid_q' => Holds(FirstReq)'
  <2>1. CASE IsStore
    <3>1. regs' = regs
      BY <2>1 DEF Edge, Cpu!Clock, Cpu!Rf!Clock, Cpu!Exu!rf_wen, Cpu!Exu!writes_register, Cpu!ExuIn, IsStore
    <3>2. /\ Cpu!Operands'.rdata1 = Cpu!Operands.rdata1 /\ Cpu!Operands'.rdata2 = Cpu!Operands.rdata2
          /\ Cpu!Operands'.dec = Cpu!Operands.dec /\ Cpu!Operands.dec = Cpu!dec
      BY <1>4, <3>1 DEF Cpu!Operands, Cpu!Rf!Read
    <3>3. Addr' = Addr
      BY <2>1, <3>2 DEF Addr, Cpu!Exu!alu_res, Cpu!Exu!alu_lhs, Cpu!Exu!alu_rhs, IsStore
    <3>4. FirstReq' = FirstReq
      BY <1>4, <3>2, <3>3, RequestsKept
    <3>5. io_reqValid_q' => Holds(FirstReq)
      BY <1>2, <1>3 DEF Answered, PartReq
    <3>6. QED
      BY <1>3, <3>4, <3>5 DEF Holds, Writes
  <2>2. CASE ~IsStore
    BY <1>4, <2>2 DEF Holds, Writes, FirstReq
  <2>3. QED
    BY <2>1, <2>2
<1>6. LeftoverHarmless'
  BY <1>2, <1>3, <1>5 DEF LeftoverHarmless, Answered
<1>7. ServesPart' /\ FirstPartKept' /\ PartsMatch'
  BY <1>1 DEF ServesPart, FirstPartKept, PartsMatch
<1>8. QED
  BY <1>6, <1>7 DEF MemPath

\* At an edge the access goes on.
LEMMA WaitEdge ==
    ASSUME TypeOK, Control, MemPath, Edge, MemBusy, ~Cpu!Lsu!respValid(LsuIn)
    PROVE  MemPath'
<1>1. /\ ~Cpu!lsu_reqValid' /\ MemBusy' /\ inst' = inst /\ Cpu!Operands' = Cpu!Operands
      /\ Cpu!lsu_reqValid => lsu_state = "LSU_IDLE"
      /\ ~Cpu!Retires(Io)
  BY EdgeHolds
<1>2. /\ phase = "edge" /\ phase' = "high"
      /\ lsu_respValid' = lsu_respValid /\ lsu_reqPending' = lsu_reqPending
      /\ lsu_latch' = lsu_latch /\ mem' = mem /\ uart' = uart /\ flash' = flash
  BY <1>1, LsuSteps DEF Edge, goldVars
<1>3. Cpu!dec' = Cpu!dec /\ Addr' = Addr /\ IsStore' = IsStore
  BY <1>1 DEF Cpu!dec, Addr, IsStore, Cpu!Exu!alu_res, Cpu!Exu!alu_lhs, Cpu!Exu!alu_rhs
<1>4. /\ Crosses' <=> Crosses
      /\ FirstReq' = FirstReq /\ SecondReq' = SecondReq
      /\ lsu_state' = lsu_state => PartReq' = PartReq
  BY <1>1, <1>3, RequestsKept
<1>5. \/ Cpu!Lsu!Starts(LsuIn)
      \/ Cpu!Lsu!FirstPartDone(LsuIn)
      \/ /\ ~Cpu!Lsu!Starts(LsuIn) /\ ~Cpu!Lsu!FirstPartDone(LsuIn) /\ ~lsu_respValid
         /\ lsu_state # "LSU_IDLE"
  BY LsuWires DEF MemBusy, TypeOK, Cpu!TypeOK, Cpu!Lsu!TypeOK, Cpu!Lsu!lsu_states
<1>6. LeftoverHarmless'
  BY <1>1 DEF LeftoverHarmless
<1>7. CASE lsu_respValid
  \* The answer is the one to the first part of an access in two.
  <2>1. /\ lsu_state' = "LSU_WAIT_MIS_TWO" /\ io_reqValid_q'
        /\ lsu_state \in {"LSU_IDLE", "LSU_WAIT_MIS_ONE"} /\ Crosses
        /\ first_rdata_q' = IF IsStore THEN first_rdata_q
                            ELSE [lane \in 1..3 |-> lsu_rdata[lane]]
    BY <1>5, <1>7, LsuSteps, LsuWires DEF MemPath, PartsMatch
  <2>2. Answered /\ PartReq = FirstReq
    BY <1>2, <1>7, <2>1 DEF MemPath, ServesPart, PartReq
  <2>3. PartsMatch'
    BY <1>4, <2>1 DEF PartsMatch
  <2>4. ServesPart'
    BY <1>2, <2>1 DEF ServesPart
  <2>5. Holds(FirstReq)'
    BY <1>2, <1>4, <2>2 DEF Answered, Holds, Writes
  <2>6. lsu_rdata = v_mem_read(mem, uart, Addr)
    BY <2>2 DEF Answered, FirstReq
  <2>7. v_mem_read(mem, uart, Addr)' = v_mem_read(mem, uart, Addr)
    BY <1>2, <1>3 DEF v_mem_read
  <2>8. FirstPartKept'
    BY <1>3, <2>1, <2>5, <2>6, <2>7 DEF FirstPartKept
  <2>9. QED
    BY <1>6, <2>3, <2>4, <2>8 DEF MemPath
<1>8. CASE ~lsu_respValid
  <2>1. /\ ~Cpu!Lsu!FirstPartDone(LsuIn)
        /\ io_reqValid_q' <=> Cpu!Lsu!Starts(LsuIn)
        /\ first_rdata_q' = first_rdata_q
    BY <1>8, LsuSteps, LsuWires
  <2>2. CASE Cpu!Lsu!Starts(LsuIn)
    <3>1. lsu_state' = IF Crosses THEN "LSU_WAIT_MIS_ONE" ELSE "LSU_WAIT_ONE"
      BY <1>8, <2>2, LsuSteps
    <3>2. PartsMatch'
      BY <1>4, <3>1 DEF PartsMatch
    <3>3. ServesPart'
      BY <1>2, <1>8, <2>1, <2>2 DEF ServesPart
    <3>4. FirstPartKept'
      BY <3>1 DEF FirstPartKept
    <3>5. QED
      BY <1>6, <3>2, <3>3, <3>4 DEF MemPath
  <2>3. CASE ~Cpu!Lsu!Starts(LsuIn)
    <3>1. lsu_state' = lsu_state /\ lsu_state # "LSU_IDLE" /\ ~io_reqValid_q'
      BY <1>5, <1>8, <2>1, <2>3, LsuSteps
    <3>2. PartsMatch'
      BY <1>4, <3>1 DEF PartsMatch, MemPath
    <3>3. ServesPart'
      BY <1>2, <1>4, <1>8, <3>1 DEF ServesPart, MemPath
    <3>4. v_mem_read(mem, uart, Addr)' = v_mem_read(mem, uart, Addr)
      BY <1>2, <1>3 DEF v_mem_read
    <3>5. FirstPartKept'
      BY <1>2, <1>3, <1>4, <2>1, <3>1, <3>4 DEF FirstPartKept, MemPath, Holds, Writes
    <3>6. QED
      BY <1>6, <3>2, <3>3, <3>5 DEF MemPath
  <2>4. QED
    BY <2>2, <2>3
<1>9. QED
  BY <1>7, <1>8

\* A step of the bench that touches neither the CPU nor the channel keeps the
\* path, if it does not lead into another phase of an access.
LEMMA PathHeld ==
    ASSUME TypeOK, MemPath, UNCHANGED <<cpuVars, lsuVars, busVars>>, flash' = flash,
           phase' = phase \/ ~MemBusy
    PROVE  MemPath'
<1>1. /\ Addr' = Addr /\ IsStore' = IsStore
      /\ FirstReq' = FirstReq /\ SecondReq' = SecondReq
      /\ PartReq' = PartReq /\ (Crosses' <=> Crosses)
      /\ (MemBusy' <=> MemBusy) /\ (Cpu!lsu_reqValid' <=> Cpu!lsu_reqValid)
      /\ lsu_state' = lsu_state /\ io_reqValid_q' = io_reqValid_q
      /\ first_rdata_q' = first_rdata_q
  BY AccessHeld
<1>2. /\ UNCHANGED <<lsu_respValid, lsu_respTicks, lsu_reqPending, lsu_latch, lsu_rdata,
                     mem, uart>>
  BY DEF lsuVars, busVars
<1>3. (Holds(FirstReq)' <=> Holds(FirstReq)) /\ (Holds(lsu_latch)' <=> Holds(lsu_latch))
  BY <1>1, <1>2 DEF Holds, Writes
<1>4. /\ v_mem_read(mem, uart, Addr)' = v_mem_read(mem, uart, Addr)
      /\ v_mem_read(mem, uart, lsu_latch.addr)' = v_mem_read(mem, uart, lsu_latch.addr)
  BY <1>1, <1>2 DEF v_mem_read
<1>5. Answered' <=> Answered
  BY <1>1, <1>2, <1>3, <1>4 DEF Answered
<1>6. PartsMatch' /\ FirstPartKept' /\ LeftoverHarmless'
  BY <1>1, <1>2, <1>3, <1>4 DEF MemPath, PartsMatch, FirstPartKept, LeftoverHarmless
<1>7. ServesPart'
  <2>1. CASE ~MemBusy
    BY <1>1, <2>1 DEF ServesPart
  <2>2. CASE phase' = phase
    BY <1>1, <1>2, <1>5, <2>2 DEF ServesPart, MemPath
  <2>3. QED
    BY <2>1, <2>2
<1>8. QED
  BY <1>6, <1>7 DEF MemPath

\* When the bench compares, or stops, the CPU waits for nothing.
LEMMA RetiredIdle ==
    ASSUME Control, phase = "compare" \/ ~running
    PROVE  ~MemBusy /\ ~idu_respValid /\ lsu_state = "LSU_IDLE" /\ ifu_reqValid
           /\ exu_state = "EXU_EXECUTE"
BY DEF Control, OneInPlace, Cpu!InMemory, Cpu!Decoding, MemBusy, Cpu!lsu_reqValid

\* Reset leaves the LSU idle, and the channel empty.
LEMMA NextTestPath ==
    ASSUME Control, NextTest
    PROVE  MemPath' /\ ~MemBusy'
<1>1. /\ lsu_state' = "LSU_IDLE" /\ ~io_reqValid_q' /\ ~lsu_reqPending' /\ ~idu_respValid'
  BY RetiredIdle DEF NextTest, Cpu!Reset, Cpu!Lsu!Reset, Cpu!Idu!Reset
<1>2. ~MemBusy'
  BY <1>1 DEF MemBusy, Cpu!lsu_reqValid
<1>3. QED
  BY <1>1, <1>2 DEF MemPath, PartsMatch, ServesPart, FirstPartKept, LeftoverHarmless

\* Every step keeps the path.
LEMMA StepPath ==
    ASSUME TypeOK, Control, MemPath, [Next]_vars
    PROVE  MemPath'
<1>1. CASE SubtickHigh
  BY <1>1, HighPath
<1>2. CASE SubtickLow
  BY <1>2, LowPath
<1>3. CASE Edge
  BY <1>3, RestEdge, DoneEdge, WaitEdge
<1>4. CASE Compare
  <2>1. UNCHANGED <<cpuVars, lsuVars, busVars>> /\ flash' = flash /\ phase = "compare"
    BY <1>4 DEF Compare
  <2>2. QED
    BY <2>1, PathHeld, RetiredIdle
<1>5. CASE NextTest
  BY <1>5, NextTestPath
<1>6. CASE UNCHANGED vars
  BY <1>6, PathHeld DEF vars, goldVars
<1>7. QED
  BY <1>1, <1>2, <1>3, <1>4, <1>5, <1>6 DEF Next

\* At first nothing is under way and nothing is pending.
LEMMA InitPath ==
    ASSUME Init
    PROVE  MemPath /\ ~MemBusy
<1>1. lsu_state = "LSU_IDLE" /\ ~io_reqValid_q /\ ~lsu_reqPending /\ ~idu_respValid
  BY DEF Init, Cpu!Init, Cpu!Lsu!Init, Cpu!Idu!Init, LsuChannel!Init
<1>2. ~MemBusy
  BY <1>1 DEF MemBusy, Cpu!lsu_reqValid
<1>3. QED
  BY <1>1, <1>2 DEF MemPath, PartsMatch, ServesPart, FirstPartKept, LeftoverHarmless

-----------------------------------------------------------------------------
(* RAM on both sides.                                                       *)

\* The access under way writes the byte of RAM at a.
Touches(a) == Writes(FirstReq, a) \/ (Crosses /\ Writes(SecondReq, a))

\* But for what the store under way writes, RAM is the same on both sides.
MemoryAgrees ==
    \A a \in MEM_START..MEM_END-1 : ~(MemBusy /\ Touches(a)) => mem[a] = g_mem[a]

\* When no access is under way the two RAMs are one.
LEMMA RestAgrees ==
    ASSUME TypeOK, MemoryAgrees, ~MemBusy
    PROVE  mem = g_mem
<1>1. \A a \in MEM_START..MEM_END-1 : mem[a] = g_mem[a]
  BY DEF MemoryAgrees
<1>2. /\ mem = [a \in MEM_START..MEM_END-1 |-> mem[a]]
      /\ g_mem = [a \in MEM_START..MEM_END-1 |-> g_mem[a]]
  BY BenchTypes
<1>3. QED
  BY <1>1, <1>2

\* A half period writes nothing but bytes of the access under way.
LEMMA SubtickAgrees ==
    ASSUME TypeOK, MemPath, MemoryAgrees, NEW sampled \in BOOLEAN, SubtickLsu(sampled),
           UNCHANGED <<cpuVars, goldVars, testVars>>,
           sampled => Cpu!Lsu!Request(LsuIn) = PartReq /\ (~MemBusy => Holds(PartReq)),
           MemBusy /\ lsu_reqPending /\ ~sampled => lsu_latch = PartReq
    PROVE  MemoryAgrees'
<1>1. PICK answers \in BOOLEAN, req \in Cpu!Lsu!Requests :
        /\ req = IF sampled THEN Cpu!Lsu!Request(LsuIn) ELSE lsu_latch
        /\ answers => lsu_reqPending \/ sampled
        /\ answers => v_mem_write(req)
        /\ ~answers => UNCHANGED busVars
  BY LsuHalf
<1>2. /\ FirstReq' = FirstReq /\ SecondReq' = SecondReq /\ (Crosses' <=> Crosses)
      /\ (MemBusy' <=> MemBusy)
  BY AccessHeld
<1>3. g_mem' = g_mem
  BY DEF goldVars
<1>4. CASE ~answers
  <2>1. mem' = mem
    BY <1>1, <1>4 DEF busVars
  <2>2. QED
    BY <1>2, <1>3, <2>1 DEF MemoryAgrees, Touches, Writes
<1>5. CASE answers /\ ~MemBusy
  <2>1. Holds(req)
    BY <1>1, <1>5 DEF MemPath, LeftoverHarmless
  <2>2. mem' = mem
    BY <1>1, <1>5, <2>1, ServedAgain
  <2>3. QED
    BY <1>2, <1>3, <2>2 DEF MemoryAgrees, Touches, Writes
<1>6. CASE answers /\ MemBusy
  <2>1. req = PartReq
    BY <1>1, <1>6
  <2>2. \A a : Writes(PartReq, a) => Touches(a)
    BY DEF PartReq, Touches, MemPath, PartsMatch
  <2>3. \A a \in MEM_START..MEM_END-1 : ~Writes(PartReq, a) => mem'[a] = mem[a]
    BY <1>1, <1>6, <2>1, ServedKeeps
  <2>4. SUFFICES ASSUME NEW a \in MEM_START..MEM_END-1, ~Touches(a)'
                 PROVE  mem'[a] = g_mem[a]
    BY <1>2, <1>3, <1>6 DEF MemoryAgrees
  <2>5. ~Touches(a)
    BY <1>2, <2>4 DEF Touches, Writes
  <2>6. QED
    BY <2>2, <2>3, <2>5 DEF MemoryAgrees
<1>7. QED
  BY <1>4, <1>5, <1>6

\* Neither does any step but a retirement change it.
LEMMA StepAgrees ==
    ASSUME TypeOK, Control, MemPath, MemoryAgrees, [Next]_vars, ~(Edge /\ Cpu!Retires(Io))
    PROVE  MemoryAgrees'
<1>1. CASE SubtickHigh
  <2>1. PICK sampled \in BOOLEAN :
        /\ SubtickLsu(sampled)
        /\ sampled => Cpu!Lsu!Request(LsuIn) = PartReq /\ (~MemBusy => Holds(PartReq))
        /\ MemBusy /\ lsu_reqPending /\ ~sampled => lsu_latch = PartReq
    BY <1>1, HighSampled
  <2>2. UNCHANGED <<cpuVars, goldVars, testVars>>
    BY <1>1 DEF SubtickHigh
  <2>3. QED
    BY <2>1, <2>2, SubtickAgrees
<1>2. CASE SubtickLow
  <2>1. MemBusy /\ lsu_reqPending => lsu_latch = PartReq
    BY <1>2 DEF SubtickLow, MemPath, ServesPart
  <2>2. UNCHANGED <<cpuVars, goldVars, testVars>> /\ SubtickLsu(FALSE)
    BY <1>2 DEF SubtickLow
  <2>3. QED
    BY <2>1, <2>2, SubtickAgrees
<1>3. CASE Edge
  <2>1. mem' = mem /\ g_mem' = g_mem
    BY <1>3 DEF Edge, busVars, goldVars
  <2>2. CASE ~MemBusy
    BY <2>1, <2>2 DEF MemoryAgrees
  <2>3. CASE MemBusy
    <3>1. ~Cpu!Lsu!respValid(LsuIn)
      BY <1>3, EdgeHolds
    <3>2. MemBusy' /\ inst' = inst /\ Cpu!Operands' = Cpu!Operands
      BY <1>3, <2>3, <3>1, EdgeHolds
    <3>3. Cpu!dec' = Cpu!dec /\ Addr' = Addr /\ IsStore' = IsStore
      BY <3>2 DEF Cpu!dec, Addr, IsStore, Cpu!Exu!alu_res, Cpu!Exu!alu_lhs, Cpu!Exu!alu_rhs
    <3>4. FirstReq' = FirstReq /\ SecondReq' = SecondReq /\ (Crosses' <=> Crosses)
      BY <3>2, <3>3, RequestsKept
    <3>5. QED
      BY <2>1, <2>3, <3>2, <3>4 DEF MemoryAgrees, Touches, Writes
  <2>4. QED
    BY <2>2, <2>3
<1>4. CASE Compare
  <2>1. ~MemBusy /\ mem' = mem /\ g_mem' = g_mem
    BY <1>4, RetiredIdle DEF Compare, busVars
  <2>2. QED
    BY <2>1 DEF MemoryAgrees
<1>5. CASE NextTest
  <2>1. ~MemBusy /\ mem' = mem /\ g_mem' = g_mem
    BY <1>5, RetiredIdle DEF NextTest, Gold!g_reset
  <2>2. QED
    BY <2>1 DEF MemoryAgrees
<1>6. CASE UNCHANGED vars
  <2>1. UNCHANGED cpuVars /\ mem' = mem /\ g_mem' = g_mem
    BY <1>6 DEF vars, busVars, goldVars
  <2>2. /\ FirstReq' = FirstReq /\ SecondReq' = SecondReq /\ (Crosses' <=> Crosses)
        /\ (MemBusy' <=> MemBusy)
    BY <2>1, AccessHeld
  <2>3. QED
    BY <2>1, <2>2 DEF MemoryAgrees, Touches, Writes
<1>7. QED
  BY <1>1, <1>2, <1>3, <1>4, <1>5, <1>6 DEF Next

-----------------------------------------------------------------------------
(* The fetch side.                                                          *)

\* An address code can be at, and the word of code the golden model executes.
IsCode(a) == Gold!InFlash(a) \/ Gold!InMem(a)

CodeWord == Gold!g_mem_read(g_pc - (g_pc % 4))

\* The registers of both sides are the same as long as a test runs, and code is
\* executed from where a program can be.
RegistersAgree ==
    /\ regs[0] = 0 /\ g_regs[0] = 0
    /\ running /\ phase # "compare" => pc = g_pc /\ regs = g_regs /\ IsCode(g_pc)
    /\ phase = "compare" /\ ~g_is_not_mapped => pc = g_pc /\ regs = g_regs

\* What the channel of the IFU holds is about the instruction being fetched:
\* nothing is pending and no answer reaches a rising edge while none is; while
\* one is, a pending request is the one for pc and an answer is its word.  An
\* instruction found in the cache has asked the channel for nothing.
ServesFetch ==
    /\ ~FetchBusy => /\ ~ifu_reqPending
                     /\ phase = "low" /\ ifu_respValid => ifu_respTicks <= 1
                     /\ phase = "edge" => ~ifu_respValid
    /\ FetchBusy => /\ ifu_reqPending => ifu_latch = pc
                    /\ ifu_respValid => ~ifu_reqPending /\ ifu_rdata = CodeWord
    /\ ifu_reqValid /\ (phase \in {"high", "compare"} \/ Cpu!Ifu!Hit(IfuIn)) =>
         ~ifu_reqPending /\ ~ifu_respValid

\* A valid line of the cache holds the word of code its index and tag stand for.
CacheAgrees ==
    \A i \in 0..LINE_N-1 : \A a \in Nat :
        lines[i].valid /\ a = 4 * (lines[i].tag * LINE_N + i) =>
            IsCode(a) /\ lines[i].data = Gold!g_mem_read(a)

\* The instruction the IDU holds is the one the golden model executes next.
InstAgrees == idu_respValid \/ lsu_state # "LSU_IDLE" => inst = CodeWord

\* Code at an address is code at the word it lies in, and the bench reads that
\* word, as the golden model does.
LEMMA CodeRead ==
    ASSUME TypeOK, NEW a \in Nat, IsCode(a), mem = g_mem
    PROVE  /\ IsCode(a - (a % 4)) /\ a - (a % 4) \in Nat
           /\ Joined(v_mem_read(mem, uart, a)) = Gold!g_mem_read(a - (a % 4))
<1> DEFINE base == a - (a % 4)
<1>1. base \in Nat /\ base = 4 * (a \div 4)
  OBVIOUS
<1>2. /\ Gold!InFlash(a) => Gold!InFlash(base)
      /\ Gold!InMem(a) => Gold!InMem(base)
  <2>1. \A s, e \in Nat : s % 4 = 0 /\ s <= a /\ a < e - 3 => s <= base /\ base < e - 3
    OBVIOUS
  <2>2. QED
    BY <2>1, MapFacts DEF Gold!InFlash, Gold!InMem
<1> HIDE DEF base
<1>3. CASE Gold!InFlash(a)
  BY <1>1, <1>2, <1>3, Regions, SameBytes DEF v_mem_read, Gold!g_mem_read, IsCode, base
<1>4. CASE Gold!InMem(a)
  <2>1. v_mem_read(mem, uart, a) = [lane \in 0..3 |-> g_mem[base + lane]]
    BY <1>1, <1>4, Regions DEF v_mem_read
  <2>2. Gold!g_mem_read(base) = Joined([lane \in 0..3 |-> g_mem[base + lane]])
    BY <1>1, <1>2, <1>4, Regions, SameBytes DEF Gold!g_mem_read
  <2>3. QED
    BY <1>1, <1>2, <1>4, <2>1, <2>2 DEF IsCode, base
<1>5. QED
  BY <1>3, <1>4 DEF IsCode

\* Code stays what it is as long as the flash and the RAM of the golden model do.
LEMMA CodeKept ==
    ASSUME flash' = flash, g_mem' = g_mem
    PROVE  \A a \in Nat : IsCode(a) => Gold!g_mem_read(a)' = Gold!g_mem_read(a)
<1> TAKE a \in Nat
<1>1. CASE Gold!InFlash(a)
  BY <1>1, Regions DEF Gold!g_mem_read
<1>2. CASE Gold!InMem(a)
  BY <1>2, Regions DEF Gold!g_mem_read
<1>3. QED
  BY <1>1, <1>2 DEF IsCode

\* So does the word the golden model executes.
LEMMA CodeWordKept ==
    ASSUME TypeOK, flash' = flash, g_mem' = g_mem, g_pc' = g_pc, IsCode(g_pc)
    PROVE  CodeWord' = CodeWord
<1>1. PICK a \in Nat : a = g_pc - (g_pc % 4) /\ IsCode(a)
  <2>1. g_pc \in Nat
    BY BenchTypes, MapFacts DEF AllWords
  <2>2. \A s, e \in Nat : s % 4 = 0 /\ s <= g_pc /\ g_pc < e - 3 =>
          s <= g_pc - (g_pc % 4) /\ g_pc - (g_pc % 4) < e - 3
    BY <2>1
  <2>3. g_pc - (g_pc % 4) \in Nat /\ IsCode(g_pc - (g_pc % 4))
    BY <2>1, <2>2, MapFacts DEF IsCode, Gold!InFlash, Gold!InMem
  <2>4. QED
    BY <2>3
<1>2. CodeWord = Gold!g_mem_read(a)
  BY <1>1 DEF CodeWord
<1>3. CodeWord' = Gold!g_mem_read(a)'
  BY <1>1 DEF CodeWord, Gold!g_mem_read
<1>4. QED
  BY <1>1, <1>2, <1>3, CodeKept

\* The outputs of the IFU: it hits only when asked, passes an answer on only
\* when it waits for one, and asks the bus only in the cycle in which it is
\* asked and misses.
LEMMA FetchWires ==
    ASSUME TypeOK, Control
    PROVE  /\ ifu_state \in {"IFU_IDLE", "IFU_WAIT_IO"}
           /\ ifu_reqValid => ifu_state = "IFU_IDLE"
           /\ Cpu!Ifu!Filling(IfuIn) <=> ifu_state = "IFU_WAIT_IO" /\ ifu_respValid
           /\ Cpu!Ifu!Hit(IfuIn) => ifu_reqValid
           /\ Cpu!Ifu!io_reqValid(IfuIn) <=> ifu_reqValid /\ ~Cpu!Ifu!Hit(IfuIn)
           /\ Cpu!Ifu!respValid(IfuIn) <=> Cpu!Ifu!Hit(IfuIn) \/ Cpu!Ifu!Filling(IfuIn)
           /\ Cpu!Ifu!IcacheIn(IfuIn).wen <=> Cpu!Ifu!Filling(IfuIn)
           /\ Cpu!Ifu!IcacheIn(IfuIn).addr = pc \div 4
           /\ Cpu!Ifu!IcacheIn(IfuIn).wdata = ifu_rdata
<1>1. /\ IfuIn.reqValid = ifu_reqValid /\ IfuIn.io_respValid = ifu_respValid
      /\ IfuIn.pc = pc /\ IfuIn.io_rdata = ifu_rdata
  BY DEF IfuIn, Cpu!IfuIn, Io
<1>2. ifu_state \in {"IFU_IDLE", "IFU_WAIT_IO"} /\ (ifu_reqValid => ifu_state = "IFU_IDLE")
  BY DEF Control, OneInPlace
<1>3. QED
  BY <1>1, <1>2
  DEF Cpu!Ifu!Filling, Cpu!Ifu!Hit, Cpu!Ifu!Miss, Cpu!Ifu!LookingUp, Cpu!Ifu!io_reqValid,
      Cpu!Ifu!respValid, Cpu!Ifu!IcacheIn, Cpu!Ifu!Icache!RespValid,
      Cpu!Ifu!Icache!ReadValid, Cpu!Ifu!Icache!IsHit

\* A hit is a lookup that finds the line of pc, valid and with its tag.
LEMMA HitMeans ==
    ASSUME TypeOK, Control
    PROVE  Cpu!Ifu!Hit(IfuIn) <=>
             /\ ifu_state = "IFU_IDLE" /\ ifu_reqValid
             /\ lines[Cpu!Ifu!Icache!Index(pc \div 4)].valid
             /\ lines[Cpu!Ifu!Icache!Index(pc \div 4)].tag = Cpu!Ifu!Icache!Tag(pc \div 4)
<1>1. /\ IfuIn.reqValid = ifu_reqValid /\ IfuIn.io_respValid = ifu_respValid
      /\ IfuIn.pc = pc /\ IfuIn.io_rdata = ifu_rdata
  BY DEF IfuIn, Cpu!IfuIn, Io
<1>2. ifu_state \in {"IFU_IDLE", "IFU_WAIT_IO"} /\ ifu_reqValid \in BOOLEAN
  BY DEF Control, OneInPlace, TypeOK, Cpu!TypeOK
<1>3. QED
  BY <1>1, <1>2
  DEF Cpu!Ifu!Filling, Cpu!Ifu!Hit, Cpu!Ifu!LookingUp, Cpu!Ifu!IcacheIn, Cpu!Ifu!Icache!RespValid,
      Cpu!Ifu!Icache!ReadValid, Cpu!Ifu!Icache!IsHit, Cpu!Ifu!Icache!LineOf

\* Whether it hits depends on the registers of the CPU alone.
LEMMA HitHolds ==
    ASSUME TypeOK, Control, UNCHANGED cpuVars
    PROVE  Cpu!Ifu!Hit(IfuIn)' <=> Cpu!Ifu!Hit(IfuIn)
<1>1. UNCHANGED <<ifu_state, lines, pc, ifu_reqValid>>
  BY DEF cpuVars
<1>2. /\ IfuIn'.reqValid = ifu_reqValid' /\ IfuIn'.io_respValid = ifu_respValid'
      /\ IfuIn'.pc = pc' /\ IfuIn'.io_rdata = ifu_rdata'
  BY DEF IfuIn, Cpu!IfuIn, Io
<1>3. ifu_state \in {"IFU_IDLE", "IFU_WAIT_IO"}
  BY DEF Control, OneInPlace
<1>4. Cpu!Ifu!Hit(IfuIn)' <=>
        /\ ifu_state' = "IFU_IDLE" /\ ifu_reqValid'
        /\ lines'[Cpu!Ifu!Icache!Index(pc' \div 4)].valid
        /\ lines'[Cpu!Ifu!Icache!Index(pc' \div 4)].tag = Cpu!Ifu!Icache!Tag(pc' \div 4)
  BY <1>1, <1>2, <1>3
  DEF Cpu!Ifu!Filling, Cpu!Ifu!Hit, Cpu!Ifu!LookingUp, Cpu!Ifu!IcacheIn, Cpu!Ifu!Icache!RespValid,
      Cpu!Ifu!Icache!ReadValid, Cpu!Ifu!Icache!IsHit, Cpu!Ifu!Icache!LineOf,
      Cpu!Ifu!Icache!Index, Cpu!Ifu!Icache!Tag
<1>5. QED
  BY <1>1, <1>4, HitMeans DEF Cpu!Ifu!Icache!Index, Cpu!Ifu!Icache!Tag

\* An instruction retires, or the CPU starts, only when nothing is fetched; and
\* while something is fetched the LSU waits for nothing.
LEMMA FetchIdle ==
    ASSUME TypeOK, Control
    PROVE  /\ FetchBusy => ~MemBusy /\ ~idu_respValid /\ ~is_start
           /\ Edge /\ (Cpu!Retires(Io) \/ is_start) => ~FetchBusy
<1>1. BusTyped /\ Cpu!TypeOK /\ OneInPlace
  BY BenchTypes DEF TypeOK, Control
<1>2. FetchBusy => ~MemBusy /\ ~idu_respValid /\ ~is_start
  BY <1>1 DEF FetchBusy, MemBusy, OneInPlace, Cpu!Starting, Cpu!InMemory, Cpu!Decoding,
     Cpu!lsu_reqValid
<1>3. ASSUME Edge, Cpu!Retires(Io)
      PROVE  ~FetchBusy
  <2>1. Cpu!Clock(Io)
    BY <1>3 DEF Edge
  <2>2. /\ exu_state' = "EXU_EXECUTE" /\ exu_state \in Cpu!Exu!exu_states
        /\ exu_state = "EXU_RESET" => exu_state' = "EXU_START"
        /\ exu_state \in {"EXU_START", "EXU_STALL_IDU", "EXU_EXECUTE"} /\ ~idu_respValid =>
             exu_state' = "EXU_STALL_IDU"
    BY <1>1, <1>3, <2>1, ClockFacts
  <2>3. idu_respValid \/ exu_state = "EXU_STALL_LSU"
    BY <2>2 DEF Cpu!Exu!exu_states
  <2>4. QED
    BY <1>1, <2>3 DEF FetchBusy, OneInPlace, Cpu!Decoding
<1>4. QED
  BY <1>2, <1>3

\* A half period of the IFU's channel keeps what the channel holds about the
\* instruction being fetched.
LEMMA SubtickServesFetch ==
    ASSUME TypeOK, Control, ServesFetch, RegistersAgree, MemoryAgrees, running,
           NEW sampled \in BOOLEAN, SubtickIfu(sampled),
           UNCHANGED <<cpuVars, goldVars, testVars>>,
           sampled => ifu_reqValid /\ ~Cpu!Ifu!Hit(IfuIn) /\ phase = "high",
           \/ phase = "high" /\ phase' = "low"
           \/ phase = "low" /\ phase' = "edge"
    PROVE  ServesFetch'
<1>1. PICK answers \in BOOLEAN, ticks \in 0..1 :
        /\ ifu_latch' = IF sampled THEN pc ELSE ifu_latch
        /\ answers => ifu_reqPending \/ sampled
        /\ ifu_reqPending' = ((ifu_reqPending \/ sampled) /\ ~answers)
        /\ ifu_respTicks <= 1 => ticks = 0
        /\ ifu_respTicks' = IF answers THEN 2 ELSE ticks
        /\ ifu_respValid' = (answers \/ (ifu_respValid /\ ticks # 0))
        /\ answers => ifu_rdata' = Joined(v_mem_read(mem, uart, ifu_latch'))
        /\ ~answers => ifu_rdata' = ifu_rdata
  BY IfuHalf
<1>2. /\ ifu_reqValid' = ifu_reqValid /\ pc' = pc /\ (FetchBusy' <=> FetchBusy)
      /\ Cpu!Ifu!Hit(IfuIn)' <=> Cpu!Ifu!Hit(IfuIn)
  <2>1. FetchBusy' <=> FetchBusy
    BY ControlHeld
  <2>2. Cpu!Ifu!Hit(IfuIn)' <=> Cpu!Ifu!Hit(IfuIn)
    BY HitHolds
  <2>3. QED
    BY <2>1, <2>2 DEF cpuVars
<1>3. pc = g_pc /\ IsCode(g_pc) /\ g_pc \in Nat
  BY BenchTypes, MapFacts DEF RegistersAgree, AllWords
<1>4. CodeWord' = CodeWord
  BY <1>3, CodeWordKept DEF goldVars
<1>5. FetchBusy => CodeWord = Joined(v_mem_read(mem, uart, pc))
  BY <1>3, FetchIdle, RestAgrees, CodeRead DEF CodeWord
<1>6. CASE ~FetchBusy
  <2>1. ~ifu_reqPending /\ ~sampled /\ ~answers /\ ~ifu_reqValid
    BY <1>1, <1>6 DEF ServesFetch, FetchBusy
  <2>2. phase' = "edge" => ~ifu_respValid'
    BY <1>1, <1>6, <2>1, BenchTypes DEF ServesFetch
  <2>3. ~ifu_reqPending' /\ ifu_respTicks' <= 1
    BY <1>1, <2>1
  <2>4. QED
    BY <1>2, <1>6, <2>1, <2>2, <2>3 DEF ServesFetch
<1>7. CASE FetchBusy
  <2>1. sampled => ~ifu_reqPending /\ ~ifu_respValid
    BY DEF ServesFetch
  <2>2. ifu_reqPending' => ifu_latch' = pc
    BY <1>1, <1>7 DEF ServesFetch
  <2>3. answers => ifu_latch' = pc
    BY <1>1, <1>7 DEF ServesFetch
  <2>4. answers => ifu_rdata' = CodeWord /\ ~ifu_reqPending'
    BY <1>1, <1>5, <1>7, <2>3
  <2>5. ~answers /\ ifu_respValid' => ifu_rdata' = CodeWord /\ ~ifu_reqPending'
    BY <1>1, <1>7, <2>1 DEF ServesFetch
  <2>6. ifu_reqValid /\ Cpu!Ifu!Hit(IfuIn) => ~ifu_reqPending' /\ ~ifu_respValid'
    BY <1>1 DEF ServesFetch
  <2>7. ifu_respValid' => ifu_rdata' = CodeWord /\ ~ifu_reqPending'
    BY <2>4, <2>5
  <2>8. phase' \notin {"high", "compare"}
    OBVIOUS
  <2>9. QED
    BY <1>2, <1>4, <1>7, <2>2, <2>6, <2>7, <2>8 DEF ServesFetch
<1>8. QED
  BY <1>6, <1>7

\* A rising edge: an instruction that is answered leaves a free channel to the
\* execution, and one that is asked for finds it free.
LEMMA EdgeServesFetch ==
    ASSUME TypeOK, Control, ServesFetch, RegistersAgree, Edge
    PROVE  ServesFetch'
<1>1. /\ ifu_respValid' = ifu_respValid /\ ifu_reqPending' = ifu_reqPending
      /\ ifu_latch' = ifu_latch /\ ifu_rdata' = ifu_rdata
      /\ phase = "edge" /\ phase' \in {"high", "compare"}
  BY DEF Edge, ifuVars
<1>2. BusTyped /\ Cpu!TypeOK /\ OneInPlace /\ Cpu!Clock(Io)
  BY BenchTypes DEF TypeOK, Control, Edge
<1>3. idu_respValid' = Cpu!Ifu!respValid(IfuIn)
  BY <1>2 DEF Cpu!Clock, Cpu!Idu!Clock, IfuIn
<1>4. /\ idu_respValid' => ifu_state' = "IFU_IDLE"
      /\ ~idu_respValid' => ifu_state' = IF ifu_reqValid THEN "IFU_WAIT_IO" ELSE ifu_state
      /\ ifu_reqValid' = (Cpu!Retires(Io) \/ is_start)
      /\ ~Cpu!Retires(Io) => pc' = pc
  BY <1>2, ClockFacts
<1>5. CASE Cpu!Retires(Io) \/ is_start
  <2>1. ~FetchBusy /\ ~ifu_reqPending /\ ~ifu_respValid /\ ifu_reqValid'
    BY <1>1, <1>4, <1>5, FetchIdle DEF ServesFetch
  <2>2. QED
    BY <1>1, <2>1 DEF ServesFetch, FetchBusy
<1>6. CASE ~(Cpu!Retires(Io) \/ is_start)
  <2>1. ~ifu_reqValid' /\ pc' = pc
    BY <1>4, <1>6
  <2>2. FetchBusy' <=> FetchBusy /\ ~idu_respValid'
    <3>1. idu_respValid' \in BOOLEAN /\ (idu_respValid' => FetchBusy)
      BY <1>2, ClockFacts DEF FetchBusy
    <3>2. ifu_state \in {"IFU_IDLE", "IFU_WAIT_IO"}
      BY <1>2 DEF OneInPlace
    <3>3. QED
      BY <1>4, <2>1, <3>1, <3>2 DEF FetchBusy
  <2>3. idu_respValid' => ~ifu_reqPending
    BY <1>3, FetchWires DEF ServesFetch, FetchBusy
  <2>4. CodeWord' = CodeWord
    <3>1. flash' = flash /\ g_mem' = g_mem /\ g_pc' = g_pc
      BY <1>6 DEF Edge, goldVars
    <3>2. IsCode(g_pc)
      BY DEF RegistersAgree, Edge
    <3>3. QED
      BY <3>1, <3>2, CodeWordKept
  <2>5. ~FetchBusy' => ~ifu_reqPending'
    BY <1>1, <2>2, <2>3 DEF ServesFetch
  <2>6. FetchBusy' => /\ ifu_reqPending' => ifu_latch' = pc'
                      /\ ifu_respValid' => ~ifu_reqPending' /\ ifu_rdata' = CodeWord'
    BY <1>1, <2>1, <2>2, <2>4 DEF ServesFetch
  <2>7. phase' \notin {"low", "edge"}
    BY <1>1
  <2>8. QED
    BY <2>1, <2>5, <2>6, <2>7 DEF ServesFetch
<1>7. QED
  BY <1>5, <1>6

\* Every step keeps what the channel of the IFU holds about the fetch.
LEMMA StepServesFetch ==
    ASSUME TypeOK, Control, ServesFetch, RegistersAgree, MemoryAgrees, [Next]_vars
    PROVE  ServesFetch'
<1>1. CASE SubtickHigh
  <2> DEFINE sampled == Cpu!Ifu!io_reqValid(IfuIn)
  <2>1. sampled \in BOOLEAN /\ SubtickIfu(sampled)
    BY <1>1, AsksType DEF SubtickHigh
  <2>2. sampled => ifu_reqValid /\ ~Cpu!Ifu!Hit(IfuIn) /\ phase = "high"
    BY <1>1, FetchWires DEF SubtickHigh
  <2>3. running /\ phase = "high" /\ phase' = "low" /\ UNCHANGED <<cpuVars, goldVars, testVars>>
    BY <1>1 DEF SubtickHigh
  <2> HIDE DEF sampled
  <2>4. QED
    BY <2>1, <2>2, <2>3, SubtickServesFetch
<1>2. CASE SubtickLow
  <2>1. /\ running /\ phase = "low" /\ phase' = "edge" /\ SubtickIfu(FALSE)
        /\ UNCHANGED <<cpuVars, goldVars, testVars>>
    BY <1>2 DEF SubtickLow
  <2>2. QED
    BY <2>1, SubtickServesFetch
<1>3. CASE Edge
  BY <1>3, EdgeServesFetch
<1>4. CASE Compare
  <2>1. ifu_reqValid /\ phase = "compare" /\ phase' = "high"
    BY <1>4, RetiredIdle DEF Compare
  <2>2. ~ifu_reqPending /\ ~ifu_respValid
    BY <2>1 DEF ServesFetch
  <2>3. ifu_reqValid' = ifu_reqValid /\ ~ifu_reqPending' /\ ~ifu_respValid'
    BY <1>4, <2>2 DEF Compare, cpuVars, ifuVars
  <2>4. QED
    BY <2>1, <2>3 DEF ServesFetch, FetchBusy
<1>5. CASE NextTest
  <2>1. ifu_reqValid /\ phase = "high"
    BY <1>5, RetiredIdle DEF NextTest, Control
  <2>2. ~ifu_respValid
    BY <2>1 DEF ServesFetch
  <2>3. ~ifu_respValid' /\ ~ifu_reqPending' /\ ~ifu_reqValid' /\ ifu_state' = "IFU_IDLE"
    BY <1>5, <2>2 DEF NextTest, Cpu!Reset, Cpu!Ifu!Reset
  <2>4. QED
    BY <2>3 DEF ServesFetch, FetchBusy
<1>6. CASE UNCHANGED vars
  <2>1. /\ UNCHANGED cpuVars /\ flash' = flash /\ g_mem' = g_mem /\ g_pc' = g_pc
        /\ UNCHANGED ifuVars /\ phase' = phase /\ uart' = uart
    BY <1>6 DEF vars, goldVars, busVars
  <2>2. (FetchBusy' <=> FetchBusy) /\ (Cpu!Ifu!Hit(IfuIn)' <=> Cpu!Ifu!Hit(IfuIn))
    BY <2>1, ControlHeld, HitHolds
  <2>3. CodeWord' = CodeWord
    BY <2>1 DEF CodeWord, Gold!g_mem_read, vuart
  <2>4. QED
    BY <2>1, <2>2, <2>3 DEF ServesFetch, ifuVars, cpuVars
<1>7. QED
  BY <1>1, <1>2, <1>3, <1>4, <1>5, <1>6 DEF Next

\* A word address is what its index and its tag say.
LEMMA IndexAndTag ==
    ASSUME NEW w \in Nat
    PROVE  /\ Cpu!Ifu!Icache!Index(w) \in 0..LINE_N-1
           /\ Cpu!Ifu!Icache!Tag(w) \in Nat
           /\ Cpu!Ifu!Icache!Tag(w) * LINE_N + Cpu!Ifu!Icache!Index(w) = w
  BY BenchAssumption DEF Cpu!Ifu!Icache!Index, Cpu!Ifu!Icache!Tag

\* The types of the lines of the cache.
LEMMA LineTypes ==
    ASSUME TypeOK
    PROVE  /\ DOMAIN lines = 0..LINE_N-1
           /\ \A i \in 0..LINE_N-1 : lines[i].tag \in Nat /\ lines[i].valid \in BOOLEAN
<1>1. lines \in [0..LINE_N-1 -> Cpu!Ifu!Icache!Line]
  BY DEF TypeOK, Cpu!TypeOK, Cpu!Ifu!TypeOK, Cpu!Ifu!Icache!TypeOK
<1>2. \A w \in 0..Cpu!NWords-1 : Cpu!Ifu!Icache!Tag(w) \in Nat
  BY MapFacts, IndexAndTag
<1>3. QED
  BY <1>1, <1>2 DEF Cpu!Ifu!Icache!Line

\* What the IFU passes on is the word of code the golden model executes,
\* whether the cache had it or the bus.
LEMMA FetchedInst ==
    ASSUME TypeOK, Control, ServesFetch, CacheAgrees, RegistersAgree, MemoryAgrees,
           running, phase = "edge", Cpu!Ifu!respValid(IfuIn)
    PROVE  Cpu!Ifu!inst(IfuIn) = CodeWord
<1>1. pc = g_pc /\ IsCode(g_pc) /\ g_pc \in Nat
  BY BenchTypes, MapFacts DEF RegistersAgree, AllWords
<1>2. Cpu!Ifu!IcacheIn(IfuIn).addr = pc \div 4 /\ IfuIn.io_rdata = ifu_rdata
  BY FetchWires DEF IfuIn, Cpu!IfuIn, Io
<1> DEFINE w == pc \div 4
           i == Cpu!Ifu!Icache!Index(w)
<1>3. CASE Cpu!Ifu!Hit(IfuIn)
  <2>1. /\ lines[i].valid /\ lines[i].tag = Cpu!Ifu!Icache!Tag(w)
    BY <1>3, HitMeans
  <2>2. w \in Nat /\ 4 * w = g_pc - (g_pc % 4)
    BY <1>1
  <2>3. i \in 0..LINE_N-1 /\ lines[i].tag * LINE_N + i = w
    BY <2>1, <2>2, IndexAndTag
  <2>4. 4 * w \in Nat /\ 4 * w = 4 * (lines[i].tag * LINE_N + i)
    BY <2>2, <2>3
  <2>5. lines[i].data = Gold!g_mem_read(4 * w)
    BY <2>1, <2>3, <2>4 DEF CacheAgrees
  <2>6. Cpu!Ifu!inst(IfuIn) = lines[i].data
    BY <1>2, <1>3 DEF Cpu!Ifu!inst, Cpu!Ifu!Icache!Rdata, Cpu!Ifu!Icache!LineOf
  <2>7. QED
    BY <2>2, <2>5, <2>6 DEF CodeWord
<1>4. CASE ~Cpu!Ifu!Hit(IfuIn)
  <2>1. Cpu!Ifu!Filling(IfuIn) /\ FetchBusy /\ ifu_respValid
    BY <1>4, FetchWires DEF FetchBusy
  <2>2. Cpu!Ifu!inst(IfuIn) = ifu_rdata
    BY <1>2, <1>4, <2>1 DEF Cpu!Ifu!inst
  <2>3. QED
    BY <2>1, <2>2 DEF ServesFetch
<1>5. QED
  BY <1>3, <1>4

\* The edge after which the IDU holds an instruction: it is the one the golden
\* model executes, and it stays while the LSU works on it.
LEMMA EdgeInst ==
    ASSUME TypeOK, Control, ServesFetch, CacheAgrees, RegistersAgree, MemoryAgrees, InstAgrees,
           Edge
    PROVE  InstAgrees'
<1>1. BusTyped /\ Cpu!TypeOK /\ OneInPlace /\ Cpu!Clock(Io) /\ running /\ phase = "edge"
  BY BenchTypes DEF TypeOK, Control, Edge
<1>2. /\ idu_respValid' = Cpu!Ifu!respValid(IfuIn)
      /\ idu_respValid' => inst' = Cpu!Ifu!inst(IfuIn)
  BY <1>1 DEF Cpu!Clock, Cpu!Idu!Clock, IfuIn
<1>3. CASE Cpu!Retires(Io)
  BY <1>3, EdgeHolds DEF InstAgrees, MemBusy
<1>4. CASE ~Cpu!Retires(Io)
  <2>1. CodeWord' = CodeWord
    <3>1. flash' = flash /\ g_mem' = g_mem /\ g_pc' = g_pc
      BY <1>4 DEF Edge, goldVars
    <3>2. IsCode(g_pc)
      BY <1>1 DEF RegistersAgree
    <3>3. QED
      BY <3>1, <3>2, CodeWordKept
  <2>2. idu_respValid' => inst' = CodeWord
    BY <1>1, <1>2, FetchedInst
  <2>3. lsu_state' # "LSU_IDLE" => inst' = CodeWord
    BY <1>1, HeldInMemory DEF InstAgrees, Cpu!InMemory, Cpu!lsu_reqValid
  <2>4. QED
    BY <2>1, <2>2, <2>3 DEF InstAgrees
<1>5. QED
  BY <1>3, <1>4

\* So do the other steps.
LEMMA StepInst ==
    ASSUME TypeOK, Control, ServesFetch, CacheAgrees, RegistersAgree, MemoryAgrees, InstAgrees,
           [Next]_vars
    PROVE  InstAgrees'
<1>1. CASE SubtickHigh \/ SubtickLow
  <2>1. /\ UNCHANGED cpuVars /\ flash' = flash /\ g_mem' = g_mem /\ g_pc' = g_pc
        /\ running /\ phase \in {"high", "low"}
    BY <1>1 DEF SubtickHigh, SubtickLow, goldVars
  <2>2. IsCode(g_pc)
    BY <2>1 DEF RegistersAgree
  <2>3. CodeWord' = CodeWord
    BY <2>1, <2>2, CodeWordKept
  <2>4. QED
    BY <2>1, <2>3 DEF InstAgrees, cpuVars
<1>2. CASE Edge
  BY <1>2, EdgeInst
<1>3. CASE Compare \/ NextTest
  <2>1. ~idu_respValid /\ lsu_state = "LSU_IDLE"
    BY <1>3, RetiredIdle DEF Compare, NextTest
  <2>2. Compare => ~idu_respValid' /\ lsu_state' = "LSU_IDLE"
    BY <2>1 DEF Compare, cpuVars
  <2>3. NextTest => ~idu_respValid' /\ lsu_state' = "LSU_IDLE"
    BY <2>1 DEF NextTest, Cpu!Reset, Cpu!Idu!Reset, Cpu!Lsu!Reset
  <2>4. QED
    BY <1>3, <2>2, <2>3 DEF InstAgrees
<1>4. CASE UNCHANGED vars
  <2>1. UNCHANGED <<inst, idu_respValid, lsu_state, flash, g_mem, g_pc, uart>>
    BY <1>4 DEF vars, cpuVars, goldVars, busVars
  <2>2. CodeWord' = CodeWord
    BY <2>1 DEF CodeWord, Gold!g_mem_read, vuart
  <2>3. QED
    BY <2>1, <2>2 DEF InstAgrees
<1>5. QED
  BY <1>1, <1>2, <1>3, <1>4 DEF Next

\* A line is filled with the word of code at pc; the others stay.
LEMMA FilledLine ==
    ASSUME TypeOK, Control, ServesFetch, CacheAgrees, RegistersAgree, MemoryAgrees, Edge,
           ~Cpu!Retires(Io)
    PROVE  CacheAgrees'
<1>1. flash' = flash /\ g_mem' = g_mem
  BY DEF Edge, goldVars
<1>2. lines' = IF Cpu!Ifu!Filling(IfuIn)
               THEN [lines EXCEPT ![Cpu!Ifu!Icache!Index(pc \div 4)] =
                        [valid |-> TRUE, tag |-> Cpu!Ifu!Icache!Tag(pc \div 4), data |-> ifu_rdata]]
               ELSE lines
  <2>1. Cpu!Ifu!Icache!Clock(Cpu!Ifu!IcacheIn(IfuIn))
    BY DEF Edge, Cpu!Clock, Cpu!Ifu!Clock, IfuIn
  <2>2. QED
    BY <2>1, FetchWires DEF Cpu!Ifu!Icache!Clock, Cpu!Ifu!Icache!Filled
<1>3. SUFFICES ASSUME NEW i \in 0..LINE_N-1, NEW a \in Nat, lines'[i].valid,
                      a = 4 * (lines'[i].tag * LINE_N + i)
               PROVE  IsCode(a) /\ lines'[i].data = Gold!g_mem_read(a)
  <2>1. \A a \in Nat : IsCode(a) => Gold!g_mem_read(a)' = Gold!g_mem_read(a)
    BY <1>1, CodeKept
  <2>2. ASSUME \A i \in 0..LINE_N-1 : \A a \in Nat :
                 lines'[i].valid /\ a = 4 * (lines'[i].tag * LINE_N + i) =>
                   IsCode(a) /\ lines'[i].data = Gold!g_mem_read(a)
        PROVE  CacheAgrees'
    <3>1. ASSUME NEW i \in 0..LINE_N-1, NEW a \in Nat, lines'[i].valid,
                 a = 4 * (lines'[i].tag * LINE_N + i)
          PROVE  IsCode(a) /\ lines'[i].data = Gold!g_mem_read(a)'
      BY <2>1, <2>2, <3>1
    <3>2. QED
      BY <3>1, Zenon DEF CacheAgrees, IsCode, Gold!g_mem_read, Gold!InFlash, Gold!InMem
  <2>3. QED
    BY <2>2
<1>4. CASE Cpu!Ifu!Filling(IfuIn) /\ i = Cpu!Ifu!Icache!Index(pc \div 4)
  <2>1. pc = g_pc /\ IsCode(g_pc) /\ g_pc \in Nat
    BY BenchTypes, MapFacts DEF RegistersAgree, AllWords, Edge
  <2>2. FetchBusy /\ ifu_respValid
    BY <1>4, FetchWires DEF FetchBusy
  <2>3. lines'[i].tag = Cpu!Ifu!Icache!Tag(pc \div 4) /\ lines'[i].data = ifu_rdata
    BY <1>2, <1>4, LineTypes
  <2>4. pc \div 4 \in Nat /\ 4 * (pc \div 4) = g_pc - (g_pc % 4)
    BY <2>1
  <2>5. a = g_pc - (g_pc % 4)
    BY <1>3, <1>4, <2>3, <2>4, IndexAndTag
  <2>6. ifu_rdata = Gold!g_mem_read(a)
    BY <2>2, <2>5 DEF ServesFetch, CodeWord
  <2>7. IsCode(a)
    BY <2>1, <2>2, <2>5, FetchIdle, RestAgrees, CodeRead
  <2>8. QED
    BY <2>3, <2>6, <2>7
<1>5. CASE ~(Cpu!Ifu!Filling(IfuIn) /\ i = Cpu!Ifu!Icache!Index(pc \div 4))
  <2>1. lines'[i] = lines[i]
    BY <1>2, <1>5, LineTypes
  <2>2. QED
    BY <1>3, <2>1 DEF CacheAgrees
<1>6. QED
  BY <1>4, <1>5

\* A retirement changes no word that the cache holds, if the program keeps to
\* what is asked of it.
LEMMA RetiredCache ==
    ASSUME TypeOK, Control, CacheAgrees, Ordinary, Edge, Cpu!Retires(Io)
    PROVE  CacheAgrees'
<1>1. lines' = lines
  <2>1. ~Cpu!Ifu!Filling(IfuIn)
    BY FetchIdle, FetchWires DEF FetchBusy
  <2>2. Cpu!Ifu!Icache!Clock(Cpu!Ifu!IcacheIn(IfuIn))
    BY DEF Edge, Cpu!Clock, Cpu!Ifu!Clock, IfuIn
  <2>3. QED
    BY <2>1, <2>2, FetchWires DEF Cpu!Ifu!Icache!Clock
<1>2. /\ Gold!cpu_eval /\ uart' = uart
      /\ flash' = flash
      /\ g_mem' = [x \in DOMAIN g_mem |->
                     IF /\ GoldDec.inst_type = "INST_STORE" /\ Gold!InMem(GoldAddr)
                        /\ x - GoldAddr \in Gold!mem_wbmask(GoldFields)
                     THEN Split(Gold!rf_read(GoldFields.rs2))[x - GoldAddr] ELSE g_mem[x]]
  BY GoldStep DEF Edge, busVars
<1>3. GoldDec.inst_type = "INST_STORE" => SparesCache
  <2>1. GoldDec.inst_type = "INST_STORE" => GoldFields.opcode = "OPCODE_STORE"
    BY DEF GoldDec, Gold!decode, Gold!inst_type, Gold!load_type
  <2>2. QED
    BY <2>1 DEF Ordinary, Edge
<1>4. ASSUME NEW i \in 0..LINE_N-1, NEW a \in Nat, lines[i].valid,
             a = 4 * (lines[i].tag * LINE_N + i)
      PROVE  IsCode(a) /\ lines[i].data = Gold!g_mem_read(a)'
  <2>1. IsCode(a) /\ lines[i].data = Gold!g_mem_read(a)
    BY <1>4 DEF CacheAgrees
  <2>2. CASE Gold!InFlash(a)
    BY <1>2, <2>1, <2>2, Regions DEF Gold!g_mem_read
  <2>3. CASE Gold!InMem(a)
    <3> DEFINE n == lines[i].tag * LINE_N + i
    <3>1. n \in Nat /\ a = 4 * n
      BY <1>4, LineTypes, BenchAssumption
    <3>2. \A lane \in 0..3 : a + lane \in MEM_START..MEM_END-1 /\ (a + lane) \div 4 = n
      <4> HIDE DEF n
      <4>1. QED
        BY <2>3, <3>1, MapFacts DEF Gold!InMem
    <3>3. DOMAIN g_mem = MEM_START..MEM_END-1 /\ GoldAddr \in Nat
      BY BenchTypes, GoldTypes, MapFacts DEF AllWords
    <3>4. ASSUME NEW lane \in 0..3
          PROVE  g_mem'[a + lane] = g_mem[a + lane]
      <4> DEFINE x == a + lane
                 k == x - GoldAddr
      <4>1. x \in DOMAIN g_mem /\ x \in Nat /\ x \div 4 = n
        <5>1. x \in Nat
          OBVIOUS
        <5>2. x \in DOMAIN g_mem /\ x \div 4 = n
          BY <3>2, <3>3, Zenon
        <5>3. QED
          BY <5>1, <5>2
      <4>2. GoldAddr + k = x
        BY <3>3, <4>1
      <4>3. CASE /\ GoldDec.inst_type = "INST_STORE" /\ Gold!InMem(GoldAddr)
                 /\ k \in Gold!mem_wbmask(GoldFields)
        <5>1. /\ lines[i].valid /\ Gold!InMem(GoldAddr)
              /\ (GoldAddr + k) \div 4 = lines[i].tag * LINE_N + i
          BY <1>4, <4>1, <4>2, <4>3
        <5>2. g_mem[GoldAddr + k] = Split(Gold!rf_read(GoldFields.rs2))[k]
          BY <1>3, <4>3, <5>1, Zenon DEF SparesCache
        <5>3. QED
          BY <1>2, <4>1, <4>2, <4>3, <5>2
      <4>4. CASE ~(/\ GoldDec.inst_type = "INST_STORE" /\ Gold!InMem(GoldAddr)
                   /\ k \in Gold!mem_wbmask(GoldFields))
        BY <1>2, <4>1, <4>4
      <4>5. QED
        BY <4>3, <4>4
    <3>5. [lane \in 0..3 |-> g_mem'[a + lane]] = [lane \in 0..3 |-> g_mem[a + lane]]
      BY <3>4
    <3>6. QED
      BY <2>1, <2>3, <3>5, Regions DEF Gold!g_mem_read
  <2>4. QED
    BY <2>1, <2>2, <2>3 DEF IsCode
<1>5. QED
  BY <1>1, <1>4, Zenon DEF CacheAgrees, IsCode, Gold!g_mem_read, Gold!InFlash, Gold!InMem

\* Every step keeps the cache, if what a store changes is not in it.
LEMMA StepCache ==
    ASSUME TypeOK, Control, ServesFetch, CacheAgrees, RegistersAgree, MemoryAgrees, Ordinary,
           [Next]_vars
    PROVE  CacheAgrees'
<1>1. CASE Edge
  BY <1>1, RetiredCache, FilledLine
<1>2. CASE SubtickHigh \/ SubtickLow \/ Compare \/ UNCHANGED vars
  <2>1. lines' = lines /\ flash' = flash /\ g_mem' = g_mem
    <3>1. SubtickHigh \/ SubtickLow => lines' = lines /\ flash' = flash /\ g_mem' = g_mem
      BY DEF SubtickHigh, SubtickLow, cpuVars, goldVars
    <3>2. Compare => lines' = lines /\ flash' = flash /\ g_mem' = g_mem
      BY DEF Compare, cpuVars
    <3>3. UNCHANGED vars => lines' = lines /\ flash' = flash /\ g_mem' = g_mem
      BY DEF vars, cpuVars, goldVars
    <3>4. QED
      BY <1>2, <3>1, <3>2, <3>3
  <2>2. ASSUME NEW i \in 0..LINE_N-1, NEW a \in Nat, lines[i].valid,
               a = 4 * (lines[i].tag * LINE_N + i)
        PROVE  IsCode(a) /\ lines[i].data = Gold!g_mem_read(a)'
    BY <2>1, <2>2, CodeKept DEF CacheAgrees
  <2>3. QED
    BY <2>1, <2>2, Zenon DEF CacheAgrees, IsCode, Gold!g_mem_read, Gold!InFlash, Gold!InMem
<1>3. CASE NextTest
  <2>1. lines' = [i \in 0..LINE_N-1 |-> [lines[i] EXCEPT !.valid = FALSE]]
    BY <1>3 DEF NextTest, Cpu!Reset, Cpu!Ifu!Reset, Cpu!Ifu!Icache!Reset
  <2>2. lines \in [0..LINE_N-1 -> Cpu!Ifu!Icache!Line]
    BY DEF TypeOK, Cpu!TypeOK, Cpu!Ifu!TypeOK, Cpu!Ifu!Icache!TypeOK
  <2>3. \A i \in 0..LINE_N-1 : ~lines'[i].valid
    BY <2>1, <2>2 DEF Cpu!Ifu!Icache!Line
  <2>4. QED
    BY <2>3, Zenon DEF CacheAgrees
<1>4. QED
  BY <1>1, <1>2, <1>3 DEF Next

\* A program counter that is valid for the bench is one of code.
LEMMA ValidIsCode ==
    ASSUME TypeOK, NEW a \in Nat, is_valid_pc_address(a)
    PROVE  IsCode(a)
<1>1. /\ 4 * n_insts + 4 <= FLASH_END - FLASH_START
      /\ 4 * n_insts + 4 <= MEM_END - MEM_START
      /\ n_insts \in Nat
  BY ProgramsAssumption DEF TypeOK, n_insts
<1> HIDE DEF n_insts
<1>2. QED
  BY <1>1, MapFacts DEF is_valid_pc_address, IsCode, Gold!InFlash, Gold!InMem

\* The steps that retire nothing keep what the registers agree about.
LEMMA StepRegisters ==
    ASSUME TypeOK, Control, RegistersAgree, [Next]_vars, ~(Edge /\ Cpu!Retires(Io))
    PROVE  RegistersAgree'
<1>1. CASE SubtickHigh \/ SubtickLow
  <2>1. /\ pc' = pc /\ regs' = regs /\ g_pc' = g_pc /\ g_regs' = g_regs
        /\ running' = running /\ running /\ phase # "compare" /\ phase' # "compare"
    <3>1. SubtickHigh => /\ pc' = pc /\ regs' = regs /\ g_pc' = g_pc /\ g_regs' = g_regs
                         /\ running' = running /\ running /\ phase = "high" /\ phase' = "low"
      BY DEF SubtickHigh, cpuVars, goldVars, testVars
    <3>2. SubtickLow => /\ pc' = pc /\ regs' = regs /\ g_pc' = g_pc /\ g_regs' = g_regs
                        /\ running' = running /\ running /\ phase = "low" /\ phase' = "edge"
      BY DEF SubtickLow, cpuVars, goldVars, testVars
    <3>3. QED
      BY <1>1, <3>1, <3>2
  <2>2. QED
    BY <2>1 DEF RegistersAgree, IsCode, Gold!InFlash, Gold!InMem
<1>2. CASE Edge
  <2>1. /\ pc' = pc /\ regs' = regs /\ g_pc' = g_pc /\ g_regs' = g_regs
        /\ running' = running /\ running /\ phase = "edge" /\ phase' = "high"
    <3>1. pc' = pc /\ regs' = regs
      BY <1>2, ClockFacts, BenchTypes DEF TypeOK, Control, Edge
    <3>2. QED
      BY <1>2, <3>1 DEF Edge, goldVars, testVars
  <2>2. QED
    BY <2>1 DEF RegistersAgree, IsCode, Gold!InFlash, Gold!InMem
<1>3. CASE Compare
  <2>1. /\ pc' = pc /\ regs' = regs /\ g_pc' = g_pc /\ g_regs' = g_regs /\ phase' = "high"
        /\ running' => pc = g_pc /\ regs = g_regs /\ is_valid_pc_address(g_pc)
    BY <1>3 DEF Compare, cpuVars, compare_vcpu_gold
  <2>2. running' => IsCode(g_pc)
    BY <2>1, ValidIsCode, BenchTypes, MapFacts DEF AllWords
  <2>3. QED
    BY <2>1, <2>2 DEF RegistersAgree, IsCode, Gold!InFlash, Gold!InMem
<1>4. CASE NextTest
  <2>1. /\ pc' = INITIAL_PC /\ g_pc' = INITIAL_PC
        /\ regs' = [r \in 0..N_REGS-1 |-> 0] /\ g_regs' = [r \in 0..N_REGS-1 |-> 0]
        /\ phase' = "low"
    BY <1>4 DEF NextTest, Cpu!Reset, Cpu!Rf!Reset, Gold!g_reset
  <2>2. regs'[0] = 0 /\ g_regs'[0] = 0 /\ regs' = g_regs'
    BY <2>1, BenchAssumption
  <2>3. FLASH_START <= INITIAL_PC /\ INITIAL_PC < FLASH_END - 3
    BY MapAssumption, MapFacts
  <2>4. QED
    BY <2>1, <2>2, <2>3 DEF RegistersAgree, IsCode, Gold!InFlash, Gold!InMem
<1>5. CASE UNCHANGED vars
  <2>1. /\ pc' = pc /\ regs' = regs /\ g_pc' = g_pc /\ g_regs' = g_regs /\ phase' = phase
        /\ running' = running /\ g_is_not_mapped' = g_is_not_mapped
    BY <1>5 DEF vars, cpuVars, goldVars, testVars
  <2>2. QED
    BY <2>1 DEF RegistersAgree, IsCode, Gold!InFlash, Gold!InMem
<1>6. QED
  BY <1>1, <1>2, <1>3, <1>4, <1>5 DEF Next

-----------------------------------------------------------------------------
(* The instruction that retires, decoded and computed on both sides.        *)

\* The opcodes of the instructions whose result or address the ALU adds up.
AluOpcodes == {"OPCODE_CALC_IMM", "OPCODE_CALC_REG", "OPCODE_LOAD", "OPCODE_STORE",
               "OPCODE_AUIPC", "OPCODE_JAL", "OPCODE_JALR", "OPCODE_BRANCH"}

\* What retires is what the golden model executes, and the LSU has answered if
\* it was asked.
LEMMA Retiring ==
    ASSUME TypeOK, Control, RegistersAgree, InstAgrees, Edge, Cpu!Retires(Io)
    PROVE  /\ running /\ phase = "edge" /\ pc = g_pc /\ regs = g_regs /\ inst = CodeWord
           /\ Cpu!dec = IduD!decode(GoldFields)
           /\ MemBusy <=> Cpu!Exu!is_lsu_inst(Cpu!dec)
           /\ MemBusy => Cpu!Lsu!respValid(LsuIn)
<1>1. BusTyped /\ Cpu!TypeOK /\ OneInPlace /\ Cpu!Clock(Io) /\ running /\ phase = "edge"
  BY BenchTypes DEF TypeOK, Control, Edge
<1>2. idu_respValid \/ lsu_state # "LSU_IDLE"
  <2>1. /\ exu_state' = "EXU_EXECUTE" /\ exu_state \in Cpu!Exu!exu_states
        /\ exu_state = "EXU_RESET" => exu_state' = "EXU_START"
        /\ exu_state \in {"EXU_START", "EXU_STALL_IDU", "EXU_EXECUTE"} /\ ~idu_respValid =>
             exu_state' = "EXU_STALL_IDU"
    BY <1>1, ClockFacts
  <2>2. idu_respValid \/ exu_state = "EXU_STALL_LSU"
    BY <2>1 DEF Cpu!Exu!exu_states
  <2>3. QED
    BY <1>1, <2>2 DEF OneInPlace, Cpu!InMemory
<1>3. inst = CodeWord
  BY <1>2 DEF InstAgrees
<1>4. Cpu!dec = IduD!decode(GoldFields)
  BY <1>3 DEF Cpu!dec, RtlDecode, GoldFields, CodeWord
<1>5. MemBusy <=> Cpu!Exu!is_lsu_inst(Cpu!dec)
  BY <1>1, <1>2 DEF MemBusy, Cpu!lsu_reqValid, OneInPlace, Cpu!InMemory
<1>6. MemBusy => Cpu!Lsu!respValid(LsuIn)
  BY EdgeHolds
<1>7. QED
  BY <1>1, <1>3, <1>4, <1>5, <1>6 DEF RegistersAgree

\* The decoder of the CPU, field by field.
LEMMA RtlFields ==
    ASSUME Cpu!dec = IduD!decode(GoldFields)
    PROVE  /\ Cpu!dec.type = IduD!inst_type(GoldFields)
           /\ Cpu!dec.rd = GoldFields.rd
           /\ Cpu!dec.rs1 = GoldFields.rs1 /\ Cpu!dec.rs2 = GoldFields.rs2
           /\ Cpu!dec.imm = IduD!imm(GoldFields)
           /\ Cpu!dec.alu_op = IduD!alu_op(GoldFields)
           /\ Cpu!dec.com_op = IduD!com_op(GoldFields)
           /\ Cpu!dec.size = IduD!size(GoldFields) /\ Cpu!dec.sign = IduD!sign(GoldFields)
  BY DEF IduD!decode

\* And the one of the golden model.
LEMMA GoldDecFields ==
    /\ GoldDec.inst_type = Gold!inst_type(GoldFields)
    /\ GoldDec.alu_op = Gold!alu_op(GoldFields)
    /\ GoldDec.com_op = IF GoldFields.opcode = "OPCODE_BRANCH" THEN GoldFields.funct3 ELSE 0
    /\ GoldDec.imm = IF GoldFields.opcode \in {"OPCODE_CALC_REG", "OPCODE_SYSTEM"}
                     THEN 0 ELSE GoldFields.imm
    /\ GoldDec.is_mem_sign = (GoldFields.funct3 < 4)
  BY DEF GoldDec, Gold!decode

\* Both decoders give an instruction the same type, but for what the golden
\* model does not know: system instructions, other opcodes and loads without
\* a name.
LEMMA SameTypes ==
    ASSUME GoldFields.funct3 \in 0..7
    PROVE
    LET t  == IduD!inst_type(GoldFields)
        g  == Gold!inst_type(GoldFields)
        op == GoldFields.opcode
    IN  /\ op = "OPCODE_CALC_IMM" => t = "INST_IMM"    /\ g = "INST_IMM"
        /\ op = "OPCODE_CALC_REG" => t = "INST_REG"    /\ g = "INST_REG"
        /\ op = "OPCODE_LOAD"     => t = "INST_LOAD"   /\ g = Gold!load_type(GoldFields.funct3)
        /\ op = "OPCODE_STORE"    => t = "INST_STORE"  /\ g = "INST_STORE"
        /\ op = "OPCODE_LUI"      => t = "INST_UPP"    /\ g = "INST_UPP"
        /\ op = "OPCODE_AUIPC"    => t = "INST_AUIPC"  /\ g = "INST_AUIPC"
        /\ op = "OPCODE_JALR"     => t = "INST_JUMPR"  /\ g = "INST_JUMPR"
        /\ op = "OPCODE_JAL"      => t = "INST_JUMP"   /\ g = "INST_JUMP"
        /\ op = "OPCODE_BRANCH"   => t = "INST_BRANCH" /\ g = "INST_BRANCH"
        /\ op \notin AluOpcodes \cup {"OPCODE_LUI"} =>
             t \notin {"INST_LOAD", "INST_STORE"} /\ g = "INST_UNDEFINED"
<1>1. IduD!system_type(GoldFields) \notin {"INST_LOAD", "INST_STORE"}
  <2>1. GoldFields.funct3 \in {0, 1, 2, 3, 4, 5, 6, 7}
    OBVIOUS
  <2>2. QED
    BY <2>1 DEF IduD!system_type
<1>2. QED
  BY <1>1 DEF IduD!inst_type, Gold!inst_type, AluOpcodes

\* Registers read the same.
LEMMA SameReads ==
    ASSUME RegistersAgree, regs = g_regs
    PROVE  \A r \in Nat : Cpu!Rf!Read(r) = Gold!rf_read(r)
  BY BenchAssumption DEF RegistersAgree, Cpu!Rf!Read, Gold!rf_read

\* The ALU gets the same operation and operands.
LEMMA SameAddr ==
    ASSUME TypeOK, RegistersAgree, pc = g_pc, regs = g_regs,
           Cpu!dec = IduD!decode(GoldFields), GoldFields.opcode \in AluOpcodes
    PROVE  Addr = GoldAddr
<1>1. GoldFields.funct3 \in 0..7 /\ GoldFields.rs1 \in Nat /\ GoldFields.rs2 \in Nat
  BY GoldTypes
<1>2. Cpu!dec.alu_op = GoldDec.alu_op
  <2>1. IduD!alu_op(GoldFields) = Gold!alu_op(GoldFields)
    BY <1>1 DEF IduD!alu_op, Gold!alu_op, IduD!alternative, IduD!FUNCT3_SR, IduD!FUNCT3_ADD, AluOpcodes
  <2>2. QED
    BY <2>1, RtlFields, GoldDecFields
<1>3. Cpu!dec.imm = GoldDec.imm
  <2>1. IduD!imm(GoldFields) = IF GoldFields.opcode \in {"OPCODE_CALC_REG", "OPCODE_SYSTEM"}
                              THEN 0 ELSE GoldFields.imm
    BY DEF IduD!imm, IduD!opcodes, AluOpcodes
  <2>2. QED
    BY <2>1, RtlFields, GoldDecFields
<1>4. /\ Cpu!dec.type \in {"INST_JUMP", "INST_AUIPC", "INST_BRANCH"}
           <=> GoldDec.inst_type \in {"INST_JUMP", "INST_AUIPC", "INST_BRANCH"}
      /\ Cpu!dec.type = "INST_REG" <=> GoldDec.inst_type = "INST_REG"
      /\ GoldDec.inst_type # "INST_UPP"
  BY <1>1, SameTypes, RtlFields, GoldDecFields DEF AluOpcodes, Gold!load_type
<1>5. /\ Cpu!Operands.rdata1 = Gold!rf_read(GoldFields.rs1)
      /\ Cpu!Operands.rdata2 = Gold!rf_read(GoldFields.rs2)
      /\ Cpu!Operands.pc = g_pc /\ Cpu!Operands.dec = Cpu!dec
  BY <1>1, SameReads, RtlFields DEF Cpu!Operands
<1>6. Cpu!Exu!alu_lhs(Cpu!Operands) = GoldL
  BY <1>4, <1>5 DEF Cpu!Exu!alu_lhs, GoldL, Gold!alu_lhs
<1>7. Cpu!Exu!alu_rhs(Cpu!Operands) = GoldR
  BY <1>3, <1>4, <1>5 DEF Cpu!Exu!alu_rhs, GoldR, Gold!alu_rhs
<1>8. Addr = AluI!alu(GoldDec.alu_op, GoldL, GoldR)
  BY <1>2, <1>5, <1>6, <1>7 DEF Addr, Cpu!Exu!alu_res
<1>9. QED
  BY <1>8, GoldTypes

-----------------------------------------------------------------------------
(* What a store writes.                                                     *)

\* Two addresses in the same word, or in neighbouring ones, differ as their
\* offsets do.
LEMMA Offsets ==
    ASSUME NEW a \in Nat, NEW b \in Nat
    PROVE  /\ a = 4 * (a \div 4) + (a % 4) /\ a \div 4 \in Nat /\ a % 4 \in 0..3
           /\ a \div 4 = b \div 4 => b + (a % 4) = a + (b % 4)
           /\ a \div 4 = b \div 4 + 1 => b + ((a % 4) + 4) = a + (b % 4)
<1>1. /\ a = 4 * (a \div 4) + (a % 4) /\ a \div 4 \in Nat /\ a % 4 \in 0..3
      /\ b = 4 * (b \div 4) + (b % 4) /\ b \div 4 \in Nat /\ b % 4 \in 0..3
  OBVIOUS
<1>2. QED
  BY <1>1

\* The address of an access, and the word after it: the first one of all
\* behind the last, otherwise the next.
LEMMA AfterAddr ==
    ASSUME TypeOK
    PROVE  /\ Addr \in Nat /\ Addr < Modulus /\ Addr % 4 \in 0..3 /\ Addr \div 4 \in Nat
           /\ Cpu!Lsu!NextWord(Addr) \in {0, 4 * (Addr \div 4) + 4}
           /\ Addr < Modulus - 4 => Cpu!Lsu!NextWord(Addr) = 4 * (Addr \div 4) + 4
<1>1. Addr \in Nat /\ Addr < Modulus /\ Modulus \in Nat /\ Modulus % 4 = 0
      /\ Cpu!NWords \in Nat \ {0} /\ 4 * Cpu!NWords = Modulus
  <2>1. Addr \in AllWords
    BY OperandsType DEF TypeOK, Addr
  <2>2. QED
    BY <2>1, MapFacts DEF AllWords
<1> DEFINE q == Addr \div 4
           n == Cpu!NWords
<1>2. q \in Nat /\ q + 1 <= n /\ (Addr < Modulus - 4 => q + 1 < n)
  BY <1>1
<1>3. Cpu!Lsu!NextWord(Addr) = 4 * ((q + 1) % n)
  BY DEF Cpu!Lsu!NextWord
<1> HIDE DEF q, n
<1>4. /\ q + 1 < n => (q + 1) % n = q + 1
      /\ q + 1 = n => (q + 1) % n = 0
  BY <1>1, <1>2 DEF n
<1>5. /\ (q + 1) % n \in {0, q + 1}
      /\ Addr < Modulus - 4 => (q + 1) % n = q + 1
  BY <1>1, <1>2, <1>4 DEF n
<1>6. QED
  BY <1>1, <1>2, <1>3, <1>5 DEF q

\* The word after one that begins in a region, for an access that crosses into
\* it, is in the region too.
LEMMA NextMapped ==
    ASSUME TypeOK, Addr % 4 # 0
    PROVE  /\ Gold!InFlash(Addr) => /\ Cpu!Lsu!NextWord(Addr) = 4 * (Addr \div 4) + 4
                                    /\ Gold!InFlash(Cpu!Lsu!NextWord(Addr))
           /\ Gold!InMem(Addr) => /\ Cpu!Lsu!NextWord(Addr) = 4 * (Addr \div 4) + 4
                                  /\ Gold!InMem(Cpu!Lsu!NextWord(Addr))
<1>1. \A s, e \in Nat : s % 4 = 0 /\ e % 4 = 0 /\ s <= Addr /\ Addr < e - 3 =>
        s <= 4 * (Addr \div 4) + 4 /\ 4 * (Addr \div 4) + 4 < e - 3
  BY AfterAddr
<1>2. Gold!InFlash(Addr) \/ Gold!InMem(Addr) => Addr < Modulus - 4
  BY AfterAddr, MapFacts DEF Gold!InFlash, Gold!InMem
<1>3. QED
  BY <1>1, <1>2, AfterAddr, MapFacts DEF Gold!InFlash, Gold!InMem

\* The lanes of the first mask, and of the second, are those of the bytes
\* touched in the one word and in the other.
LEMMA Masks ==
    ASSUME NEW size \in {"LSU_BYTE", "LSU_HALF", "LSU_WORD"}, NEW lane \in 0..3, NEW off \in 0..3
    PROVE  /\ Cpu!Lsu!Width(size) \in 1..4
           /\ lane \in Cpu!Lsu!FirstMask(off, size)
                <=> off <= lane /\ lane < off + Cpu!Lsu!Width(size)
           /\ \/ off # 0 /\ size = "LSU_WORD"
              \/ off = 3 /\ size = "LSU_HALF"
              => (lane \in Cpu!Lsu!SecondMask(off, size)
                    <=> lane + 4 < off + Cpu!Lsu!Width(size))
           /\ ~(\/ off # 0 /\ size = "LSU_WORD"
                \/ off = 3 /\ size = "LSU_HALF")
              <=> off + Cpu!Lsu!Width(size) <= 4
<1>1. CASE size = "LSU_BYTE"
  <2>1. Cpu!Lsu!FirstMask(off, size) = {off} /\ Cpu!Lsu!Width(size) = 1
    BY <1>1 DEF Cpu!Lsu!FirstMask, Cpu!Lsu!Width
  <2>2. QED
    BY <1>1, <2>1
<1>2. CASE size = "LSU_HALF"
  <2>1. /\ lane \in Cpu!Lsu!FirstMask(off, size) <=> off <= lane /\ lane <= off + 1
        /\ Cpu!Lsu!SecondMask(off, size) = {0}
    BY <1>2 DEF Cpu!Lsu!FirstMask, Cpu!Lsu!SecondMask, Cpu!Lsu!Lanes
  <2>2. Cpu!Lsu!Width(size) = 2
    BY <1>2 DEF Cpu!Lsu!Width
  <2>3. QED
    BY <1>2, <2>1, <2>2
<1>3. CASE size = "LSU_WORD"
  <2>1. /\ lane \in Cpu!Lsu!FirstMask(off, size) <=> off <= lane
        /\ off # 0 => (lane \in Cpu!Lsu!SecondMask(off, size) <=> lane < off)
    BY <1>3 DEF Cpu!Lsu!FirstMask, Cpu!Lsu!SecondMask, Cpu!Lsu!Lanes
  <2>2. Cpu!Lsu!Width(size) = 4
    BY <1>3 DEF Cpu!Lsu!Width
  <2>3. QED
    BY <1>3, <2>1, <2>2
<1>4. QED
  BY <1>1, <1>2, <1>3

\* The byte at a of what the requests carry.
LEMMA CarriedByte ==
    ASSUME TypeOK, NEW a \in Nat, Addr <= a, a < Addr + 4
    PROVE  Cpu!Lsu!io_wdata(LsuIn)[a % 4] = Split(Cpu!Operands.rdata2)[a - Addr]
<1>1. Addr \in Nat /\ a % 4 \in 0..3 /\ ((a % 4) - (Addr % 4)) % 4 = a - Addr
  <2>1. Addr \in Nat
    BY AfterAddr
  <2>2. \A m \in 0..3 : \A n \in 0..3 : \A k \in 0..3 :
          m = n + k \/ m = n + k - 4 => (m - n) % 4 = k
    OBVIOUS
  <2> DEFINE A == Addr
  <2> HIDE DEF A
  <2>3. A \in Nat /\ A <= a /\ a < A + 4
    BY <2>1 DEF A
  <2>4. /\ a % 4 \in 0..3 /\ A % 4 \in 0..3 /\ a - A \in 0..3
        /\ a % 4 = (A % 4) + (a - A) \/ a % 4 = ((A % 4) + (a - A)) - 4
    BY <2>3
  <2>5. QED
    BY <2>1, <2>2, <2>4 DEF A
<1>2. Cpu!Lsu!io_wdata(LsuIn) = [lane \in 0..3 |-> Split(Cpu!Operands.rdata2)[(lane - (Addr % 4)) % 4]]
  BY LsuWires DEF Cpu!Lsu!io_wdata, Cpu!Lsu!Lanes, Cpu!Lsu!addr_offset
<1>3. QED
  BY <1>1, <1>2

\* A store writes the bytes from its address on, if that is in RAM and does not
\* lie just below it.
LEMMA StoreTouches ==
    ASSUME TypeOK, IsStore, Cpu!dec.size \in {"LSU_BYTE", "LSU_HALF", "LSU_WORD"},
           Addr \notin MEM_START-3..MEM_START-1, NEW a \in MEM_START..MEM_END-1
    PROVE  Touches(a) <=> /\ Gold!InMem(Addr)
                          /\ Addr <= a /\ a < Addr + Cpu!Lsu!Width(Cpu!dec.size)
<1> DEFINE A    == Addr
           off  == A % 4
           size == Cpu!dec.size
           w    == Cpu!Lsu!Width(size)
           n    == Cpu!Lsu!NextWord(A)
<1>1. /\ A \in Nat /\ off \in 0..3 /\ A \div 4 \in Nat /\ a \in Nat /\ a % 4 \in 0..3
      /\ n \in {0, 4 * (A \div 4) + 4}
  BY AfterAddr, MapFacts
<1>2. /\ w \in 1..4
      /\ a % 4 \in Cpu!Lsu!FirstMask(off, size) <=> off <= a % 4 /\ a % 4 < off + w
      /\ Crosses => (a % 4 \in Cpu!Lsu!SecondMask(off, size) <=> (a % 4) + 4 < off + w)
      /\ ~Crosses <=> off + w <= 4
  BY <1>1, Masks, LsuWires
<1>3. Writes(FirstReq, a) <=> /\ Gold!InMem(A) /\ a \div 4 = A \div 4
                              /\ off <= a % 4 /\ a % 4 < off + w
  BY <1>2 DEF Writes, FirstReq
<1>4. Crosses => (Writes(SecondReq, a) <=> /\ Gold!InMem(n) /\ a \div 4 = n \div 4
                                           /\ (a % 4) + 4 < off + w)
  BY <1>2 DEF Writes, SecondReq
<1>5. A \notin MEM_START-3..MEM_START-1
  OBVIOUS
<1>6. /\ off # 0 /\ Gold!InMem(A) => n = 4 * (A \div 4) + 4 /\ Gold!InMem(n)
      /\ off # 0 /\ Gold!InMem(n) => n = 4 * (A \div 4) + 4 /\ Gold!InMem(A)
  <2>1. off # 0 /\ Gold!InMem(A) => n = 4 * (A \div 4) + 4 /\ Gold!InMem(n)
    BY NextMapped
  <2>2. off # 0 /\ Gold!InMem(n) => n = 4 * (A \div 4) + 4
    BY <1>1, MapFacts DEF Gold!InMem
  <2> HIDE DEF n, A
  <2>3. off # 0 /\ Gold!InMem(n) => MEM_START - 3 <= A /\ A < MEM_END - 3
    BY <1>1, <2>2, MapFacts DEF Gold!InMem
  <2>4. off # 0 /\ Gold!InMem(n) => Gold!InMem(A)
    BY <1>1, <1>5, <2>3, MapFacts DEF Gold!InMem
  <2>5. QED
    BY <2>1, <2>2, <2>4
<1> HIDE DEF A, w, n, size
<1>7. /\ a = 4 * (a \div 4) + (a % 4) /\ a \div 4 \in Nat
      /\ A = 4 * (A \div 4) + (A % 4)
      /\ n = 4 * (A \div 4) + 4 => n \div 4 = A \div 4 + 1
  BY <1>1
<1>8. CASE a \div 4 = A \div 4
  <2>1. Writes(FirstReq, a) <=> Gold!InMem(A) /\ A <= a /\ a < A + w
    BY <1>1, <1>2, <1>3, <1>7, <1>8
  <2>2. ~(Crosses /\ Writes(SecondReq, a))
    <3>1. Crosses => off # 0
      BY <1>1, <1>2
    <3>2. QED
      BY <1>1, <1>4, <1>6, <1>7, <1>8, <3>1
  <2>3. QED
    BY <2>1, <2>2 DEF Touches, A, w, size
<1>9. CASE a \div 4 = A \div 4 + 1
  <2>1. ~Writes(FirstReq, a)
    BY <1>1, <1>3, <1>9
  <2>2. CASE Crosses
    <3>1. off # 0
      BY <1>1, <1>2, <2>2
    <3>2. Writes(SecondReq, a) <=> Gold!InMem(A) /\ (a % 4) + 4 < off + w
      BY <1>4, <1>6, <1>7, <1>9, <2>2, <3>1
    <3>3. (a % 4) + 4 < off + w <=> A <= a /\ a < A + w
      BY <1>1, <1>2, <1>7, <1>9
    <3>4. QED
      BY <2>1, <2>2, <3>2, <3>3 DEF Touches, A, w, size
  <2>3. CASE ~Crosses
    <3>1. ~(A <= a /\ a < A + w)
      BY <1>1, <1>2, <1>7, <1>9, <2>3
    <3>2. QED
      BY <2>1, <2>3, <3>1 DEF Touches, A, w, size
  <2>4. QED
    BY <2>2, <2>3
<1>10. CASE a \div 4 # A \div 4 /\ a \div 4 # A \div 4 + 1
  <2>1. ~Writes(FirstReq, a)
    BY <1>3, <1>10
  <2>2. ~(Crosses /\ Writes(SecondReq, a))
    <3>1. Crosses => off # 0
      BY <1>1, <1>2
    <3>2. QED
      BY <1>4, <1>6, <1>7, <1>10, <3>1
  <2>3. ~(A <= a /\ a < A + w)
    BY <1>1, <1>2, <1>7, <1>10
  <2>4. QED
    BY <2>1, <2>2, <2>3 DEF Touches, A, w, size
<1>11. QED
  BY <1>8, <1>9, <1>10

\* At the edge at which the LSU answers, all that the access writes is in RAM.
LEMMA AccessDone ==
    ASSUME TypeOK, Control, MemPath, Edge, Cpu!Lsu!respValid(LsuIn)
    PROVE  /\ MemBusy /\ lsu_respValid /\ lsu_latch = PartReq
           /\ lsu_rdata = v_mem_read(mem, uart, PartReq.addr)
           /\ Crosses <=> lsu_state = "LSU_WAIT_MIS_TWO"
           /\ \A a \in MEM_START..MEM_END-1 :
                Touches(a) => mem[a] = Cpu!Lsu!io_wdata(LsuIn)[a % 4]
<1>1. MemBusy /\ lsu_respValid /\ Answered
  BY EdgeHolds, LsuWires, LsuSteps DEF MemPath, ServesPart
<1>2. Holds(PartReq) /\ lsu_latch = PartReq /\ lsu_rdata = v_mem_read(mem, uart, PartReq.addr)
  BY <1>1 DEF Answered
<1>3. Crosses <=> lsu_state = "LSU_WAIT_MIS_TWO"
  BY LsuWires DEF MemPath, PartsMatch
<1>4. FirstReq.wdata = Cpu!Lsu!io_wdata(LsuIn) /\ SecondReq.wdata = Cpu!Lsu!io_wdata(LsuIn)
  BY DEF FirstReq, SecondReq
<1>5. Holds(FirstReq) /\ (Crosses => Holds(SecondReq))
  <2>1. CASE lsu_state = "LSU_WAIT_MIS_TWO"
    BY <1>2, <2>1 DEF PartReq, MemPath, FirstPartKept
  <2>2. CASE lsu_state # "LSU_WAIT_MIS_TWO"
    BY <1>2, <1>3, <2>2 DEF PartReq
  <2>3. QED
    BY <2>1, <2>2
<1>6. \A a \in MEM_START..MEM_END-1 :
        Touches(a) => mem[a] = Cpu!Lsu!io_wdata(LsuIn)[a % 4]
  BY <1>4, <1>5 DEF Touches, Holds
<1>7. QED
  BY <1>1, <1>2, <1>3, <1>6

\* The instruction that retires is a store on both sides or on neither; its
\* operands, and the bytes it writes, are the same.
LEMMA RetiredStore ==
    ASSUME TypeOK, Control, RegistersAgree, InstAgrees, Ordinary, Edge, Cpu!Retires(Io)
    PROVE  /\ IsStore <=> GoldDec.inst_type = "INST_STORE"
           /\ IsStore =>
                /\ Cpu!Lsu!respValid(LsuIn) /\ Addr = GoldAddr
                /\ Cpu!dec.size \in {"LSU_BYTE", "LSU_HALF", "LSU_WORD"}
                /\ Addr \notin MEM_START-3..MEM_START-1
                /\ Cpu!Operands.rdata2 = Gold!rf_read(GoldFields.rs2)
                /\ Cpu!Lsu!Width(Cpu!dec.size) \in 1..4
                /\ Gold!mem_wbmask(GoldFields) = 0..(Cpu!Lsu!Width(Cpu!dec.size) - 1)
<1>1. /\ running /\ phase = "edge" /\ pc = g_pc /\ regs = g_regs
      /\ Cpu!dec = IduD!decode(GoldFields)
      /\ MemBusy <=> Cpu!Exu!is_lsu_inst(Cpu!dec)
      /\ MemBusy => Cpu!Lsu!respValid(LsuIn)
  BY Retiring
<1>2. GoldFields.funct3 \in 0..7 /\ GoldFields.rs2 \in Nat
  BY GoldTypes
<1>3. /\ IsStore <=> GoldFields.opcode = "OPCODE_STORE"
      /\ GoldDec.inst_type = "INST_STORE" <=> GoldFields.opcode = "OPCODE_STORE"
  <2>1. /\ Cpu!dec.type = IduD!inst_type(GoldFields)
        /\ GoldDec.inst_type = Gold!inst_type(GoldFields)
    BY <1>1, RtlFields, GoldDecFields
  <2>2. QED
    BY <1>2, <2>1, SameTypes DEF AluOpcodes, IsStore, Gold!load_type
<1>4. ASSUME IsStore
      PROVE  /\ Cpu!Lsu!respValid(LsuIn) /\ Addr = GoldAddr
             /\ Cpu!dec.size \in {"LSU_BYTE", "LSU_HALF", "LSU_WORD"}
             /\ Addr \notin MEM_START-3..MEM_START-1
             /\ Cpu!Operands.rdata2 = Gold!rf_read(GoldFields.rs2)
             /\ Cpu!Lsu!Width(Cpu!dec.size) \in 1..4
             /\ Gold!mem_wbmask(GoldFields) = 0..(Cpu!Lsu!Width(Cpu!dec.size) - 1)
  <2>1. GoldFields.opcode = "OPCODE_STORE" /\ GoldFields.opcode \in AluOpcodes
    BY <1>3, <1>4 DEF AluOpcodes
  <2>2. Addr = GoldAddr
    BY <1>1, <2>1, SameAddr
  <2>3. GoldFields.funct3 \in 0..2 /\ GoldAddr \notin MEM_START-3..MEM_START-1
    BY <1>1, <2>1 DEF Ordinary
  <2>4. GoldFields.funct3 \in {0, 1, 2}
    BY <2>3
  <2>5. Cpu!dec.size = CASE GoldFields.funct3 = 0 -> "LSU_BYTE"
                         [] GoldFields.funct3 = 1 -> "LSU_HALF"
                         [] GoldFields.funct3 = 2 -> "LSU_WORD"
    BY <1>1, <2>4, RtlFields DEF IduD!size
  <2>6. /\ Cpu!dec.size \in {"LSU_BYTE", "LSU_HALF", "LSU_WORD"}
        /\ Cpu!Lsu!Width(Cpu!dec.size) \in 1..4
        /\ Gold!mem_wbmask(GoldFields) = 0..(Cpu!Lsu!Width(Cpu!dec.size) - 1)
    <3>1. CASE GoldFields.funct3 = 0
      BY <2>1, <2>5, <3>1 DEF Cpu!Lsu!Width, Gold!mem_wbmask
    <3>2. CASE GoldFields.funct3 = 1
      BY <2>1, <2>5, <3>2 DEF Cpu!Lsu!Width, Gold!mem_wbmask
    <3>3. CASE GoldFields.funct3 = 2
      BY <2>1, <2>5, <3>3 DEF Cpu!Lsu!Width, Gold!mem_wbmask
    <3>4. QED
      BY <2>4, <3>1, <3>2, <3>3
  <2>7. Cpu!Operands.rdata2 = Gold!rf_read(GoldFields.rs2)
    BY <1>1, <1>2, SameReads, RtlFields DEF Cpu!Operands
  <2>8. Cpu!Lsu!respValid(LsuIn)
    BY <1>1, <1>4 DEF IsStore, Cpu!Exu!is_lsu_inst
  <2>9. QED
    BY <2>2, <2>3, <2>6, <2>7, <2>8
<1>5. QED
  BY <1>3, <1>4

\* A retirement leaves the same RAM on both sides.
LEMMA RetiredMemory ==
    ASSUME TypeOK, Control, MemPath, MemoryAgrees, RegistersAgree, InstAgrees, Ordinary, Edge,
           Cpu!Retires(Io)
    PROVE  MemoryAgrees'
<1>1. /\ mem' = mem
      /\ DOMAIN g_mem = MEM_START..MEM_END-1
      /\ g_mem' = [a \in DOMAIN g_mem |->
                     IF /\ GoldDec.inst_type = "INST_STORE" /\ Gold!InMem(GoldAddr)
                        /\ a - GoldAddr \in Gold!mem_wbmask(GoldFields)
                     THEN Split(Gold!rf_read(GoldFields.rs2))[a - GoldAddr] ELSE g_mem[a]]
  BY GoldStep, BenchTypes DEF Edge, busVars
<1>2. ASSUME NEW a \in MEM_START..MEM_END-1
      PROVE  mem[a] = g_mem'[a]
  <2>1. CASE ~IsStore
    <3>1. ~Touches(a) /\ GoldDec.inst_type # "INST_STORE"
      BY <2>1, RetiredStore DEF Touches, Writes, FirstReq, SecondReq
    <3>2. QED
      BY <1>1, <3>1 DEF MemoryAgrees
  <2>2. CASE IsStore
    <3> DEFINE A == Addr
               w == Cpu!Lsu!Width(Cpu!dec.size)
    <3>1. /\ Cpu!Lsu!respValid(LsuIn) /\ A = GoldAddr /\ GoldDec.inst_type = "INST_STORE"
          /\ Cpu!Operands.rdata2 = Gold!rf_read(GoldFields.rs2)
          /\ w \in 1..4 /\ Gold!mem_wbmask(GoldFields) = 0..(w - 1)
          /\ A \in Nat /\ a \in Nat
      BY <2>2, RetiredStore, AfterAddr, MapFacts
    <3>2. Touches(a) <=> Gold!InMem(A) /\ A <= a /\ a < A + w
      BY <2>2, RetiredStore, StoreTouches
    <3>3. a - A \in 0..(w - 1) <=> A <= a /\ a < A + w
      <4> HIDE DEF A, w
      <4>1. QED
        BY <3>1
    <3>4. CASE Touches(a)
      <4>1. mem[a] = Cpu!Lsu!io_wdata(LsuIn)[a % 4]
        BY <3>1, <3>4, AccessDone
      <4>2. A <= a /\ a < A + 4
        <5>1. A <= a /\ a < A + w
          BY <3>2, <3>4
        <5> HIDE DEF A, w
        <5>2. QED
          BY <3>1, <5>1
      <4>3. Cpu!Lsu!io_wdata(LsuIn)[a % 4] = Split(Cpu!Operands.rdata2)[a - A]
        BY <3>1, <4>2, CarriedByte
      <4>4. g_mem'[a] = Split(Gold!rf_read(GoldFields.rs2))[a - A]
        BY <1>1, <3>1, <3>2, <3>3, <3>4
      <4>5. QED
        BY <3>1, <4>1, <4>3, <4>4
    <3>5. CASE ~Touches(a)
      <4>1. mem[a] = g_mem[a]
        BY <3>5 DEF MemoryAgrees
      <4>2. g_mem'[a] = g_mem[a]
        BY <1>1, <3>1, <3>2, <3>3, <3>5
      <4>3. QED
        BY <4>1, <4>2
    <3>6. QED
      BY <3>4, <3>5
  <2>3. QED
    BY <2>1, <2>2
<1>3. QED
  BY <1>1, <1>2 DEF MemoryAgrees

-----------------------------------------------------------------------------
(* What a load gives back.                                                  *)

\* The lanes of the word a load gives back: those of the word its first byte is
\* in and, behind the boundary, those of the next word if it takes two parts.
LEMMA LoadedLanes ==
    ASSUME TypeOK, Control, MemPath, Edge, Cpu!Lsu!respValid(LsuIn), ~IsStore, NEW k \in 0..3
    PROVE  Cpu!Lsu!align_rdata(LsuIn)[k] =
             IF (Addr % 4) + k <= 3 THEN v_mem_read(mem, uart, Addr)[(Addr % 4) + k]
             ELSE IF Crosses
                  THEN v_mem_read(mem, uart, Cpu!Lsu!NextWord(Addr))[((Addr % 4) + k) - 4]
                  ELSE v_mem_read(mem, uart, Addr)[((Addr % 4) + k) - 4]
<1> DEFINE off == Addr % 4
           W1  == v_mem_read(mem, uart, Addr)
           W2  == v_mem_read(mem, uart, Cpu!Lsu!NextWord(Addr))
<1>1. /\ off \in 0..3
      /\ Crosses <=> lsu_state = "LSU_WAIT_MIS_TWO"
      /\ Crosses => off # 0
      /\ lsu_respValid /\ lsu_rdata = v_mem_read(mem, uart, PartReq.addr)
      /\ LsuIn.io_respValid = lsu_respValid /\ LsuIn.io_rdata = lsu_rdata /\ LsuIn.addr = Addr
  BY AccessDone, AfterAddr, LsuWires
<1>2. lsu_rdata = IF Crosses THEN W2 ELSE W1
  BY <1>1 DEF PartReq, FirstReq, SecondReq
<1>3. /\ (k + off) % 4 = IF off + k <= 3 THEN off + k ELSE (off + k) - 4
      /\ off + k = k + off
      /\ off # 0 /\ off + k <= 3 => k + off \in 1..3
  BY <1>1
<1>4. Cpu!Lsu!align_rdata(LsuIn)[k] =
        IF off # 0 /\ k + off <= 3 THEN Cpu!Lsu!first_rdata(LsuIn)[k + off]
        ELSE lsu_rdata[(k + off) % 4]
  BY <1>1 DEF Cpu!Lsu!align_rdata, Cpu!Lsu!addr_offset, Cpu!Lsu!Lanes
<1>5. off # 0 /\ k + off <= 3 => Cpu!Lsu!first_rdata(LsuIn)[k + off] = W1[k + off]
  <2>1. CASE Crosses
    <3>1. Cpu!Lsu!first_rdata(LsuIn) = first_rdata_q
      BY <1>1, <2>1 DEF Cpu!Lsu!first_rdata
    <3>2. \A lane \in 1..3 : first_rdata_q[lane] = W1[lane]
      BY <1>1, <2>1 DEF MemPath, FirstPartKept
    <3>3. QED
      BY <1>3, <3>1, <3>2
  <2>2. CASE ~Crosses
    <3>1. Cpu!Lsu!first_rdata(LsuIn) = [lane \in 1..3 |-> lsu_rdata[lane]]
      BY <1>1, <2>2 DEF Cpu!Lsu!first_rdata
    <3>2. QED
      BY <1>2, <1>3, <2>2, <3>1
  <2>3. QED
    BY <2>1, <2>2
<1> HIDE DEF off, W1, W2
<1>6. Cpu!Lsu!align_rdata(LsuIn)[k] =
        IF off + k <= 3 THEN W1[off + k]
        ELSE IF Crosses THEN W2[(off + k) - 4] ELSE W1[(off + k) - 4]
  <2>1. CASE off + k <= 3 /\ off # 0
    BY <1>3, <1>4, <1>5, <2>1
  <2>2. CASE off + k <= 3 /\ off = 0
    BY <1>1, <1>2, <1>3, <1>4, <2>2
  <2>3. CASE ~(off + k <= 3)
    BY <1>2, <1>3, <1>4, <2>3
  <2>4. QED
    BY <2>1, <2>2, <2>3
<1>7. QED
  BY <1>6 DEF off, W1, W2

\* The bytes loaded are those the golden model reads, wherever it can read: in
\* flash and RAM at any offset, in the UART if they do not cross.
LEMMA LoadedBytes ==
    ASSUME TypeOK, Control, MemPath, Edge, Cpu!Lsu!respValid(LsuIn), ~IsStore, mem = g_mem,
           Cpu!dec.size \in {"LSU_BYTE", "LSU_HALF", "LSU_WORD"},
           Gold!ReadMapped(Addr), Gold!InUartRegs(Addr) => ~Crosses
    PROVE  \E l \in Lanes :
             /\ Gold!g_mem_read(Addr) = Joined(l)
             /\ \A k \in 0..(Cpu!Lsu!Width(Cpu!dec.size) - 1) :
                  Cpu!Lsu!align_rdata(LsuIn)[k] = l[k]
<1> DEFINE A    == Addr
           off  == A % 4
           base == 4 * (A \div 4)
           w    == Cpu!Lsu!Width(Cpu!dec.size)
           n    == Cpu!Lsu!NextWord(A)
           al   == Cpu!Lsu!align_rdata(LsuIn)
<1>1. /\ A \in Nat /\ off \in 0..3 /\ w \in 1..4 /\ A = base + off /\ base \in Nat /\ n \in Nat
      /\ Crosses => off # 0
      /\ ~Crosses <=> off + w <= 4
      /\ off # 0 /\ Gold!InFlash(A) => n = base + 4 /\ Gold!InFlash(n)
      /\ off # 0 /\ Gold!InMem(A) => n = base + 4 /\ Gold!InMem(n)
  <2>1. A \in Nat /\ off \in 0..3 /\ n \in {0, base + 4}
    BY AfterAddr
  <2>2. A = base + off /\ base \in Nat
    BY <2>1
  <2>3. w \in 1..4 /\ (~Crosses <=> off + w <= 4)
    BY <2>1, Masks, LsuWires
  <2>4. /\ off # 0 /\ Gold!InFlash(A) => n = base + 4 /\ Gold!InFlash(n)
        /\ off # 0 /\ Gold!InMem(A) => n = base + 4 /\ Gold!InMem(n)
    BY NextMapped
  <2>5. QED
    BY <2>1, <2>2, <2>3, <2>4, LsuWires
<1>2. \A k \in 0..(w - 1) :
        al[k] = IF off + k <= 3 THEN v_mem_read(mem, uart, A)[off + k]
                ELSE IF Crosses THEN v_mem_read(mem, uart, n)[(off + k) - 4]
                ELSE v_mem_read(mem, uart, A)[(off + k) - 4]
  <2>1. \A k \in 0..(w - 1) : k \in 0..3
    BY <1>1
  <2>2. QED
    BY <2>1, LoadedLanes
<1>3. \A k \in 0..(w - 1) : /\ k \in 0..3 /\ off + k \in Nat
                            /\ off + k <= 3 => off + k \in 0..3
                            /\ ~(off + k <= 3) => /\ Crosses /\ (off + k) - 4 \in 0..3
                                                  /\ (base + 4) + ((off + k) - 4) = A + k
                            /\ base + (off + k) = A + k
  <2> HIDE DEF A, off, base, w
  <2>1. QED
    BY <1>1
<1>4. n = base + 4 => 4 * (n \div 4) = base + 4
  <2> DEFINE q == A \div 4
  <2>1. q \in Nat /\ base + 4 = 4 * (q + 1)
    BY <1>1
  <2> HIDE DEF q, base, n
  <2>2. QED
    BY <2>1
<1> HIDE DEF A, off, base, w, n, al
<1>5. CASE Gold!InFlash(A)
  <2> DEFINE l == [lane \in 0..3 |-> flash[A + lane]]
  <2>1. Gold!g_mem_read(A) = Joined(l)
    BY <1>1, <1>5, Regions, SameBytes DEF Gold!g_mem_read
  <2>2. \A lane \in 0..3 : A + lane \in FLASH_START..FLASH_END-1
    BY <1>1, <1>5, MapFacts DEF Gold!InFlash
  <2>3. l \in Lanes
    BY <2>2, BenchTypes DEF Lanes
  <2>4. v_mem_read(mem, uart, A) = [lane \in 0..3 |-> flash[base + lane]]
    BY <1>1, <1>5, Regions DEF v_mem_read, base
  <2>5. Crosses => v_mem_read(mem, uart, n) = [lane \in 0..3 |-> flash[(base + 4) + lane]]
    BY <1>1, <1>4, <1>5, Regions DEF v_mem_read
  <2>6. ASSUME NEW k \in 0..(w - 1)
        PROVE  al[k] = flash[A + k]
    <3>1. CASE off + k <= 3
      BY <1>2, <1>3, <2>4, <3>1
    <3>2. CASE ~(off + k <= 3)
      BY <1>2, <1>3, <2>5, <3>2
    <3>3. QED
      BY <3>1, <3>2
  <2>7. \A k \in 0..(w - 1) : al[k] = l[k]
    BY <1>3, <2>6
  <2> HIDE DEF l
  <2>8. QED
    BY <2>1, <2>3, <2>7 DEF A, w, al
<1>6. CASE Gold!InMem(A)
  <2> DEFINE l == [lane \in 0..3 |-> mem[A + lane]]
  <2>1. Gold!g_mem_read(A) = Joined(l)
    BY <1>1, <1>6, Regions, SameBytes DEF Gold!g_mem_read
  <2>2. \A lane \in 0..3 : A + lane \in MEM_START..MEM_END-1
    BY <1>1, <1>6, MapFacts DEF Gold!InMem
  <2>3. l \in Lanes
    BY <2>2, BenchTypes DEF Lanes
  <2>4. v_mem_read(mem, uart, A) = [lane \in 0..3 |-> mem[base + lane]]
    BY <1>1, <1>6, Regions DEF v_mem_read, base
  <2>5. Crosses => v_mem_read(mem, uart, n) = [lane \in 0..3 |-> mem[(base + 4) + lane]]
    BY <1>1, <1>4, <1>6, Regions DEF v_mem_read
  <2>6. ASSUME NEW k \in 0..(w - 1)
        PROVE  al[k] = mem[A + k]
    <3>1. CASE off + k <= 3
      BY <1>2, <1>3, <2>4, <3>1
    <3>2. CASE ~(off + k <= 3)
      BY <1>2, <1>3, <2>5, <3>2
    <3>3. QED
      BY <3>1, <3>2
  <2>7. \A k \in 0..(w - 1) : al[k] = l[k]
    BY <1>3, <2>6
  <2> HIDE DEF l
  <2>8. QED
    BY <2>1, <2>3, <2>7 DEF A, w, al
<1>7. CASE Gold!InUartRegs(A)
  <2> DEFINE b == uart[A - UART_START]
             l == [lane \in 0..3 |-> b]
  <2>1. A - UART_START \in {0, 1, 2, 3, 5, 6} /\ InUart(A) /\ ~Crosses
    BY <1>1, <1>7, Regions DEF Gold!InUartRegs, Gold!UartRegs, A
  <2>2. vuart[A - UART_START] = b
    BY <2>1 DEF vuart
  <2>3. Gold!g_mem_read(A) = Joined(l)
    BY <1>1, <1>7, <2>2, Regions, SameBytes DEF Gold!g_mem_read
  <2>4. A - UART_START \in 0..UART_END-UART_START-1
    BY <2>1, MapFacts
  <2>5. l \in Lanes
    BY <2>4, BenchTypes DEF Lanes
  <2>6. v_mem_read(mem, uart, A) = l
    BY <1>1, <2>1, Regions DEF v_mem_read
  <2>7. ASSUME NEW k \in 0..(w - 1)
        PROVE  al[k] = b
    BY <1>2, <1>3, <2>1, <2>6
  <2>8. \A k \in 0..(w - 1) : al[k] = l[k]
    BY <1>3, <2>7
  <2> HIDE DEF l
  <2>9. QED
    BY <2>3, <2>5, <2>8 DEF A, w, al
<1>8. QED
  BY <1>5, <1>6, <1>7 DEF A, Gold!ReadMapped

\* No byte of RAM is about to be written while the CPU makes a load.
LEMMA LoadAgrees ==
    ASSUME TypeOK, MemoryAgrees, ~IsStore
    PROVE  mem = g_mem
<1>1. \A a \in MEM_START..MEM_END-1 : mem[a] = g_mem[a]
  BY DEF MemoryAgrees, Touches, Writes, FirstReq, SecondReq
<1>2. /\ mem = [a \in MEM_START..MEM_END-1 |-> mem[a]]
      /\ g_mem = [a \in MEM_START..MEM_END-1 |-> g_mem[a]]
  BY BenchTypes
<1>3. QED
  BY <1>1, <1>2

\* A load that has a name gives a register the same word on both sides.
LEMMA RetiredLoad ==
    ASSUME TypeOK, Control, MemPath, MemoryAgrees, RegistersAgree, InstAgrees, Ordinary, Edge,
           Cpu!Retires(Io), GoldFields.opcode = "OPCODE_LOAD",
           ~Gold!Unmapped(GoldDec, GoldAddr)
    PROVE  /\ Cpu!Exu!is_named_load(Cpu!dec)
           /\ Joined(Cpu!Lsu!rdata(LsuIn)) = Gold!reg_wdata(GoldDec, GoldAddr)
<1> DEFINE f3   == GoldFields.funct3
           size == Cpu!dec.size
           w    == Cpu!Lsu!Width(size)
           sign == Cpu!dec.sign
           al   == Cpu!Lsu!align_rdata(LsuIn)
<1>1. /\ running /\ phase = "edge" /\ pc = g_pc /\ regs = g_regs
      /\ Cpu!dec = IduD!decode(GoldFields)
      /\ MemBusy <=> Cpu!Exu!is_lsu_inst(Cpu!dec)
      /\ MemBusy => Cpu!Lsu!respValid(LsuIn)
  BY Retiring
<1>2. f3 \in 0..7 /\ GoldFields.opcode \in AluOpcodes
  BY GoldTypes DEF AluOpcodes
<1>3. /\ Cpu!dec.type = "INST_LOAD" /\ GoldDec.inst_type = Gold!load_type(f3)
  BY <1>1, <1>2, SameTypes, RtlFields, GoldDecFields
<1>4. f3 \in {0, 1, 2, 4, 5}
  <2>1. GoldDec.inst_type # "INST_UNDEFINED"
    BY DEF Gold!Unmapped
  <2>2. f3 \in {0, 1, 2, 3, 4, 5, 6, 7}
    BY <1>2
  <2>3. QED
    BY <1>3, <2>1, <2>2 DEF Gold!load_type
<1>5. Addr = GoldAddr /\ Cpu!Lsu!respValid(LsuIn) /\ ~IsStore
  BY <1>1, <1>2, <1>3, SameAddr DEF IsStore, Cpu!Exu!is_lsu_inst
<1>6. Gold!ReadMapped(Addr)
  <2>1. GoldDec.inst_type \in Gold!loads
    BY <1>3, <1>4 DEF Gold!load_type, Gold!loads
  <2>2. QED
    BY <1>5, <2>1 DEF Gold!Unmapped
<1>7. /\ size = CASE f3 \in {0, 4} -> "LSU_BYTE"
                  [] f3 \in {1, 5} -> "LSU_HALF"
                  [] f3 = 2        -> "LSU_WORD"
      /\ sign = (f3 < 4) /\ GoldDec.is_mem_sign = (f3 < 4)
  BY <1>1, <1>4, RtlFields, GoldDecFields DEF IduD!size, IduD!sign
<1>8. /\ f3 \in {0, 4} => size = "LSU_BYTE" /\ GoldDec.inst_type = "INST_LOAD_BYTE" /\ w = 1
      /\ f3 \in {1, 5} => size = "LSU_HALF" /\ GoldDec.inst_type = "INST_LOAD_HALF" /\ w = 2
      /\ f3 = 2 => size = "LSU_WORD" /\ GoldDec.inst_type = "INST_LOAD_WORD" /\ w = 4 /\ sign
  <2>1. /\ f3 \in {0, 4} => size = "LSU_BYTE"
        /\ f3 \in {1, 5} => size = "LSU_HALF"
        /\ f3 = 2 => size = "LSU_WORD"
    BY <1>4, <1>7
  <2>2. /\ f3 \in {0, 4} => GoldDec.inst_type = "INST_LOAD_BYTE"
        /\ f3 \in {1, 5} => GoldDec.inst_type = "INST_LOAD_HALF"
        /\ f3 = 2 => GoldDec.inst_type = "INST_LOAD_WORD"
    BY <1>3, <1>4 DEF Gold!load_type
  <2>3. /\ f3 \in {0, 4} => w = 1
        /\ f3 \in {1, 5} => w = 2
        /\ f3 = 2 => w = 4
    BY <2>1 DEF Cpu!Lsu!Width
  <2>4. f3 = 2 => sign
    <3>1. f3 = 2 => f3 < 4
      BY <1>4
    <3>2. QED
      BY <1>7, <3>1
  <2> HIDE DEF w, sign, size
  <2>5. QED
    BY <2>1, <2>2, <2>3, <2>4
<1>9. Gold!InUartRegs(Addr) => ~Crosses
  <2>1. Gold!InUartRegs(Addr) => Gold!InUart(GoldAddr)
    BY <1>5, MapFacts, AfterAddr DEF Gold!InUartRegs, Gold!UartRegs, Gold!InUart
  <2>2. Gold!InUart(GoldAddr) => /\ f3 \in {1, 5} => Addr % 4 # 3
                                 /\ f3 = 2 => Addr % 4 = 0
    BY <1>1, <1>5 DEF Ordinary
  <2>3. QED
    BY <1>4, <1>8, <2>1, <2>2, LsuWires
<1>10. PICK l \in Lanes :
         /\ Gold!g_mem_read(Addr) = Joined(l)
         /\ \A k \in 0..(w - 1) : al[k] = l[k]
  <2>1. size \in {"LSU_BYTE", "LSU_HALF", "LSU_WORD"}
    BY <1>4, <1>8
  <2>2. QED
    BY <1>5, <1>6, <1>9, <2>1, LoadAgrees, LoadedBytes
<1>11. Cpu!Lsu!rdata(LsuIn) =
         [k \in 0..3 |-> IF k < w THEN al[k] ELSE Cpu!Lsu!Extension(al[w - 1], sign)]
  BY LsuWires DEF Cpu!Lsu!rdata, Cpu!Lsu!Lanes
<1> HIDE DEF al, w, sign
<1>12. CASE f3 = 2
  <2>1. \A k \in 0..3 : k < w /\ al[k] = l[k]
    BY <1>8, <1>10, <1>12
  <2>2. Cpu!Lsu!rdata(LsuIn) = [k \in 0..3 |-> l[k]]
    BY <1>11, <2>1
  <2>3. l = [k \in 0..3 |-> l[k]]
    BY DEF Lanes
  <2>4. Gold!reg_wdata(GoldDec, GoldAddr) = Joined(l)
    BY <1>5, <1>8, <1>10, <1>12 DEF Gold!reg_wdata
  <2>5. Cpu!Exu!is_named_load(Cpu!dec)
    BY <1>3, <1>8, <1>12 DEF Cpu!Exu!is_named_load, sign
  <2>6. QED
    BY <2>2, <2>3, <2>4, <2>5
<1>13. CASE f3 \in {0, 1, 4, 5}
  <2>1. w \in {1, 2} /\ sign \in BOOLEAN /\ GoldDec.is_mem_sign = sign
    BY <1>7, <1>8, <1>13 DEF sign
  <2>2. \A k \in 0..3 : k < w => al[k] = l[k]
    BY <1>10, <2>1
  <2>3. w - 1 \in 0..(w - 1) /\ w - 1 \in 0..3
    BY <2>1
  <2>4. al[w - 1] = l[w - 1] /\ l[w - 1] \in AllBytes
    BY <1>10, <2>3 DEF Lanes
  <2>5. Cpu!Lsu!Extension(al[w - 1], sign)
          = IF sign /\ 2 * l[w - 1] >= ByteSize THEN ByteSize - 1 ELSE 0
    BY <2>4 DEF Cpu!Lsu!Extension
  <2>6. Cpu!Lsu!rdata(LsuIn) = ExtendedLanes(l, w, sign)
    BY <1>11, <2>2, <2>5 DEF ExtendedLanes
  <2>7. Joined(Cpu!Lsu!rdata(LsuIn)) = Extended(Gold!g_mem_read(Addr), w, sign)
    BY <1>10, <2>1, <2>6, ExtendedIs
  <2>8. Gold!reg_wdata(GoldDec, GoldAddr) = Extended(Gold!g_mem_read(Addr), w, sign)
    <3>1. CASE f3 \in {0, 4}
      BY <1>5, <1>8, <2>1, <3>1, SameBytes DEF Gold!reg_wdata
    <3>2. CASE f3 \in {1, 5}
      BY <1>5, <1>8, <2>1, <3>2, SameBytes DEF Gold!reg_wdata
    <3>3. QED
      BY <1>13, <3>1, <3>2
  <2>9. Cpu!Exu!is_named_load(Cpu!dec)
    BY <1>3, <1>8, <1>13 DEF Cpu!Exu!is_named_load
  <2>10. QED
    BY <2>7, <2>8, <2>9
<1>14. QED
  BY <1>4, <1>12, <1>13

-----------------------------------------------------------------------------
(* What the instruction leaves behind.                                      *)

\* What the EXU sees and drives, in terms of the access.
LEMMA ExuWires ==
    LET in == Cpu!ExuIn(Io)
    IN  /\ Cpu!Exu!alu_res(in) = Addr
        /\ Cpu!Exu!pc_inc(in) = (pc + 4) % Modulus
        /\ Cpu!Exu!com_res(in) = AluI!com(Cpu!dec.com_op, Cpu!Operands.rdata1, Cpu!Operands.rdata2)
        /\ in.dec = Cpu!dec /\ in.pc = pc
        /\ in.lsu_rdata = Joined(Cpu!Lsu!rdata(LsuIn))
<1> DEFINE in == Cpu!ExuIn(Io)
<1>1. /\ in.dec = Cpu!dec /\ in.pc = pc
      /\ in.rdata1 = Cpu!Operands.rdata1 /\ in.rdata2 = Cpu!Operands.rdata2
      /\ in.lsu_rdata = Joined(Cpu!Lsu!rdata(LsuIn))
  BY DEF Cpu!ExuIn, LsuIn
<1>2. Cpu!Operands.dec = Cpu!dec /\ Cpu!Operands.pc = pc
  BY DEF Cpu!Operands
<1> HIDE DEF in
<1>3. Cpu!Exu!alu_res(in) = Addr
  BY <1>1, <1>2 DEF Cpu!Exu!alu_res, Cpu!Exu!alu_lhs, Cpu!Exu!alu_rhs, Addr
<1>4. Cpu!Exu!pc_inc(in) = (pc + 4) % Modulus
  BY <1>1 DEF Cpu!Exu!pc_inc
<1>5. Cpu!Exu!com_res(in) = AluI!com(Cpu!dec.com_op, Cpu!Operands.rdata1, Cpu!Operands.rdata2)
  BY <1>1 DEF Cpu!Exu!com_res
<1>6. QED
  BY <1>1, <1>3, <1>4, <1>5 DEF in

\* If the golden model answers for the instruction, both sides write the same
\* register or none, the same word to it, and go on at the same address.
LEMMA RetiredResult ==
    ASSUME TypeOK, Control, MemPath, MemoryAgrees, RegistersAgree, InstAgrees, Ordinary, Edge,
           Cpu!Retires(Io), ~Gold!Unmapped(GoldDec, GoldAddr)
    PROVE  /\ Cpu!Exu!writes_register(Cpu!dec)
                <=> GoldDec.inst_type \notin {"INST_STORE", "INST_BRANCH", "INST_UNDEFINED"}
           /\ Cpu!Exu!writes_register(Cpu!dec) =>
                Cpu!Exu!rf_wdata(Cpu!ExuIn(Io)) = Gold!reg_wdata(GoldDec, GoldAddr)
           /\ Cpu!Exu!pc_next(Cpu!ExuIn(Io)) =
                IF \/ GoldDec.inst_type \in {"INST_JUMP", "INST_JUMPR"}
                   \/ /\ GoldDec.inst_type = "INST_BRANCH"
                      /\ Gold!compare(GoldDec.com_op, Gold!rf_read(GoldFields.rs1),
                                      Gold!rf_read(GoldFields.rs2))
                THEN GoldAddr ELSE (g_pc + 4) % Modulus
<1> DEFINE op == GoldFields.opcode
           f3 == GoldFields.funct3
           t  == Cpu!dec.type
           g  == GoldDec.inst_type
           in == Cpu!ExuIn(Io)
<1>1. /\ running /\ phase = "edge" /\ pc = g_pc /\ regs = g_regs
      /\ Cpu!dec = IduD!decode(GoldFields)
  BY Retiring
<1>2. f3 \in 0..7 /\ GoldFields.rs1 \in Nat /\ GoldFields.rs2 \in Nat
  BY GoldTypes
<1>3. t = IduD!inst_type(GoldFields) /\ g = Gold!inst_type(GoldFields)
  BY <1>1, RtlFields, GoldDecFields
<1>4. /\ g # "INST_UNDEFINED"
      /\ op \in AluOpcodes \cup {"OPCODE_LUI"}
  <2>1. g # "INST_UNDEFINED"
    BY DEF Gold!Unmapped
  <2>2. QED
    BY <1>2, <1>3, <2>1, SameTypes
<1>5. /\ op = "OPCODE_CALC_IMM" => t = "INST_IMM"    /\ g = "INST_IMM"
      /\ op = "OPCODE_CALC_REG" => t = "INST_REG"    /\ g = "INST_REG"
      /\ op = "OPCODE_LOAD"     => t = "INST_LOAD"   /\ g \in Gold!loads
      /\ op = "OPCODE_STORE"    => t = "INST_STORE"  /\ g = "INST_STORE"
      /\ op = "OPCODE_LUI"      => t = "INST_UPP"    /\ g = "INST_UPP"
      /\ op = "OPCODE_AUIPC"    => t = "INST_AUIPC"  /\ g = "INST_AUIPC"
      /\ op = "OPCODE_JALR"     => t = "INST_JUMPR"  /\ g = "INST_JUMPR"
      /\ op = "OPCODE_JAL"      => t = "INST_JUMP"   /\ g = "INST_JUMP"
      /\ op = "OPCODE_BRANCH"   => t = "INST_BRANCH" /\ g = "INST_BRANCH"
  BY <1>2, <1>3, <1>4, SameTypes DEF Gold!load_type, Gold!loads
<1>6. op # "OPCODE_LUI" => Addr = GoldAddr
  BY <1>1, <1>4, SameAddr
<1>7. /\ in.dec = Cpu!dec /\ in.pc = pc
      /\ Cpu!Exu!alu_res(in) = Addr
      /\ Cpu!Exu!pc_inc(in) = (g_pc + 4) % Modulus
      /\ Cpu!Exu!com_res(in) = AluI!com(Cpu!dec.com_op, Cpu!Operands.rdata1, Cpu!Operands.rdata2)
      /\ in.lsu_rdata = Joined(Cpu!Lsu!rdata(LsuIn))
      /\ Cpu!Exu!is_named_load(in.dec) => t = "INST_LOAD"
  BY <1>1, ExuWires DEF Cpu!Exu!is_named_load
<1> HIDE DEF op, f3, t, g, in
<1>8. Cpu!Exu!writes_register(Cpu!dec) <=> g \notin {"INST_STORE", "INST_BRANCH", "INST_UNDEFINED"}
  BY <1>4, <1>5 DEF Cpu!Exu!writes_register, AluOpcodes, Gold!loads, t
<1>9. ASSUME Cpu!Exu!writes_register(Cpu!dec)
      PROVE  Cpu!Exu!rf_wdata(in) = Gold!reg_wdata(GoldDec, GoldAddr)
  <2>1. CASE op = "OPCODE_LUI"
    <3>1. Cpu!Exu!alu_res(in) = GoldFields.imm
      <4>1. Cpu!dec.alu_op = 11 /\ Cpu!dec.imm = GoldFields.imm
        BY <1>1, <2>1, RtlFields DEF IduD!alu_op, IduD!imm, IduD!opcodes, op
      <4>2. Cpu!Exu!alu_rhs(in) = GoldFields.imm
        BY <1>5, <1>7, <2>1, <4>1 DEF Cpu!Exu!alu_rhs, t
      <4>3. \A a, b : AluI!alu(11, a, b) = b
        BY DEF AluI!alu, AluI!ALU_OP_ADD, AluI!ALU_OP_SUB, AluI!ALU_OP_XOR,
          AluI!ALU_OP_AND, AluI!ALU_OP_ANDN, AluI!ALU_OP_OR, AluI!ALU_OP_SLL, AluI!ALU_OP_SRL,
          AluI!ALU_OP_SRA, AluI!ALU_OP_SLT, AluI!ALU_OP_SLTU, AluI!ALU_OP_LHS, AluI!ALU_OP_RHS
      <4>4. QED
        BY <1>7, <4>1, <4>2, <4>3 DEF Cpu!Exu!alu_res
    <3>2. Cpu!Exu!rf_wdata(in) = GoldFields.imm
      BY <1>5, <1>7, <2>1, <3>1 DEF Cpu!Exu!rf_wdata, t
    <3>3. Gold!reg_wdata(GoldDec, GoldAddr) = GoldFields.imm
      BY <1>5, <2>1, GoldDecFields DEF Gold!reg_wdata, g, op
    <3>4. QED
      BY <3>2, <3>3
  <2>2. CASE op \in {"OPCODE_JAL", "OPCODE_JALR"}
    <3>1. Cpu!Exu!rf_wdata(in) = (g_pc + 4) % Modulus
      BY <1>5, <1>7, <2>2 DEF Cpu!Exu!rf_wdata, t
    <3>2. Gold!reg_wdata(GoldDec, GoldAddr) = (g_pc + 4) % Modulus
      BY <1>5, <2>2, SameWords DEF Gold!reg_wdata, g
    <3>3. QED
      BY <3>1, <3>2
  <2>3. CASE op \in {"OPCODE_AUIPC", "OPCODE_CALC_IMM", "OPCODE_CALC_REG"}
    <3>1. Cpu!Exu!rf_wdata(in) = Addr
      BY <1>5, <1>7, <2>3 DEF Cpu!Exu!rf_wdata, t
    <3>2. Gold!reg_wdata(GoldDec, GoldAddr) = GoldAddr
      BY <1>5, <2>3 DEF Gold!reg_wdata, g
    <3>3. QED
      BY <1>6, <2>3, <3>1, <3>2
  <2>4. CASE op = "OPCODE_LOAD"
    <3>1. /\ Cpu!Exu!is_named_load(Cpu!dec)
          /\ Joined(Cpu!Lsu!rdata(LsuIn)) = Gold!reg_wdata(GoldDec, GoldAddr)
      BY <2>4, RetiredLoad DEF op
    <3>2. t = "INST_LOAD"
      BY <1>5, <2>4
    <3>3. Cpu!Exu!rf_wdata(in) = in.lsu_rdata
      BY <1>7, <3>1, <3>2 DEF Cpu!Exu!rf_wdata, t
    <3>4. QED
      BY <1>7, <3>1, <3>3
  <2>5. QED
    BY <1>4, <1>5, <1>8, <1>9, <2>1, <2>2, <2>3, <2>4 DEF AluOpcodes
<1>10. op = "OPCODE_BRANCH" =>
         (Cpu!Exu!com_res(in) <=> Gold!compare(GoldDec.com_op, Gold!rf_read(GoldFields.rs1),
                                               Gold!rf_read(GoldFields.rs2)))
  <2>1. SUFFICES ASSUME op = "OPCODE_BRANCH"
                 PROVE  Cpu!Exu!com_res(in) <=>
                          Gold!compare(GoldDec.com_op, Gold!rf_read(GoldFields.rs1),
                                       Gold!rf_read(GoldFields.rs2))
    OBVIOUS
  <2>2. Cpu!dec.com_op = f3 /\ GoldDec.com_op = f3
    BY <1>1, <2>1, RtlFields, GoldDecFields DEF IduD!com_op, op, f3
  <2>3. f3 # 2
    BY <1>1, <2>1 DEF Ordinary, op, f3
  <2>4. /\ Cpu!Operands.rdata1 = Gold!rf_read(GoldFields.rs1)
        /\ Cpu!Operands.rdata2 = Gold!rf_read(GoldFields.rs2)
    BY <1>1, <1>2, SameReads, RtlFields DEF Cpu!Operands
  <2>5. Gold!rf_read(GoldFields.rs1) \in AllWords /\ Gold!rf_read(GoldFields.rs2) \in AllWords
    BY <1>2, GoldTypes
  <2>6. Gold!compare(f3, Gold!rf_read(GoldFields.rs1), Gold!rf_read(GoldFields.rs2)) <=>
          AluI!com(f3, Gold!rf_read(GoldFields.rs1), Gold!rf_read(GoldFields.rs2))
    BY <1>2, <2>3, <2>5, SameCom
  <2>7. QED
    BY <1>7, <2>2, <2>4, <2>6
<1>11. Cpu!Exu!pc_next(in) =
         IF \/ g \in {"INST_JUMP", "INST_JUMPR"}
            \/ /\ g = "INST_BRANCH"
               /\ Gold!compare(GoldDec.com_op, Gold!rf_read(GoldFields.rs1),
                               Gold!rf_read(GoldFields.rs2))
         THEN GoldAddr ELSE (g_pc + 4) % Modulus
  <2> DEFINE c == Gold!compare(GoldDec.com_op, Gold!rf_read(GoldFields.rs1),
                               Gold!rf_read(GoldFields.rs2))
  <2>1. Cpu!Exu!is_pc_jump(in) <=> \/ t \in {"INST_JUMP", "INST_JUMPR"}
                                   \/ t = "INST_BRANCH" /\ Cpu!Exu!com_res(in)
    BY <1>7 DEF Cpu!Exu!is_pc_jump, t
  <2>2. /\ t \in {"INST_JUMP", "INST_JUMPR"} <=> g \in {"INST_JUMP", "INST_JUMPR"}
        /\ t = "INST_BRANCH" <=> g = "INST_BRANCH"
        /\ g = "INST_BRANCH" => op = "OPCODE_BRANCH"
        /\ g \in {"INST_JUMP", "INST_JUMPR", "INST_BRANCH"} => op # "OPCODE_LUI"
    BY <1>4, <1>5 DEF AluOpcodes, Gold!loads
  <2>3. op = "OPCODE_BRANCH" => (Cpu!Exu!com_res(in) <=> c)
    BY <1>10
  <2> HIDE DEF c
  <2>4. Cpu!Exu!is_pc_jump(in) <=> g \in {"INST_JUMP", "INST_JUMPR"} \/ (g = "INST_BRANCH" /\ c)
    BY <2>1, <2>2, <2>3
  <2>5. Cpu!Exu!is_pc_jump(in) => Cpu!Exu!pc_next(in) = GoldAddr
    BY <1>6, <1>7, <2>2, <2>4 DEF Cpu!Exu!pc_next
  <2>6. ~Cpu!Exu!is_pc_jump(in) => Cpu!Exu!pc_next(in) = (g_pc + 4) % Modulus
    BY <1>7 DEF Cpu!Exu!pc_next
  <2>7. QED
    BY <2>4, <2>5, <2>6 DEF c
<1>12. QED
  BY <1>8, <1>9, <1>11 DEF g, in

\* A retirement leaves the same registers and program counter on both sides, if
\* the golden model answers for the instruction.
LEMMA RetiredRegisters ==
    ASSUME TypeOK, Control, MemPath, MemoryAgrees, RegistersAgree, InstAgrees, Ordinary, Edge,
           Cpu!Retires(Io)
    PROVE  RegistersAgree'
<1> DEFINE data  == Cpu!Exu!rf_wdata(Cpu!ExuIn(Io))
           gdata == Gold!reg_wdata(GoldDec, GoldAddr)
           wen   == Cpu!Exu!writes_register(Cpu!dec)
           gwen  == GoldDec.inst_type \notin {"INST_STORE", "INST_BRANCH", "INST_UNDEFINED"}
           rd    == GoldFields.rd
<1>1. phase' = "compare" /\ regs = g_regs /\ regs[0] = 0 /\ g_regs[0] = 0 /\ Gold!cpu_eval
  BY Retiring DEF RegistersAgree, Edge
<1>2. Cpu!dec.rd = rd /\ rd \in Nat
  BY Retiring, RtlFields, GoldTypes
<1>3. /\ regs' = IF wen /\ rd # 0 /\ rd < N_REGS THEN [regs EXCEPT ![rd] = data] ELSE regs
      /\ pc' = Cpu!Exu!pc_next(Cpu!ExuIn(Io))
  <2>1. Cpu!ExuIn(Io).dec = Cpu!dec
    BY DEF Cpu!ExuIn
  <2>2. Cpu!Exu!rf_wen(Cpu!ExuIn(Io)) <=> wen
    BY <2>1 DEF Cpu!Exu!rf_wen, Cpu!Retires
  <2>3. QED
    BY <1>2, <2>2 DEF Edge, Cpu!Clock, Cpu!Rf!Clock
<1>4. /\ g_regs' = IF gwen /\ rd # 0 /\ rd < N_REGS THEN [g_regs EXCEPT ![rd] = gdata] ELSE g_regs
      /\ g_is_not_mapped' = (g_is_not_mapped \/ Gold!Unmapped(GoldDec, GoldAddr))
  BY <1>1, GoldStep
<1>5. g_pc' = IF \/ GoldDec.inst_type \in {"INST_JUMP", "INST_JUMPR"}
                 \/ /\ GoldDec.inst_type = "INST_BRANCH"
                    /\ Gold!compare(GoldDec.com_op, Gold!rf_read(GoldFields.rs1),
                                    Gold!rf_read(GoldFields.rs2))
              THEN GoldAddr ELSE (g_pc + 4) % Modulus
  BY <1>1, GoldStep
<1> HIDE DEF data, gdata, wen, gwen, rd
<1>6. regs'[0] = 0 /\ g_regs'[0] = 0
  BY <1>1, <1>3, <1>4
<1>7. ~Gold!Unmapped(GoldDec, GoldAddr) => pc' = g_pc' /\ regs' = g_regs'
  <2>1. SUFFICES ASSUME ~Gold!Unmapped(GoldDec, GoldAddr)
                 PROVE  pc' = g_pc' /\ regs' = g_regs'
    OBVIOUS
  <2>2. (wen <=> gwen) /\ (wen => data = gdata) /\ pc' = g_pc'
    BY <1>3, <1>5, <2>1, RetiredResult DEF wen, gwen, data, gdata
  <2>3. regs' = g_regs'
    BY <1>1, <1>3, <1>4, <2>2
  <2>4. QED
    BY <2>2, <2>3
<1>8. QED
  BY <1>1, <1>4, <1>6, <1>7 DEF RegistersAgree

-----------------------------------------------------------------------------
(* Both sides agree.                                                        *)

\* The inductive invariant.  It is relative to Ordinary: a program that does
\* otherwise makes the two sides differ.
Inv == /\ TypeOK /\ Counted /\ Control
       /\ MemPath /\ MemoryAgrees
       /\ ServesFetch /\ CacheAgrees /\ InstAgrees
       /\ RegistersAgree

\* At first nothing is fetched, and RAM and registers are empty on both sides.
LEMMA InitInv ==
    ASSUME Init
    PROVE  Inv
<1>1. TypeOK /\ Counted /\ Control /\ MemPath
  BY InitType, InitControl, InitPath
<1>2. MemoryAgrees
  BY DEF Init, Gold!Init, MemoryAgrees
<1>3. /\ ~ifu_reqValid /\ ifu_state = "IFU_IDLE" /\ ~ifu_reqPending /\ ~ifu_respValid
      /\ ~idu_respValid /\ lsu_state = "LSU_IDLE"
      /\ lines = [i \in 0..LINE_N-1 |-> [valid |-> FALSE, tag |-> 0, data |-> 0]]
  BY DEF Init, Cpu!Init, Cpu!Ifu!Init, Cpu!Idu!Init, Cpu!Lsu!Init, IfuChannel!Init
<1>4. ServesFetch /\ InstAgrees
  BY <1>3 DEF ServesFetch, InstAgrees, FetchBusy
<1>5. CacheAgrees
  BY <1>3 DEF CacheAgrees
<1>6. RegistersAgree
  <2>1. /\ pc = INITIAL_PC /\ g_pc = INITIAL_PC /\ phase = "low"
        /\ regs = [r \in 0..N_REGS-1 |-> 0] /\ g_regs = [r \in 0..N_REGS-1 |-> 0]
    BY DEF Init, Cpu!Init, Cpu!Rf!Init, Gold!Init
  <2>2. regs[0] = 0 /\ g_regs[0] = 0 /\ regs = g_regs
    BY <2>1, BenchAssumption
  <2>3. FLASH_START <= INITIAL_PC /\ INITIAL_PC < FLASH_END - 3
    BY MapAssumption, MapFacts
  <2>4. QED
    BY <2>1, <2>2, <2>3 DEF RegistersAgree, IsCode, Gold!InFlash
<1>7. QED
  BY <1>1, <1>2, <1>4, <1>5, <1>6 DEF Inv

\* Every step of an ordinary program keeps it.
LEMMA StepInv ==
    ASSUME Inv, Ordinary, [Next]_vars
    PROVE  Inv'
<1>1. TypeOK' /\ Counted' /\ Control'
  BY StepType, StepControl DEF Inv
<1>2. MemPath'
  BY StepPath DEF Inv
<1>3. ServesFetch' /\ InstAgrees' /\ CacheAgrees'
  BY StepServesFetch, StepInst, StepCache DEF Inv
<1>4. MemoryAgrees' /\ RegistersAgree'
  <2>1. CASE Edge /\ Cpu!Retires(Io)
    BY <2>1, RetiredMemory, RetiredRegisters DEF Inv
  <2>2. CASE ~(Edge /\ Cpu!Retires(Io))
    BY <2>2, StepAgrees, StepRegisters DEF Inv
  <2>3. QED
    BY <2>1, <2>2
<1>5. QED
  BY <1>1, <1>2, <1>3, <1>4 DEF Inv

\* The invariant holds as long as the program is ordinary.
LEMMA InvHolds == Spec /\ []Ordinary => []Inv
<1>1. Init => Inv
  BY InitInv
<1>2. Inv /\ Ordinary /\ [Next]_vars => Inv'
  BY StepInv
<1>3. QED
  BY <1>1, <1>2, PTL DEF Spec

\* When the bench compares, RAM is the same on both sides.
LEMMA SameRam ==
    ASSUME Inv, phase = "compare" \/ is_start
    PROVE  mem = g_mem
<1>1. ~MemBusy
  <2>1. CASE phase = "compare"
    BY <2>1, RetiredIdle DEF Inv
  <2>2. CASE is_start
    BY <2>2 DEF Inv, Control, OneInPlace, Cpu!Starting, Cpu!InMemory, Cpu!Decoding,
       MemBusy, Cpu!lsu_reqValid
  <2>3. QED
    BY <2>1, <2>2
<1>2. QED
  BY <1>1, RestAgrees DEF Inv

\* Whatever program the bench generates and however long memory takes, after
\* every instruction the golden model answers for, pc, registers and RAM of the
\* CPU are those of the golden model, provided that the program is ordinary
\* (soc_main.cpp:835-856).
THEOREM LockstepAgrees == Spec /\ []Ordinary => []Agree
<1>1. Inv => Agree
  BY SameRam DEF Inv, RegistersAgree, Agree
<1>2. QED
  BY <1>1, InvHolds, PTL

\* A test starts with the same RAM on both sides (soc_main.cpp:636-670).
THEOREM LockstepSameAtStart == Spec /\ []Ordinary => []SameAtStart
<1>1. Inv => SameAtStart
  BY SameRam DEF SameAtStart
<1>2. QED
  BY <1>1, InvHolds, PTL

\* One byte of RAM in a word makes a difference to the word.
LEMMA SpoiltWord ==
    ASSUME TypeOK, NEW w \in Nat, w % 4 = 0, Gold!InMem(w), NEW lane \in 0..3,
           NEW byte \in AllBytes, byte # mem[w + lane]
    PROVE  Joined(v_mem_read([mem EXCEPT ![w + lane] = byte], uart, w))
             # Joined([k \in 0..3 |-> mem[w + k]])
<1> DEFINE m  == [mem EXCEPT ![w + lane] = byte]
           l1 == [k \in 0..3 |-> m[w + k]]
           l2 == [k \in 0..3 |-> mem[w + k]]
<1>1. \A k \in 0..3 : w + k \in MEM_START..MEM_END-1
  BY MapFacts DEF Gold!InMem
<1>2. mem \in [MEM_START..MEM_END-1 -> AllBytes] /\ m \in [MEM_START..MEM_END-1 -> AllBytes]
  BY BenchTypes
<1>3. l1 \in Lanes /\ l2 \in Lanes
  BY <1>1, <1>2 DEF Lanes
<1>4. l1[lane] = byte /\ l2[lane] = mem[w + lane]
  BY <1>1, <1>2
<1>5. v_mem_read(m, uart, w) = l1
  <2>1. 4 * (w \div 4) = w
    OBVIOUS
  <2>2. QED
    BY <2>1, Regions DEF v_mem_read
<1> HIDE DEF m, l1, l2
<1>6. Joined(l1) # Joined(l2)
  <2>1. Split(Joined(l1)) = l1 /\ Split(Joined(l2)) = l2
    BY <1>3, SplitJoined
  <2>2. l1 # l2
    BY <1>4
  <2>3. QED
    BY <2>1, <2>2
<1>7. QED
  BY <1>5, <1>6 DEF m, l2

\* The quick comparison looks at every byte a store may have written: had one
\* been spoilt, it would have seen it (soc_main.cpp:849-870).
THEOREM LockstepQuickSees == Spec /\ []Ordinary => []QuickSeesTheStore
<1>1. ASSUME Inv
      PROVE  QuickSeesTheStore
  <2> DEFINE A == g_written_address
  <2>1. SUFFICES ASSUME phase = "compare", g_is_mem_write, Gold!InMem(A), NEW lane \in 0..3,
                        NEW byte \in AllBytes, byte # mem[A + lane]
                 PROVE  Differs([mem EXCEPT ![A + lane] = byte])
    BY DEF QuickSeesTheStore
  <2>2. TypeOK /\ mem = g_mem /\ A \in Nat
    <3>1. TypeOK
      BY <1>1 DEF Inv
    <3>2. mem = g_mem
      BY <1>1, <2>1, SameRam
    <3>3. A \in Nat
      BY <3>1, BenchTypes, MapFacts DEF AllWords
    <3>4. QED
      BY <3>1, <3>2, <3>3
  <2> DEFINE a == A + lane
             w == 4 * (a \div 4)
             k == a % 4
  <2>3. /\ a \in Nat /\ w \in Nat /\ k \in 0..3 /\ a = w + k /\ w % 4 = 0
        /\ w = 4 * (A \div 4) + 0 \/ w = 4 * (A \div 4) + 4
    BY <2>2
  <2>4. A \in LastWritten
    <3>1. A \in MEM_START..(MEM_END - 3)
      BY <2>1, <2>2, MapFacts DEF Gold!InMem
    <3>2. QED
      BY <2>1, <3>1 DEF LastWritten
  <2>5. w \in ComparedWords
    <3>1. PICK off \in {0, 4} : w = 4 * (A \div 4) + off
      BY <2>3
    <3> HIDE DEF w, A
    <3>2. LastWritten \subseteq Nat
      BY MapFacts DEF LastWritten
    <3>3. QED
      BY <2>4, <3>1, <3>2 DEF ComparedWords
  <2>6. Gold!InMem(w)
    BY <2>1, <2>2, <2>3, MapFacts DEF Gold!InMem
  <2> HIDE DEF w, k, a
  <2>7. Gold!g_mem_read(w) = Joined([x \in 0..3 |-> mem[w + x]])
    BY <2>2, <2>3, <2>6, Regions, SameBytes DEF Gold!g_mem_read
  <2>8. [mem EXCEPT ![w + k] = byte] = [mem EXCEPT ![A + lane] = byte] /\ byte # mem[w + k]
    BY <2>1, <2>3 DEF a
  <2>9. Joined(v_mem_read([mem EXCEPT ![w + k] = byte], uart, w)) # Gold!g_mem_read(w)
    BY <2>2, <2>3, <2>6, <2>7, <2>8, SpoiltWord
  <2>10. QED
    BY <2>5, <2>8, <2>9 DEF Differs
<1>2. QED
  BY <1>1, InvHolds, PTL

-----------------------------------------------------------------------------
(* What is printed.  The LSU keeps its request up for two cycles, and the  *)
(* bench takes it twice; as long as no answer comes within them, the second *)
(* taking only starts the waiting anew, and the request is served once.     *)

\* No access is answered before its second cycle has begun: with shorter delays
\* a byte is printed twice.
SlowEnough == MinDelay >= 2 /\ MinDelay < MaxDelay

\* As long as the LSU asks, its request is pending with some waiting left;
\* when no access is under way it neither asks nor has anything pending.
Timely ==
    /\ MemBusy /\ phase \in {"low", "edge"} /\ (Cpu!lsu_reqValid \/ io_reqValid_q) =>
         lsu_reqPending /\ lsu_waitTicks >= IF phase = "low" THEN 2 ELSE 1
    /\ ~MemBusy => ~lsu_reqPending /\ ~io_reqValid_q

\* The access under way sends a byte; it is a store that reaches from below
\* into the UART; its request is still to be served.
SendsByte == IsStore /\ Addr = UART_START

Straddles == IsStore /\ Crosses /\ Cpu!Lsu!NextWord(Addr) = UART_START

ToServe == lsu_reqPending \/ (phase = "high" /\ (Cpu!lsu_reqValid \/ io_reqValid_q))

\* The bench has printed what the golden model has sent and, from the moment it
\* serves the store under way, the byte that this one sends.
PrintedAgrees ==
    ~g_is_not_mapped =>
      /\ ~MemBusy => printed = sent
      /\ MemBusy /\ ~Straddles =>
           printed = IF SendsByte /\ ~ToServe
                     THEN Append(sent, Split(Cpu!Operands.rdata2)[0]) ELSE sent

\* How long a request waits.
LEMMA LsuTiming ==
    ASSUME SlowEnough, TypeOK, NEW sampled \in BOOLEAN, SubtickLsu(sampled)
    PROVE  /\ sampled => lsu_reqPending' /\ lsu_waitTicks' >= 2
           /\ ~sampled /\ lsu_reqPending /\ lsu_waitTicks >= 2 =>
                lsu_reqPending' /\ lsu_waitTicks' >= 1
           /\ ~sampled /\ ~lsu_reqPending => ~lsu_reqPending'
<1>1. PICK delay \in LsuChannel!Delays :
        LsuChannel!Subtick(sampled, Cpu!Lsu!Request(LsuIn), delay)
  BY DEF SubtickLsu
<1>2. /\ lsu_reqPending' = ((lsu_reqPending \/ sampled) /\ ~LsuChannel!Answers(sampled, delay))
      /\ lsu_waitTicks' = LsuChannel!WaitLeft(sampled, delay)
      /\ LsuChannel!Answers(sampled, delay) <=>
           (lsu_reqPending \/ sampled) /\ LsuChannel!WaitLeft(sampled, delay) = 0
  BY <1>1 DEF LsuChannel!Subtick, LsuChannel!Pends, LsuChannel!Answers
<1>3. delay \in Nat /\ delay >= 2 /\ lsu_waitTicks \in Nat
  BY BenchAssumption, BenchTypes DEF SlowEnough, LsuChannel!Delays
<1>4. /\ sampled => LsuChannel!WaitLeft(sampled, delay) >= 2
      /\ ~sampled /\ lsu_waitTicks >= 2 => LsuChannel!WaitLeft(sampled, delay) >= 1
      /\ LsuChannel!WaitLeft(sampled, delay) \in Nat
  BY <1>3 DEF LsuChannel!WaitLeft, LsuChannel!Decremented
<1>5. /\ sampled => ~LsuChannel!Answers(sampled, delay)
      /\ ~sampled /\ lsu_waitTicks >= 2 => ~LsuChannel!Answers(sampled, delay)
  BY <1>2, <1>4
<1>6. lsu_waitTicks' >= 2 <=> LsuChannel!WaitLeft(sampled, delay) >= 2
  BY <1>2
<1>7. lsu_waitTicks' >= 1 <=> LsuChannel!WaitLeft(sampled, delay) >= 1
  BY <1>2
<1>8. QED
  BY <1>2, <1>4, <1>5, <1>6, <1>7

\* A half period keeps the timing, and the LSU asks in the one that samples.
LEMMA SubtickTimely ==
    ASSUME SlowEnough, TypeOK, Control, MemPath, Timely, SubtickHigh \/ SubtickLow
    PROVE  Timely'
<1>1. /\ (MemBusy' <=> MemBusy) /\ (Cpu!lsu_reqValid' <=> Cpu!lsu_reqValid)
      /\ io_reqValid_q' = io_reqValid_q
  BY AccessHeld DEF SubtickHigh, SubtickLow
<1>2. Cpu!lsu_reqValid => MemBusy
  BY DEF MemBusy
<1>3. CASE SubtickHigh
  <2>1. PICK sampled \in BOOLEAN :
          SubtickLsu(sampled) /\ (sampled <=> Cpu!lsu_reqValid \/ io_reqValid_q)
    BY <1>3, HighSampled
  <2>2. phase' = "low"
    BY <1>3 DEF SubtickHigh
  <2>3. /\ sampled => lsu_reqPending' /\ lsu_waitTicks' >= 2
        /\ ~sampled /\ ~lsu_reqPending => ~lsu_reqPending'
    BY <2>1, LsuTiming
  <2>4. QED
    BY <1>1, <1>2, <2>1, <2>2, <2>3 DEF Timely
<1>4. CASE SubtickLow
  <2>1. phase = "low" /\ phase' = "edge" /\ SubtickLsu(FALSE)
    BY <1>4 DEF SubtickLow
  <2>2. /\ lsu_reqPending /\ lsu_waitTicks >= 2 => lsu_reqPending' /\ lsu_waitTicks' >= 1
        /\ ~lsu_reqPending => ~lsu_reqPending'
    BY <2>1, LsuTiming
  <2>3. QED
    BY <1>1, <2>1, <2>2 DEF Timely
<1>5. QED
  BY <1>3, <1>4

\* At a rising edge the LSU has no answer as long as it asks; when it has one
\* nothing is left in the channel.
LEMMA EdgeTimely ==
    ASSUME TypeOK, Control, MemPath, Timely, Edge
    PROVE  /\ Timely'
           /\ Cpu!Lsu!Starts(LsuIn) => lsu_reqPending
           /\ Cpu!Lsu!respValid(LsuIn) => ~lsu_reqPending
<1>1. /\ phase = "edge" /\ phase' \in {"high", "compare"} /\ lsu_reqPending' = lsu_reqPending
      /\ io_reqValid_q' <=> Cpu!Lsu!Starts(LsuIn) \/ Cpu!Lsu!FirstPartDone(LsuIn)
  BY LsuSteps
<1>2. Cpu!Lsu!Starts(LsuIn) => MemBusy /\ Cpu!lsu_reqValid
  BY LsuWires DEF MemBusy
<1>3. Cpu!Lsu!Starts(LsuIn) => lsu_reqPending
  BY <1>1, <1>2 DEF Timely
<1>4. Cpu!Lsu!respValid(LsuIn) => ~lsu_reqPending /\ MemBusy
  BY <1>1, EdgeHolds, LsuWires DEF MemPath, ServesPart, Answered
<1>5. ~MemBusy' => ~lsu_reqPending' /\ ~io_reqValid_q'
  <2>1. CASE ~MemBusy
    <3>1. ~Cpu!Lsu!Starts(LsuIn) /\ ~Cpu!Lsu!FirstPartDone(LsuIn)
      BY <2>1, LsuWires DEF MemBusy
    <3>2. QED
      BY <1>1, <2>1, <3>1 DEF Timely
  <2>2. CASE MemBusy
    <3>1. SUFFICES ASSUME ~MemBusy'
                   PROVE  ~lsu_reqPending' /\ ~io_reqValid_q'
      OBVIOUS
    <3>2. Cpu!Lsu!respValid(LsuIn)
      BY <2>2, <3>1, EdgeHolds
    <3>3. ~Cpu!Lsu!FirstPartDone(LsuIn)
      BY <1>3, <1>4, <3>2, LsuWires
    <3>4. QED
      BY <1>1, <1>3, <1>4, <3>2, <3>3
  <2>3. QED
    BY <2>1, <2>2
<1>6. Timely'
  BY <1>1, <1>5 DEF Timely
<1>7. QED
  BY <1>3, <1>4, <1>6

\* Every step keeps the timing.
LEMMA StepTimely ==
    ASSUME SlowEnough, TypeOK, Control, MemPath, Timely, [Next]_vars
    PROVE  Timely'
<1>1. CASE SubtickHigh \/ SubtickLow
  BY <1>1, SubtickTimely
<1>2. CASE Edge
  BY <1>2, EdgeTimely
<1>3. CASE Compare
  <2>1. /\ ~MemBusy /\ UNCHANGED cpuVars /\ lsu_reqPending' = lsu_reqPending
        /\ phase' = "high"
    BY <1>3, RetiredIdle DEF Compare, lsuVars
  <2>2. QED
    BY <2>1, AccessHeld DEF Timely
<1>4. CASE NextTest
  <2>1. ~MemBusy' /\ ~lsu_reqPending' /\ ~io_reqValid_q'
    BY <1>4, NextTestPath DEF NextTest, Cpu!Reset, Cpu!Lsu!Reset
  <2>2. QED
    BY <2>1 DEF Timely
<1>5. CASE UNCHANGED vars
  <2>1. UNCHANGED cpuVars /\ UNCHANGED <<phase, lsu_reqPending, lsu_waitTicks>>
    BY <1>5 DEF vars, lsuVars
  <2>2. QED
    BY <2>1, AccessHeld DEF Timely
<1>6. QED
  BY <1>1, <1>2, <1>3, <1>4, <1>5 DEF Next

\* What serving a request prints.
LEMMA ServedPrints ==
    ASSUME TypeOK, NEW req \in Cpu!Lsu!Requests, v_mem_write(req)
    PROVE  printed' = IF req.wen /\ req.addr = UART_START
                      THEN Append(printed, req.wdata[0]) ELSE printed
<1>1. req.addr \in Nat /\ UART_START % 4 = 0 /\ UART_START \in Nat
  BY RequestParts, MapFacts
<1>2. req.addr = UART_START => InUart(req.addr)
  BY MapFacts DEF InUart
<1>3. req.addr - UART_START = 0 <=> req.addr = UART_START
  BY <1>1
<1>4. req.addr = UART_START => req.addr % 4 = 0
  BY <1>1
<1>5. printed' = IF (req.wen /\ InUart(req.addr)) /\ req.addr - UART_START = 0
                 THEN Append(printed, req.wdata[req.addr % 4]) ELSE printed
  BY DEF v_mem_write
<1>6. CASE req.wen /\ req.addr = UART_START
  BY <1>2, <1>3, <1>4, <1>5, <1>6
<1>7. CASE ~(req.wen /\ req.addr = UART_START)
  BY <1>3, <1>5, <1>7
<1>8. QED
  BY <1>6, <1>7

\* The requests of an access that does not straddle the start of the UART print
\* the byte of a store to it, and nothing else.
LEMMA PartPrints ==
    ASSUME TypeOK, PartsMatch, ~Straddles
    PROVE  /\ PartReq.wen /\ PartReq.addr = UART_START <=> SendsByte
           /\ SendsByte => PartReq.wdata[0] = Split(Cpu!Operands.rdata2)[0]
<1>1. UART_START \in Nat /\ UART_START % 4 = 0
  BY MapFacts
<1>2. SendsByte => Addr % 4 = 0 /\ ~Crosses
  BY <1>1, LsuWires DEF SendsByte
<1>3. SendsByte => PartReq = FirstReq
  BY <1>2 DEF PartReq, PartsMatch
<1>4. FirstReq.wen /\ FirstReq.addr = UART_START <=> SendsByte
  BY DEF FirstReq, SendsByte
<1>5. lsu_state = "LSU_WAIT_MIS_TWO" => ~(SecondReq.wen /\ SecondReq.addr = UART_START)
  BY DEF SecondReq, Straddles, PartsMatch
<1>6. PartReq.wen /\ PartReq.addr = UART_START <=> SendsByte
  BY <1>3, <1>4, <1>5 DEF PartReq
<1>7. ASSUME SendsByte
      PROVE  PartReq.wdata[0] = Split(Cpu!Operands.rdata2)[0]
  <2>1. LsuIn.wdata = Split(Cpu!Operands.rdata2) /\ LsuIn.addr % 4 = 0
    BY <1>2, <1>7, LsuWires
  <2>2. Cpu!Lsu!io_wdata(LsuIn)[0] = LsuIn.wdata[(0 - 0) % 4]
    BY <2>1 DEF Cpu!Lsu!io_wdata, Cpu!Lsu!Lanes, Cpu!Lsu!addr_offset
  <2>3. (0 - 0) % 4 = 0
    OBVIOUS
  <2>4. QED
    BY <1>3, <1>7, <2>1, <2>2, <2>3 DEF FirstReq
<1>8. QED
  BY <1>6, <1>7

\* A half period prints the byte if it serves the request, and not otherwise.
LEMMA SubtickPrinted ==
    ASSUME TypeOK, Control, MemPath, Timely, PrintedAgrees,
           NEW sampled \in BOOLEAN, SubtickLsu(sampled),
           UNCHANGED <<cpuVars, goldVars, testVars>>,
           sampled => Cpu!Lsu!Request(LsuIn) = PartReq,
           MemBusy /\ lsu_reqPending /\ ~sampled => lsu_latch = PartReq,
           sampled => MemBusy,
           ToServe <=> lsu_reqPending \/ sampled,
           phase' \in {"low", "edge"}
    PROVE  PrintedAgrees'
<1>1. PICK answers \in BOOLEAN, req \in Cpu!Lsu!Requests :
        /\ req = IF sampled THEN Cpu!Lsu!Request(LsuIn) ELSE lsu_latch
        /\ answers => lsu_reqPending \/ sampled
        /\ lsu_reqPending' = ((lsu_reqPending \/ sampled) /\ ~answers)
        /\ answers => v_mem_write(req)
        /\ ~answers => UNCHANGED busVars
  BY LsuHalf
<1>2. /\ Addr' = Addr /\ IsStore' = IsStore /\ (Crosses' <=> Crosses)
      /\ (MemBusy' <=> MemBusy)
  BY AccessHeld
<1>3. Cpu!Operands' = Cpu!Operands
  BY DEF cpuVars, Cpu!Operands, Cpu!dec, Cpu!Rf!Read
<1>4. sent' = sent /\ g_is_not_mapped' = g_is_not_mapped
  BY DEF goldVars
<1>5. /\ Straddles' <=> Straddles
      /\ SendsByte' <=> SendsByte
      /\ ToServe' <=> lsu_reqPending'
  BY <1>2 DEF Straddles, SendsByte, ToServe
<1>6. ~answers => printed' = printed /\ (ToServe' <=> ToServe)
  BY <1>1, <1>5 DEF busVars
<1>7. answers => MemBusy /\ ToServe /\ ~ToServe' /\ req = PartReq
  BY <1>1, <1>5 DEF Timely
<1>8. ASSUME answers, ~Straddles
      PROVE  printed' = IF SendsByte THEN Append(printed, Split(Cpu!Operands.rdata2)[0]) ELSE printed
  BY <1>1, <1>7, <1>8, ServedPrints, PartPrints DEF MemPath
<1>9. CASE answers
  BY <1>2, <1>3, <1>4, <1>5, <1>7, <1>8, <1>9 DEF PrintedAgrees
<1>10. CASE ~answers
  BY <1>2, <1>3, <1>4, <1>5, <1>6, <1>10 DEF PrintedAgrees
<1>11. QED
  BY <1>9, <1>10

\* A store that straddles the start of the UART, or the end of all addresses, is
\* one the golden model does not answer for.
LEMMA StraddlingUnmapped ==
    ASSUME TypeOK, Straddles, Addr = GoldAddr, GoldDec.inst_type = "INST_STORE"
    PROVE  Gold!Unmapped(GoldDec, GoldAddr)
<1>1. Addr % 4 # 0 /\ Cpu!Lsu!NextWord(Addr) = UART_START
  BY LsuWires DEF Straddles
<1>2. /\ Addr \in Nat /\ Addr \div 4 \in Nat
      /\ Addr >= Modulus - 4 \/ UART_START = 4 * (Addr \div 4) + 4
  BY <1>1, AfterAddr, MapFacts
<1>3. ~Gold!InMem(Addr) /\ ~Gold!InUart(Addr)
  <2>1. CASE Addr >= Modulus - 4
    BY <1>2, <2>1, MapFacts DEF Gold!InMem, Gold!InUart
  <2>2. CASE UART_START = 4 * (Addr \div 4) + 4
    <3>1. Addr < 4 * (Addr \div 4) + 4
      BY <1>2
    <3>2. Addr < UART_START
      BY <2>2, <3>1
    <3>3. QED
      BY <1>2, <3>2, MapFacts DEF Gold!InMem, Gold!InUart
  <2>3. QED
    BY <1>2, <2>1, <2>2
<1>4. QED
  BY <1>3 DEF Gold!Unmapped, Gold!WriteMapped

\* What the golden model sends when an instruction retires.
LEMMA RetiredSends ==
    ASSUME TypeOK, Edge, Cpu!Retires(Io)
    PROVE  /\ sent' = IF GoldDec.inst_type = "INST_STORE" /\ GoldAddr = UART_START
                      THEN Append(sent, Split(Gold!rf_read(GoldFields.rs2))[0]) ELSE sent
           /\ g_is_not_mapped' = (g_is_not_mapped \/ Gold!Unmapped(GoldDec, GoldAddr))
<1>1. Gold!cpu_eval /\ Sends
  BY DEF Edge
<1>2. /\ g_is_mem_write' = (GoldDec.inst_type = "INST_STORE")
      /\ g_written_address' = IF GoldDec.inst_type = "INST_STORE" THEN GoldAddr
                              ELSE g_written_address
      /\ g_is_not_mapped' = (g_is_not_mapped \/ Gold!Unmapped(GoldDec, GoldAddr))
  BY <1>1, GoldStep
<1>3. 4 * (g_pc \div 4) = g_pc - (g_pc % 4)
  <2>1. g_pc \in Nat
    BY BenchTypes, MapFacts DEF AllWords
  <2>2. QED
    BY <2>1
<1>4. sent' = IF g_is_mem_write' /\ g_written_address' = UART_START
              THEN Append(sent, Gold!rf_read(GoldFields.rs2) % ByteSize) ELSE sent
  BY <1>1, <1>3 DEF Sends, GoldFields
<1>5. Split(Gold!rf_read(GoldFields.rs2))[0] = Gold!rf_read(GoldFields.rs2) % ByteSize
  <2>1. Gold!rf_read(GoldFields.rs2) \in Nat
    BY GoldTypes, MapFacts DEF AllWords
  <2>2. Weight(0) = 1
    <3>1. 0 * (XLEN \div 4) = 0
      BY XLENAssumption
    <3>2. QED
      BY <3>1, PowersAre DEF Weight
  <2>3. Split(Gold!rf_read(GoldFields.rs2))[0] = (Gold!rf_read(GoldFields.rs2) \div 1) % ByteSize
    BY <2>2 DEF Split
  <2>4. Gold!rf_read(GoldFields.rs2) \div 1 = Gold!rf_read(GoldFields.rs2)
    BY <2>1
  <2>5. QED
    BY <2>3, <2>4
<1>6. QED
  BY <1>2, <1>4, <1>5

\* At a retirement both have the same, unless the golden model gives up.
LEMMA RetiredPrinted ==
    ASSUME TypeOK, Control, MemPath, Timely, PrintedAgrees, RegistersAgree, InstAgrees, Ordinary,
           Edge, Cpu!Retires(Io)
    PROVE  PrintedAgrees'
<1>1. ~MemBusy' /\ printed' = printed
  BY EdgeHolds DEF Edge, busVars
<1>2. SUFFICES ASSUME ~g_is_not_mapped'
               PROVE  printed = sent'
  BY <1>1 DEF PrintedAgrees
<1>3. ~g_is_not_mapped /\ ~Gold!Unmapped(GoldDec, GoldAddr)
  BY <1>2, RetiredSends
<1>4. CASE IsStore
  <2>1. /\ GoldDec.inst_type = "INST_STORE" /\ Cpu!Lsu!respValid(LsuIn) /\ Addr = GoldAddr
        /\ Cpu!Operands.rdata2 = Gold!rf_read(GoldFields.rs2)
    BY <1>4, RetiredStore
  <2>2. ~Straddles
    BY <1>3, <2>1, StraddlingUnmapped
  <2>3. MemBusy /\ ~ToServe
    BY <2>1, EdgeHolds, EdgeTimely, LsuSteps DEF ToServe
  <2>4. printed = IF SendsByte THEN Append(sent, Split(Cpu!Operands.rdata2)[0]) ELSE sent
    BY <1>3, <2>2, <2>3 DEF PrintedAgrees
  <2>5. QED
    BY <1>4, <2>1, <2>4, RetiredSends DEF SendsByte
<1>5. CASE ~IsStore
  <2>1. sent' = sent
    BY <1>5, RetiredSends, RetiredStore
  <2>2. printed = sent
    BY <1>3, <1>5 DEF PrintedAgrees, SendsByte, Straddles
  <2>3. QED
    BY <2>1, <2>2
<1>6. QED
  BY <1>4, <1>5

\* An edge that retires nothing prints nothing, and takes nothing off the
\* channel.
LEMMA EdgePrinted ==
    ASSUME TypeOK, Control, MemPath, Timely, PrintedAgrees, Edge, ~Cpu!Retires(Io)
    PROVE  PrintedAgrees'
<1>1. /\ printed' = printed /\ sent' = sent /\ g_is_not_mapped' = g_is_not_mapped
      /\ phase = "edge" /\ phase' = "high" /\ lsu_reqPending' = lsu_reqPending
  BY DEF Edge, busVars, goldVars, lsuVars
<1>2. io_reqValid_q' <=> Cpu!Lsu!Starts(LsuIn) \/ Cpu!Lsu!FirstPartDone(LsuIn)
  BY LsuSteps
<1>3. CASE ~MemBusy
  <2>1. MemBusy' => Cpu!lsu_reqValid'
    BY <1>3, EdgeHolds DEF MemBusy
  <2>2. MemBusy' => ToServe'
    BY <1>1, <2>1 DEF ToServe
  <2>3. QED
    BY <1>1, <1>3, <2>2 DEF PrintedAgrees
<1>4. CASE MemBusy
  <2>1. ~Cpu!Lsu!respValid(LsuIn)
    BY EdgeHolds
  <2>2. MemBusy' /\ ~Cpu!lsu_reqValid' /\ inst' = inst /\ Cpu!Operands' = Cpu!Operands
    BY <1>4, <2>1, EdgeHolds
  <2>3. Cpu!dec' = Cpu!dec /\ Addr' = Addr /\ IsStore' = IsStore
    BY <2>2 DEF Cpu!dec, Addr, IsStore, Cpu!Exu!alu_res, Cpu!Exu!alu_lhs, Cpu!Exu!alu_rhs
  <2>4. Crosses' <=> Crosses
    BY <2>2, <2>3, RequestsKept
  <2>5. (Straddles' <=> Straddles) /\ (SendsByte' <=> SendsByte)
    BY <2>3, <2>4 DEF Straddles, SendsByte
  <2>6. SendsByte => ~Cpu!Lsu!FirstPartDone(LsuIn)
    <3>1. UART_START % 4 = 0
      BY MapFacts
    <3>2. SendsByte => ~Crosses
      BY <3>1, LsuWires DEF SendsByte
    <3>3. QED
      BY <3>2, LsuWires DEF MemPath, PartsMatch
  <2>7. SendsByte => (ToServe' <=> ToServe)
    BY <1>1, <1>2, <2>2, <2>6, EdgeTimely DEF ToServe
  <2>8. QED
    BY <1>1, <1>4, <2>2, <2>5, <2>7 DEF PrintedAgrees
<1>5. QED
  BY <1>3, <1>4

\* Every other step leaves what has been printed and sent, or forgets both.
LEMMA StepPrinted ==
    ASSUME Inv, Timely, PrintedAgrees, Ordinary, [Next]_vars
    PROVE  PrintedAgrees'
<1> USE DEF Inv
<1>1. CASE SubtickHigh
  <2>1. PICK sampled \in BOOLEAN :
        /\ SubtickLsu(sampled)
        /\ sampled <=> Cpu!lsu_reqValid \/ io_reqValid_q
        /\ sampled => Cpu!Lsu!Request(LsuIn) = PartReq /\ (~MemBusy => Holds(PartReq))
        /\ MemBusy /\ lsu_reqPending /\ ~sampled => lsu_latch = PartReq
    BY <1>1, HighSampled
  <2>2. /\ UNCHANGED <<cpuVars, goldVars, testVars>> /\ phase = "high" /\ phase' \in {"low", "edge"}
    BY <1>1 DEF SubtickHigh
  <2>3. sampled => MemBusy
    BY <2>1 DEF Timely, MemBusy
  <2>4. ToServe <=> lsu_reqPending \/ sampled
    BY <2>1, <2>2 DEF ToServe
  <2>5. QED
    BY <2>1, <2>2, <2>3, <2>4, SubtickPrinted
<1>2. CASE SubtickLow
  <2>1. MemBusy /\ lsu_reqPending => lsu_latch = PartReq
    BY <1>2 DEF SubtickLow, MemPath, ServesPart
  <2>2. /\ UNCHANGED <<cpuVars, goldVars, testVars>> /\ SubtickLsu(FALSE)
        /\ phase = "low" /\ phase' \in {"low", "edge"}
    BY <1>2 DEF SubtickLow
  <2>3. ToServe <=> lsu_reqPending
    BY <2>2 DEF ToServe
  <2>4. QED
    BY <2>1, <2>2, <2>3, SubtickPrinted
<1>3. CASE Edge
  BY <1>3, RetiredPrinted, EdgePrinted
<1>4. CASE Compare
  <2>1. /\ ~MemBusy /\ UNCHANGED cpuVars /\ printed' = printed /\ sent' = sent
        /\ g_is_not_mapped => g_is_not_mapped'
    BY <1>4, RetiredIdle DEF Compare, busVars
  <2>2. ~MemBusy'
    BY <2>1, AccessHeld
  <2>3. QED
    BY <2>1, <2>2 DEF PrintedAgrees
<1>5. CASE NextTest
  <2>1. ~MemBusy' /\ printed' = sent'
    BY <1>5, NextTestPath DEF NextTest
  <2>2. QED
    BY <2>1 DEF PrintedAgrees
<1>6. CASE UNCHANGED vars
  <2>1. /\ UNCHANGED cpuVars
        /\ UNCHANGED <<phase, lsu_reqPending, printed, sent, g_is_not_mapped>>
    BY <1>6 DEF vars, lsuVars, busVars, goldVars
  <2>2. /\ Addr' = Addr /\ IsStore' = IsStore /\ (Crosses' <=> Crosses)
        /\ (MemBusy' <=> MemBusy) /\ (Cpu!lsu_reqValid' <=> Cpu!lsu_reqValid)
        /\ io_reqValid_q' = io_reqValid_q
    BY <2>1, AccessHeld
  <2>3. Cpu!Operands' = Cpu!Operands
    BY <2>1 DEF cpuVars, Cpu!Operands, Cpu!dec, Cpu!Rf!Read
  <2>4. (Straddles' <=> Straddles) /\ (SendsByte' <=> SendsByte) /\ (ToServe' <=> ToServe)
    BY <2>1, <2>2 DEF Straddles, SendsByte, ToServe
  <2>5. QED
    BY <2>1, <2>2, <2>3, <2>4 DEF PrintedAgrees
<1>7. QED
  BY <1>1, <1>2, <1>3, <1>4, <1>5, <1>6 DEF Next

\* A byte that an ordinary program sends is printed once and in its place, as
\* long as no answer comes within the two cycles of a request
\* (soc_main.cpp:736-755, lsu.sv:149).
THEOREM LockstepPrintedOnce ==
    ASSUME SlowEnough
    PROVE  Spec /\ []Ordinary => []PrintedOnce
<1>1. Init => Timely /\ PrintedAgrees
  <2>1. SUFFICES ASSUME Init
                 PROVE  Timely /\ PrintedAgrees
    OBVIOUS
  <2>2. ~MemBusy /\ ~lsu_reqPending /\ ~io_reqValid_q /\ printed = sent
    <3>1. ~MemBusy
      BY <2>1, InitPath
    <3>2. ~lsu_reqPending /\ ~io_reqValid_q /\ printed = sent
      BY <2>1 DEF Init, LsuChannel!Init, Cpu!Init, Cpu!Lsu!Init
    <3>3. QED
      BY <3>1, <3>2
  <2>3. QED
    BY <2>2 DEF Timely, PrintedAgrees
<1>2. Inv /\ Ordinary /\ Timely /\ PrintedAgrees /\ [Next]_vars =>
        Timely' /\ PrintedAgrees'
  BY StepTimely, StepPrinted DEF Inv
<1>3. Inv /\ PrintedAgrees => PrintedOnce
  BY RetiredIdle DEF Inv, PrintedAgrees, PrintedOnce
<1>4. QED
  BY <1>1, <1>2, <1>3, InvHolds, PTL DEF Spec

-----------------------------------------------------------------------------
(* The verdict.                                                             *)

\* When both sides hold the same RAM the words compared are the same, the one
\* behind the end of RAM included, of which either side makes a zero.
LEMMA NoDifference ==
    ASSUME TypeOK, mem = g_mem
    PROVE  ~Differs(mem)
<1>1. SUFFICES ASSUME NEW w \in ComparedWords
               PROVE  Joined(v_mem_read(mem, uart, w)) = Gold!g_mem_read(w)
  BY DEF Differs
<1>2. w \in Nat /\ w % 4 = 0 /\ MEM_START <= w /\ w <= MEM_END
  <2>1. PICK a \in LastWritten, off \in {0, 4} : w = 4 * (a \div 4) + off
    <3>1. LastWritten \subseteq Nat
      BY MapFacts DEF LastWritten
    <3> HIDE DEF LastWritten
    <3>2. QED
      BY <3>1 DEF ComparedWords
  <2>2. a \in MEM_START..(MEM_END - 3)
    BY <2>1 DEF LastWritten
  <2>3. \A s, e \in Nat : s % 4 = 0 /\ e % 4 = 0 /\ s <= a /\ a <= e - 3 =>
          s <= 4 * (a \div 4) /\ 4 * (a \div 4) + 4 <= e
    BY <2>2, MapFacts
  <2>4. MEM_START <= 4 * (a \div 4) /\ 4 * (a \div 4) + 4 <= MEM_END /\ a \in Nat
    BY <2>2, <2>3, MapFacts
  <2>5. QED
    BY <2>1, <2>4, MapFacts
<1>3. CASE Gold!InMem(w)
  <2>1. w - (w % 4) = w /\ IsCode(w)
    BY <1>2, <1>3 DEF IsCode
  <2>2. QED
    BY <1>2, <2>1, CodeRead
<1>4. CASE ~Gold!InMem(w)
  <2>1. /\ ~Gold!InFlash(w) /\ ~InUart(w) /\ ~Gold!InUartRegs(w)
    BY <1>2, MapFacts, Regions DEF Gold!InFlash, InUart
  <2>2. v_mem_read(mem, uart, w) = Split(0) /\ Gold!g_mem_read(w) = 0
    BY <1>4, <2>1 DEF v_mem_read, Gold!g_mem_read
  <2>3. QED
    BY <2>2, MapFacts, JoinedSplit
<1>5. QED
  BY <1>3, <1>4

\* No test of an ordinary program is reported as failed (soc_main.cpp:835-883).
THEOREM LockstepNoFalseAlarm == Spec /\ []Ordinary => []NoFalseAlarm
<1>1. Init => NoFalseAlarm
  BY DEF Init, NoFalseAlarm
<1>2. ASSUME Inv, NoFalseAlarm, [Next]_vars
      PROVE  NoFalseAlarm'
  <2>1. CASE Compare /\ ~g_is_not_mapped
    <3>1. Agree /\ TypeOK /\ phase = "compare"
      BY <1>2, <2>1, SameRam DEF Inv, RegistersAgree, Agree, Compare
    <3>2. pc = g_pc /\ regs = g_regs /\ mem = g_mem
      BY <2>1, <3>1 DEF Agree
    <3>3. compare_vcpu_gold
      BY <3>1, <3>2, NoDifference DEF compare_vcpu_gold
    <3>4. QED
      BY <2>1, <3>3 DEF Compare, NoFalseAlarm
  <2>2. CASE ~(Compare /\ ~g_is_not_mapped)
    <3>1. is_test_success' = is_test_success
      BY <1>2, <2>2
      DEF Next, SubtickHigh, SubtickLow, Edge, Compare, NextTest, testVars, vars
    <3>2. QED
      BY <1>2, <3>1 DEF NoFalseAlarm
  <2>3. QED
    BY <2>1, <2>2
<1>3. QED
  BY <1>1, <1>2, InvHolds, PTL DEF Spec
=============================================================================
