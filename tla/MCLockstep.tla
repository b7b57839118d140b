------------------------------ MODULE MCLockstep ------------------------------
(***************************************************************************)
(* Eight-bit words of four two-bit bytes; flash at 16..39, RAM at 64..87;  *)
(* three registers and a number beyond them.  A word is an index into      *)
(* Table or ControlTable; 0 and words beyond them are not instructions.    *)
(***************************************************************************)
EXTENDS Lockstep

F(opcode, funct3, sub, rd, rs1, rs2, imm) ==
    [opcode |-> opcode, funct3 |-> funct3, sub |-> sub, rd |-> rd, rs1 |-> rs1,
     rs2 |-> rs2, imm |-> imm]

lui(rd, imm)          == F("OPCODE_LUI", 0, FALSE, rd, 0, 0, imm)
auipc(rd, imm)        == F("OPCODE_AUIPC", 0, FALSE, rd, 0, 0, imm)
jal(rd, imm)          == F("OPCODE_JAL", 0, FALSE, rd, 0, 0, imm)
jalr(rd, rs1, imm)    == F("OPCODE_JALR", 0, FALSE, rd, rs1, 0, imm)
branch(k, a, b, imm)  == F("OPCODE_BRANCH", k, FALSE, 0, a, b, imm)
load(k, rd, rs1, imm) == F("OPCODE_LOAD", k, FALSE, rd, rs1, 0, imm)
store(k, a, b, imm)   == F("OPCODE_STORE", k, FALSE, 0, a, b, imm)
calci(k, s, rd, a, i) == F("OPCODE_CALC_IMM", k, s, rd, a, 0, i)
calc(k, s, rd, a, b)  == F("OPCODE_CALC_REG", k, s, rd, a, b, 0)
ebreak                == F("OPCODE_SYSTEM", 0, FALSE, 0, 0, 0, 1)

\* What x1 and x2 are set to: the extremes, shift amounts, and for x1 addresses
\* in flash, in RAM at every offset, and outside both.
Values1 == <<0, 127, 128, 255, 17, 48, 64, 65, 66, 67>>
Values2 == <<0, 1, 7, 128, 255>>

N1 == Len(Values1)
N2 == Len(Values2)

\* Words 1..N1 load x1, the next N2 load x2, the others follow.
Table ==
    [i \in 1..N1 |-> lui(1, Values1[i])] \o
    [i \in 1..N2 |-> lui(2, Values2[i])] \o
    [i \in 1..8 |-> calc(i - 1, FALSE, 1, 1, 2)] \o
    <<calc(0, TRUE, 1, 1, 2), calc(5, TRUE, 1, 1, 2), calc(7, TRUE, 2, 2, 1),
      calc(0, FALSE, 17, 1, 2), calc(0, FALSE, 2, 17, 1), calc(0, FALSE, 0, 1, 2)>> \o
    [i \in 1..8 |-> calci(i - 1, FALSE, 2, 1, 3)] \o
    <<calci(5, TRUE, 2, 1, 3), calci(0, TRUE, 2, 1, 248), calci(3, TRUE, 2, 1, 248)>> \o
    <<branch(0, 1, 2, 8), branch(1, 1, 2, 8), branch(4, 1, 2, 250),
      branch(5, 1, 2, 8), branch(6, 1, 2, 8), branch(7, 1, 2, 248)>> \o
    <<load(0, 2, 1, 0), load(1, 2, 1, 0), load(2, 1, 1, 0), load(4, 2, 1, 0),
      load(5, 1, 1, 0), load(2, 17, 1, 2)>> \o
    <<store(0, 1, 2, 0), store(1, 1, 2, 0), store(2, 1, 2, 0)>> \o
    <<jal(1, 4), jal(2, 248), jalr(1, 1, 0), jalr(2, 1, 1), auipc(2, 240), ebreak>>

NoInst == F("OPCODE_NONE", 0, FALSE, 0, 0, 0, 0)

Lui1 == 1..N1
Lui2 == N1+1..N1+N2
Ops  == N1 + N2 + 1 .. Len(Table)

ReadsX2 == {op \in Ops : 2 \in {Table[op].rs1, Table[op].rs2}}

\* Every instruction, on every pair of operands.
OperandPrograms == {<<i, j, op>> : i \in Lui1, j \in Lui2, op \in ReadsX2}
                   \cup {<<i, N1 + 1, op>> : i \in Lui1, op \in Ops}

(* Programs about control: a few instructions in any order.  The word 64,  *)
(* which they may write to RAM, is the jump from RAM back into flash.      *)
ControlTable ==
    [w \in 64..70 |->
        CASE w = 64 -> jal(2, 208)
          [] w = 65 -> lui(1, 64)           \* RAM
          [] w = 66 -> store(2, 1, 1, 1)    \* sw x1, 1(x1): crosses a word
          [] w = 67 -> load(2, 1, 1, 1)     \* lw x1, 1(x1): overwrites its own base
          [] w = 68 -> branch(0, 1, 0, 252) \* beq x1, x0, -4
          [] w = 69 -> store(2, 1, 1, 0)    \* sw x1, 0(x1): writes the word 64 to RAM
          [] w = 70 -> lui(1, 84)]          \* the last word of RAM

JalBack    == CHOOSE w \in Ops : Table[w] = jal(2, 248)
ToRegister == CHOOSE w \in Ops : Table[w] = jalr(1, 1, 0)
Stop       == CHOOSE w \in Ops : Table[w] = ebreak

ControlWords == 65..69 \cup {JalBack, ToRegister, Stop}

\* One loads from outside flash and RAM at once, some store to the last word.
ControlPrograms == {<<65, j, k>> : j \in ControlWords, k \in ControlWords \ {65}}
                   \cup {<<67, Stop, Stop>>} \cup {<<70, 69, k>> : k \in {66, 68, 69}}

(* Programs that use the UART, at 4: x2 is set, then two accesses of bytes.  *)
UartTable == [w \in 90..97 |->
    CASE w = 90 -> store(0, 0, 2, 4)    \* sb x2, 4(x0): the transmitter
      [] w = 91 -> store(2, 0, 2, 4)
      [] w = 92 -> store(1, 0, 2, 6)    \* sh x2, 6(x0): iir
      [] w = 93 -> load(4, 1, 0, 6)
      [] w = 94 -> store(0, 0, 2, 9)    \* lsr, read only
      [] w = 95 -> load(0, 1, 0, 9)
      [] w = 96 -> load(2, 1, 0, 4)
      [] w = 97 -> load(0, 1, 0, 8)]    \* mcr, which the golden model has not

UartPrograms == {<<N1 + 3, i, j>> : i, j \in DOMAIN UartTable}

MCUartReset == [reg \in 0..10 |-> CASE reg = 2 -> 2 [] reg = 3 -> 3 [] reg = 5 -> 1 [] OTHER -> 0]

MCFields(w) == CASE w \in DOMAIN Table        -> Table[w]
                 [] w \in DOMAIN ControlTable -> ControlTable[w]
                 [] w \in DOMAIN UartTable    -> UartTable[w]
                 [] OTHER                     -> NoInst

MCPrograms == OperandPrograms \cup ControlPrograms \cup UartPrograms

\* Two tests in a row for the programs about control.
MCFollowing(p) == IF p \in ControlPrograms THEN ControlPrograms ELSE {}

-----------------------------------------------------------------------------
(* A store that starts just below the RAM and ends in it.                  *)

StraddlingFields(w) ==
    CASE w = 1 -> lui(1, 63)
      [] w = 2 -> lui(2, 255)
      [] w = 3 -> store(2, 1, 2, 0)
      [] OTHER -> ebreak

StraddlingPrograms == {<<1, 2, 3>>}

Itself(p) == {p}
=============================================================================
