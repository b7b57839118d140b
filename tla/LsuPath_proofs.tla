---------------------------- MODULE LsuPath_proofs ----------------------------
(***************************************************************************)
(* Proofs about the memory side, for every size of memory, set of bytes    *)
(* and of accesses, and range of bus delays.                               *)
(***************************************************************************)
EXTENDS LsuPath, TLAPS

\* The requests an access consists of: one for the word its first byte is in
\* and, if it crosses the boundary, one for the next word.
FirstReq == [addr |-> addr, wdata |-> Lsu!io_wdata(LsuIn),
             wmask |-> Lsu!FirstMask(addr % 4, op.data_size), wen |-> op.is_write]

SecondReq == [addr |-> Lsu!NextWord(addr), wdata |-> Lsu!io_wdata(LsuIn),
              wmask |-> Lsu!SecondMask(addr % 4, op.data_size), wen |-> op.is_write]

\* The one the LSU waits for.
PartReq == IF lsu_state = "LSU_WAIT_MIS_TWO" THEN SecondReq ELSE FirstReq

\* Request req writes the byte at address a.
Writes(req, a) ==
    /\ req.wen /\ Mapped(req.addr)
    /\ a \div 4 = req.addr \div 4
    /\ a % 4 \in req.wmask

\* Memory holds what req writes: serving it would change nothing.
Holds(req) == \A a \in 0..MemEnd-1 : Writes(req, a) => mem[a] = req.wdata[a % 4]

\* The answer on the bus is the one to the part the LSU waits for.
Answered == /\ ~reqPending
            /\ latch = PartReq
            /\ io_rdata = v_mem_read(mem, latch.addr)
            /\ Holds(latch)

\* The LSU and the CPU agree on whether an access is under way, and of what
\* kind.
AccessUnderWay ==
    /\ busy <=> lsu_state # "LSU_IDLE" \/ lsu_reqValid
    /\ lsu_reqValid => lsu_state = "LSU_IDLE" /\ ~io_reqValid_q
    /\ lsu_state # "LSU_IDLE" => (Lsu!is_misalign(LsuIn) <=> lsu_state # "LSU_WAIT_ONE")
    /\ busy \/ op.is_write => addr = op.addr

\* While an access is under way, what is pending in the channel is a request
\* for the part the LSU waits for, or is about to be overwritten by one, and an
\* answer that reaches a rising edge is the answer to it.
ServesPart ==
    busy =>
      /\ phase # "high" \/ ~(lsu_reqValid \/ io_reqValid_q) => (reqPending => latch = PartReq)
      /\ /\ phase = "high" /\ lsu_state # "LSU_IDLE"
         /\ ~(lsu_state = "LSU_WAIT_MIS_TWO" /\ io_reqValid_q)
         => ~io_respValid
      /\ phase = "low" /\ respTicks = 2 => Answered
      /\ phase = "edge" /\ io_respValid => Answered

\* What the first part of an access in two parts has done is there when the
\* second is waited for.
FirstPartKept ==
    lsu_state = "LSU_WAIT_MIS_TWO" =>
      /\ Holds(FirstReq)
      /\ ~op.is_write => \A lane \in 1..3 : first_rdata_q[lane] = v_mem_read(mem, addr)[lane]

\* The request left behind by an access that was answered at once changes
\* nothing when it is served.
LeftoverHarmless ==
    ~busy => /\ reqPending => Holds(latch)
             /\ io_reqValid_q => Holds(FirstReq)

PathInv == AccessUnderWay /\ ServesPart /\ FirstPartKept /\ LeftoverHarmless

-----------------------------------------------------------------------------
(* Types.                                                                  *)

\* What the accesses offer the LSU.
LEMMA OpType ==
    ASSUME TypeOK
    PROVE  /\ op.is_write \in BOOLEAN /\ op.is_mem_sign \in BOOLEAN
           /\ op.wdata \in [0..3 -> Byte]
           /\ op.addr \in 0..(MemEnd - 4)
           /\ op.data_size \in {"LSU_BYTE", "LSU_HALF", "LSU_WORD"}
           /\ addr \in Nat /\ addr < 4 * NWords /\ addr % 4 \in 0..3
<1>1. op \in [is_write : BOOLEAN, is_mem_sign : BOOLEAN, wdata : Lsu!BusWord,
              addr : 0..(MemEnd - 4), data_size : Lsu!Sizes \ {"LSU_EXTA"}]
  BY OpAssumption DEF TypeOK
<1>2. addr \in 0..(4*NWords - 1) /\ NWords \in Nat \ {0}
  BY MemAssumption DEF TypeOK, Lsu!ByteAddr
<1>3. addr \in Nat /\ addr < 4 * NWords /\ addr % 4 \in 0..3
  BY <1>2
<1>4. QED
  BY <1>1, <1>3 DEF Lsu!BusWord, Lsu!Lanes, Lsu!Sizes

\* The address of the next word is a word address of the bus.
LEMMA NextWordType ==
    ASSUME NEW a \in Nat
    PROVE  Lsu!NextWord(a) \in Lsu!ByteAddr
<1>1. (a \div 4 + 1) % NWords \in 0..NWords-1
  BY MemAssumption
<1>2. QED
  BY <1>1, MemAssumption DEF Lsu!NextWord, Lsu!ByteAddr

\* A request of the LSU is a request of the bus.
LEMMA RequestType ==
    ASSUME TypeOK
    PROVE  Lsu!Request(LsuIn) \in Lsu!Requests
<1>1. /\ LsuIn.addr = addr /\ LsuIn.wdata = op.wdata /\ LsuIn.is_write = op.is_write
      /\ LsuIn.data_size = op.data_size
  BY DEF LsuIn
<1>2. Lsu!io_addr(LsuIn) \in Lsu!ByteAddr
  BY <1>1, OpType, NextWordType DEF Lsu!io_addr, TypeOK
<1>3. Lsu!io_wdata(LsuIn) \in Lsu!BusWord
  <2>1. \A lane \in 0..3 : (lane - (addr % 4)) % 4 \in 0..3
    BY OpType
  <2>2. Lsu!io_wdata(LsuIn) = [lane \in 0..3 |-> op.wdata[(lane - (addr % 4)) % 4]]
    BY <1>1 DEF Lsu!io_wdata, Lsu!Lanes, Lsu!addr_offset
  <2>3. \A lane \in 0..3 : op.wdata[(lane - (addr % 4)) % 4] \in Byte
    BY <2>1, OpType
  <2>4. QED
    BY <2>2, <2>3 DEF Lsu!BusWord, Lsu!Lanes
<1>4. \A off \in 0..3 : \A size \in {"LSU_BYTE", "LSU_HALF", "LSU_WORD"} :
        /\ Lsu!FirstMask(off, size) \in SUBSET Lsu!Lanes
        /\ Lsu!SecondMask(off, size) \in SUBSET Lsu!Lanes
  BY DEF Lsu!FirstMask, Lsu!SecondMask, Lsu!Lanes
<1>5. Lsu!io_wmask(LsuIn) \in SUBSET Lsu!Lanes
  BY <1>1, <1>4, OpType DEF Lsu!io_wmask, Lsu!addr_offset
<1>6. QED
  BY <1>1, <1>2, <1>3, <1>5, OpType DEF Lsu!Request, Lsu!Requests

\* The delays of random_range are natural numbers, whatever its bounds.
LEMMA DelaysNat == Channel!Delays \subseteq Nat
  BY DelayAssumption DEF Channel!Delays

\* A half period of the channel: the request sampled, if any, takes the place
\* of the one pending; the one pending may be served, with memory written and
\* then read; an answer comes nearer to its end.
LEMMA SubtickFacts ==
    ASSUME TypeOK, NEW sampled \in BOOLEAN, Subtick(sampled)
    PROVE  \E answers \in BOOLEAN : \E ticks \in 0..1 :
             /\ latch' = IF sampled THEN Lsu!Request(LsuIn) ELSE latch
             /\ answers => reqPending \/ sampled
             /\ reqPending' <=> (reqPending \/ sampled) /\ ~answers
             /\ respTicks <= 1 => ticks = 0
             /\ respTicks' = IF answers THEN 2 ELSE ticks
             /\ io_respValid' <=> answers \/ (io_respValid /\ ticks # 0)
             /\ answers => /\ mem' = v_mem_write(latch')
                           /\ io_rdata' = v_mem_read(mem', latch'.addr)
             /\ ~answers => mem' = mem /\ io_rdata' = io_rdata
             /\ reqPending' \in BOOLEAN /\ io_respValid' \in BOOLEAN /\ waitTicks' \in Nat
             /\ UNCHANGED <<lsuVars, cpuVars>>
<1>1. PICK delay \in Channel!Delays :
        /\ Channel!Subtick(sampled, Lsu!Request(LsuIn), delay)
        /\ mem' = IF Channel!Answers(sampled, delay)
                  THEN v_mem_write(Channel!Latched(sampled, Lsu!Request(LsuIn))) ELSE mem
        /\ io_rdata' = IF Channel!Answers(sampled, delay)
                       THEN v_mem_read(mem', Channel!Latched(sampled, Lsu!Request(LsuIn)).addr)
                       ELSE io_rdata
        /\ UNCHANGED <<lsuVars, cpuVars>>
  BY DEF Subtick
<1> DEFINE answers == Channel!Answers(sampled, delay)
           ticks   == Channel!Decremented(respTicks)
<1>2. /\ latch' = Channel!Latched(sampled, Lsu!Request(LsuIn))
      /\ respTicks' = IF answers THEN 2 ELSE ticks
      /\ io_respValid' = (answers \/ (io_respValid /\ ticks # 0))
      /\ reqPending' = ((reqPending \/ sampled) /\ ~answers)
      /\ waitTicks' = Channel!WaitLeft(sampled, delay)
  BY <1>1 DEF Channel!Subtick, Channel!Pends
<1>3. answers \in BOOLEAN /\ (answers => reqPending \/ sampled)
  BY DEF Channel!Answers
<1>4. ticks \in 0..1 /\ (respTicks <= 1 => ticks = 0)
  BY DEF Channel!Decremented, TypeOK, Channel!TypeOK
<1>5. delay \in Nat
  BY DelaysNat
<1>6. waitTicks' \in Nat
  BY <1>2, <1>5 DEF Channel!WaitLeft, Channel!Decremented, TypeOK, Channel!TypeOK
<1>7. latch' = IF sampled THEN Lsu!Request(LsuIn) ELSE latch
  BY <1>2 DEF Channel!Latched
<1> HIDE DEF answers, ticks
<1>8. /\ answers => /\ mem' = v_mem_write(latch')
                    /\ io_rdata' = v_mem_read(mem', latch'.addr)
      /\ ~answers => mem' = mem /\ io_rdata' = io_rdata
  BY <1>1, <1>2 DEF answers
<1>9. reqPending' \in BOOLEAN /\ io_respValid' \in BOOLEAN
  BY <1>2
<1>10. UNCHANGED <<lsuVars, cpuVars>>
  BY <1>1
<1>11. QED
  BY <1>2, <1>3, <1>4, <1>6, <1>7, <1>8, <1>9, <1>10

\* Memory stays a function from addresses to bytes, and a word read from it is
\* a word.
LEMMA MemType ==
    ASSUME TypeOK, NEW req \in Lsu!Requests
    PROVE  /\ v_mem_write(req) \in [0..MemEnd-1 -> Byte]
           /\ \A m \in [0..MemEnd-1 -> Byte] : v_mem_read(m, req.addr) \in [0..3 -> Byte]
<1>1. /\ req.addr \in Nat /\ req.wdata \in [0..3 -> Byte]
      /\ MemEnd \in Nat /\ MemEnd % 4 = 0
  BY MemAssumption DEF Lsu!Requests, Lsu!ByteAddr, Lsu!BusWord, Lsu!Lanes
<1>2. v_mem_write(req) \in [0..MemEnd-1 -> Byte]
  <2>1. \A a \in 0..MemEnd-1 : a % 4 \in 0..3
    BY <1>1
  <2>2. QED
    BY <1>1, <2>1 DEF v_mem_write, TypeOK
<1>3. ASSUME NEW m \in [0..MemEnd-1 -> Byte]
      PROVE  v_mem_read(m, req.addr) \in [0..3 -> Byte]
  <2>1. CASE Mapped(req.addr)
    <3>1. \A lane \in 0..3 : 4 * (req.addr \div 4) + lane \in 0..MemEnd-1
      BY <1>1, <2>1 DEF Mapped
    <3>2. QED
      BY <2>1, <3>1 DEF v_mem_read
  <2>2. CASE ~Mapped(req.addr)
    BY <2>2, MemAssumption DEF v_mem_read, ZeroWord
  <2>3. QED
    BY <2>1, <2>2
<1>4. QED
  BY <1>2, <1>3

\* The word given back is a word, and the registers of the LSU keep their
\* types.
LEMMA LsuType ==
    ASSUME TypeOK
    PROVE  /\ Lsu!rdata(LsuIn) \in Lsu!BusWord
           /\ Lsu!Clock(LsuIn) => Lsu!TypeOK'
<1>1. /\ LsuIn.addr = addr /\ LsuIn.io_rdata = io_rdata
      /\ LsuIn.io_respValid = io_respValid /\ LsuIn.reqValid = lsu_reqValid
      /\ io_rdata \in [0..3 -> Byte] /\ first_rdata_q \in [1..3 -> Byte]
      /\ lsu_state \in Lsu!lsu_states
  BY DEF LsuIn, TypeOK, Lsu!TypeOK, Lsu!BusWord, Lsu!Lanes
<1>2. addr % 4 \in 0..3
  BY OpType
<1>3. Lsu!first_rdata(LsuIn) \in [1..3 -> Byte]
  BY <1>1 DEF Lsu!first_rdata
<1>4. Lsu!align_rdata(LsuIn) \in [0..3 -> Byte]
  <2>1. Lsu!align_rdata(LsuIn)
          = [k \in 0..3 |-> IF addr % 4 # 0 /\ k + (addr % 4) <= 3
                            THEN Lsu!first_rdata(LsuIn)[k + (addr % 4)]
                            ELSE io_rdata[(k + (addr % 4)) % 4]]
    BY <1>1 DEF Lsu!align_rdata, Lsu!addr_offset, Lsu!Lanes
  <2>2. \A k \in 0..3 : /\ (k + (addr % 4)) % 4 \in 0..3
                        /\ addr % 4 # 0 /\ k + (addr % 4) <= 3 => k + (addr % 4) \in 1..3
    BY <1>2
  <2>3. QED
    BY <1>1, <1>3, <2>1, <2>2
<1>5. Lsu!Width(LsuIn.data_size) \in {1, 2, 4}
  BY DEF Lsu!Width
<1>6. \A b, sign : Lsu!Extension(b, sign) \in Byte
  BY MemAssumption DEF Lsu!Extension
<1>7. Lsu!rdata(LsuIn) \in Lsu!BusWord
  BY <1>4, <1>5, <1>6 DEF Lsu!rdata, Lsu!BusWord, Lsu!Lanes
<1>8. ASSUME Lsu!Clock(LsuIn)
      PROVE  Lsu!TypeOK'
  <2>1. lsu_state' \in Lsu!lsu_states
    BY <1>1, <1>8 DEF Lsu!Clock, Lsu!next_state, Lsu!lsu_states
  <2>2. io_reqValid_q' \in BOOLEAN
    BY <1>8 DEF Lsu!Clock, Lsu!io_reqValid_d, Lsu!Starts, Lsu!FirstPartDone
  <2>3. first_rdata_q' \in [1..3 -> Byte]
    BY <1>1, <1>8 DEF Lsu!Clock
  <2>4. QED
    BY <2>1, <2>2, <2>3 DEF Lsu!TypeOK, Lsu!lsu_states
<1>9. QED
  BY <1>7, <1>8

\* A half period keeps the types.
LEMMA SubtickType ==
    ASSUME TypeOK, NEW sampled \in BOOLEAN, Subtick(sampled), phase' \in {"high", "low", "edge"}
    PROVE  TypeOK'
<1>1. PICK answers \in BOOLEAN, ticks \in 0..1 :
        /\ latch' = IF sampled THEN Lsu!Request(LsuIn) ELSE latch
        /\ respTicks' = IF answers THEN 2 ELSE ticks
        /\ answers => /\ mem' = v_mem_write(latch')
                      /\ io_rdata' = v_mem_read(mem', latch'.addr)
        /\ ~answers => mem' = mem /\ io_rdata' = io_rdata
        /\ reqPending' \in BOOLEAN /\ io_respValid' \in BOOLEAN /\ waitTicks' \in Nat
        /\ UNCHANGED <<lsuVars, cpuVars>>
  BY SubtickFacts
<1>2. latch' \in Lsu!Requests
  BY <1>1, RequestType DEF TypeOK, Channel!TypeOK
<1>3. respTicks' \in 0..2
  BY <1>1
<1>4. mem' \in [0..MemEnd-1 -> Byte]
  BY <1>1, <1>2, MemType DEF TypeOK
<1>5. io_rdata' \in [0..3 -> Byte]
  BY <1>1, <1>2, <1>4, MemType DEF TypeOK, Lsu!BusWord, Lsu!Lanes
<1>6. Channel!TypeOK'
  BY <1>1, <1>2, <1>3 DEF Channel!TypeOK
<1>7. Lsu!TypeOK'
  BY <1>1 DEF TypeOK, Lsu!TypeOK, lsuVars
<1>8. QED
  BY <1>1, <1>4, <1>5, <1>6, <1>7 DEF TypeOK, cpuVars, Lsu!BusWord, Lsu!Lanes

\* So does a rising edge.
LEMMA EdgeType ==
    ASSUME TypeOK, Edge
    PROVE  TypeOK'
<1>1. Lsu!TypeOK'
  BY LsuType DEF Edge
<1>2. Channel!TypeOK' /\ io_rdata' \in Lsu!BusWord /\ mem' \in [0..MemEnd-1 -> Byte]
  BY DEF Edge, chanVars, TypeOK, Channel!TypeOK
<1>3. op' \in Op \union {NoOp}
  BY DEF Edge, Issue, Idle, Waiting, Done, cpuVars, TypeOK
<1>4. addr' \in Lsu!ByteAddr
  <2>1. CASE Issue
    <3>1. op'.addr \in 0..(MemEnd - 4)
      BY <2>1, OpAssumption DEF Issue
    <3>2. QED
      BY <2>1, <3>1, MemAssumption DEF Issue, Lsu!ByteAddr
  <2>2. CASE ~Issue
    BY <2>2 DEF Edge, Idle, Waiting, Done, cpuVars, TypeOK
  <2>3. QED
    BY <2>1, <2>2
<1>5. lsu_reqValid' \in BOOLEAN /\ busy' \in BOOLEAN
  BY DEF Edge, Issue, Idle, Waiting, Done, cpuVars, TypeOK
<1>6. result' \in Lsu!BusWord
  BY LsuType DEF Edge, Issue, Idle, Waiting, Done, cpuVars, TypeOK
<1>7. opsDone' \in 0..MaxOps
  BY MemAssumption DEF Edge, Issue, Idle, Waiting, Done, cpuVars, TypeOK
<1>8. QED
  BY <1>1, <1>2, <1>3, <1>4, <1>5, <1>6, <1>7 DEF TypeOK, Edge

\* The state after reset is well typed.
LEMMA InitType ==
    ASSUME Init
    PROVE  TypeOK
<1>1. ZeroWord \in Lsu!BusWord
  BY MemAssumption DEF ZeroWord, Lsu!BusWord, Lsu!Lanes
<1>2. Lsu!TypeOK
  BY MemAssumption DEF Init, Lsu!Init, Lsu!TypeOK, Lsu!lsu_states
<1>3. 0 \in Lsu!ByteAddr
  BY MemAssumption DEF Lsu!ByteAddr
<1>4. Channel!TypeOK
  <2>1. latch \in Lsu!Requests
    BY <1>1, <1>3 DEF Init, Channel!Init, Lsu!Requests
  <2>2. respTicks = 0 /\ waitTicks = 0
    BY DEF Init, Channel!Init
  <2>3. io_respValid \in BOOLEAN /\ reqPending \in BOOLEAN
    BY Zenon DEF Init, Channel!Init
  <2>4. QED
    BY <2>1, <2>2, <2>3 DEF Channel!TypeOK
<1>5. NoOp.addr \in Lsu!ByteAddr
  <2>1. NoOp.addr \in 0..(MemEnd - 4)
    BY OpAssumption
  <2>2. QED
    BY <2>1, MemAssumption DEF Lsu!ByteAddr
<1>6. lsu_reqValid \in BOOLEAN /\ busy \in BOOLEAN
  BY Zenon DEF Init
<1>7. opsDone \in 0..MaxOps /\ mem \in [0..MemEnd-1 -> Byte]
  BY MemAssumption DEF Init
<1>8. QED
  BY <1>1, <1>2, <1>4, <1>5, <1>6, <1>7 DEF Init, TypeOK

\* The types of the memory side are kept: every request is for an address of
\* the bus, every counter is in its range, and memory and results are bytes.
THEOREM LsuTypeCorrect == Spec => []TypeOK
<1>1. TypeOK /\ [Next]_vars => TypeOK'
  <2>1. CASE SubtickHigh
    <3>1. Lsu!io_reqValid(LsuIn) \in BOOLEAN
      BY DEF Lsu!io_reqValid, Lsu!io_reqValid_d, Lsu!Starts, Lsu!FirstPartDone
    <3>2. QED
      BY <2>1, <3>1, SubtickType DEF SubtickHigh
  <2>2. CASE SubtickLow
    BY <2>2, SubtickType DEF SubtickLow
  <2>3. CASE Edge
    BY <2>3, EdgeType
  <2>4. CASE UNCHANGED vars
    BY <2>4 DEF TypeOK, Lsu!TypeOK, Channel!TypeOK, vars, lsuVars, chanVars, cpuVars
  <2>5. QED
    BY <2>1, <2>2, <2>3, <2>4 DEF Next
<1>2. QED
  BY <1>1, InitType, PTL DEF Spec

-----------------------------------------------------------------------------
(* The wires of the LSU, in terms of the parts of the access.              *)

\* What the LSU sees and drives, in terms of its state and the access.
LEMMA LsuWires ==
    /\ Lsu!Starts(LsuIn) <=> lsu_state = "LSU_IDLE" /\ lsu_reqValid
    /\ Lsu!FirstPartDone(LsuIn) <=> lsu_state = "LSU_WAIT_MIS_ONE" /\ io_respValid
    /\ Lsu!respValid(LsuIn) <=>
         io_respValid /\ \/ Lsu!Starts(LsuIn) /\ ~Lsu!is_misalign(LsuIn)
                         \/ lsu_state \in {"LSU_WAIT_ONE", "LSU_WAIT_MIS_TWO"}
    /\ Lsu!Request(LsuIn) =
         IF lsu_state = "LSU_WAIT_MIS_TWO" \/ Lsu!FirstPartDone(LsuIn) THEN SecondReq ELSE FirstReq
    /\ Lsu!is_misalign(LsuIn) <=>
         \/ addr % 4 # 0 /\ op.data_size = "LSU_WORD"
         \/ addr % 4 = 3 /\ op.data_size = "LSU_HALF"
<1>1. /\ LsuIn.reqValid = lsu_reqValid /\ LsuIn.io_respValid = io_respValid
      /\ LsuIn.addr = addr /\ LsuIn.data_size = op.data_size /\ LsuIn.is_write = op.is_write
  BY DEF LsuIn
<1>2. QED
  BY <1>1 DEF Lsu!Starts, Lsu!FirstPartDone, Lsu!respValid, Lsu!is_misalign, Lsu!addr_offset,
              Lsu!Request, Lsu!is_second_part, Lsu!io_addr, Lsu!io_wmask, FirstReq, SecondReq

\* The requests of an access are made of the instruction and the address lines,
\* and of nothing else of the state.
LEMMA RequestsKept ==
    ASSUME op' = op, addr' = addr
    PROVE  /\ FirstReq' = FirstReq /\ SecondReq' = SecondReq
           /\ lsu_state' = lsu_state => PartReq' = PartReq
           /\ Lsu!is_misalign(LsuIn)' <=> Lsu!is_misalign(LsuIn)
<1>1. /\ LsuIn.wdata = op.wdata /\ LsuIn.addr = addr /\ LsuIn.data_size = op.data_size
      /\ LsuIn'.wdata = op'.wdata /\ LsuIn'.addr = addr' /\ LsuIn'.data_size = op'.data_size
  BY DEF LsuIn
<1>2. Lsu!io_wdata(LsuIn)' = Lsu!io_wdata(LsuIn)
  BY <1>1 DEF Lsu!io_wdata, Lsu!addr_offset
<1>3. FirstReq' = FirstReq /\ SecondReq' = SecondReq
  BY <1>2 DEF FirstReq, SecondReq
<1>4. Lsu!is_misalign(LsuIn)' <=> Lsu!is_misalign(LsuIn)
  BY <1>1 DEF Lsu!is_misalign, Lsu!addr_offset
<1>5. QED
  BY <1>3, <1>4 DEF PartReq

\* The byte at a of what the requests carry.
LEMMA CarriedByte ==
    ASSUME TypeOK, NEW a \in Nat, addr <= a, a < addr + 4
    PROVE  Lsu!io_wdata(LsuIn)[a % 4] = op.wdata[a - addr]
<1>1. addr \in Nat /\ a % 4 \in 0..3 /\ ((a % 4) - (addr % 4)) % 4 = a - addr
  <2>1. addr \in Nat
    BY OpType
  <2>2. \A m \in 0..3 : \A n \in 0..3 : \A k \in 0..3 :
          m = n + k \/ m = n + k - 4 => (m - n) % 4 = k
    OBVIOUS
  <2>3. /\ a % 4 \in 0..3 /\ addr % 4 \in 0..3 /\ a - addr \in 0..3
        /\ a % 4 = (addr % 4) + (a - addr) \/ a % 4 = ((addr % 4) + (a - addr)) - 4
    BY <2>1
  <2>4. QED
    BY <2>1, <2>2, <2>3
<1>2. Lsu!io_wdata(LsuIn) = [lane \in 0..3 |-> op.wdata[(lane - (addr % 4)) % 4]]
  BY DEF Lsu!io_wdata, LsuIn, Lsu!Lanes, Lsu!addr_offset
<1>3. QED
  BY <1>1, <1>2

\* An access that crosses a boundary has its next word in memory: the last
\* byte it touches is mapped.
LEMMA NextWordMapped ==
    ASSUME TypeOK, addr = op.addr, Lsu!is_misalign(LsuIn)
    PROVE  Lsu!NextWord(addr) = 4 * (addr \div 4) + 4 /\ Mapped(Lsu!NextWord(addr))
<1>1. addr \in Nat /\ addr <= MemEnd - 4 /\ MemEnd \in Nat /\ NWords \in Nat
      /\ MemEnd % 4 = 0 /\ MemEnd <= 4 * NWords
  BY OpType, MemAssumption
<1>2. addr % 4 # 0
  BY LsuWires
<1>3. 4 * (addr \div 4) + 8 <= MemEnd
  BY <1>1, <1>2
<1>4. addr \div 4 + 1 \in Nat /\ addr \div 4 + 1 < NWords
  BY <1>1, <1>3
<1>5. (addr \div 4 + 1) % NWords = addr \div 4 + 1
  BY <1>1, <1>4
<1>6. Lsu!NextWord(addr) = 4 * (addr \div 4) + 4
  BY <1>1, <1>4, <1>5 DEF Lsu!NextWord
<1>7. QED
  BY <1>1, <1>3, <1>6 DEF Mapped

-----------------------------------------------------------------------------
(* What the requests write.                                                *)

\* An access touches the bytes from its address on.
LEMMA TouchedBytes ==
    ASSUME TypeOK, NEW a \in Nat
    PROVE  /\ Port!Bytes(op) \in 1..4
           /\ a \in Port!Touched(op) <=> op.addr <= a /\ a < op.addr + Port!Bytes(op)
<1>1. op.addr \in Nat /\ op.data_size \in {"LSU_BYTE", "LSU_HALF", "LSU_WORD"}
  BY OpType
<1>2. Port!Bytes(op) \in 1..4
  BY <1>1 DEF Port!Bytes
<1>3. ASSUME a \in Port!Touched(op)
      PROVE  op.addr <= a /\ a < op.addr + Port!Bytes(op)
  <2>1. PICK k \in 0..Port!Bytes(op) - 1 : a = op.addr + k
    BY <1>3 DEF Port!Touched
  <2>2. QED
    BY <1>1, <1>2, <2>1
<1>4. ASSUME op.addr <= a, a < op.addr + Port!Bytes(op)
      PROVE  a \in Port!Touched(op)
  <2>1. a - op.addr \in 0..Port!Bytes(op) - 1 /\ a = op.addr + (a - op.addr)
    BY <1>1, <1>2, <1>4
  <2>2. QED
    BY <2>1 DEF Port!Touched
<1>5. QED
  BY <1>2, <1>3, <1>4

\* The lanes of the first mask, and of the second, are those of the bytes
\* touched in the one word and in the other.
LEMMA Masks ==
    ASSUME TypeOK, NEW lane \in 0..3, NEW off \in 0..3
    PROVE  /\ lane \in Lsu!FirstMask(off, op.data_size)
                <=> off <= lane /\ lane < off + Port!Bytes(op)
           /\ \/ off # 0 /\ op.data_size = "LSU_WORD"
              \/ off = 3 /\ op.data_size = "LSU_HALF"
              => (lane \in Lsu!SecondMask(off, op.data_size)
                    <=> lane + 4 < off + Port!Bytes(op))
<1>1. CASE op.data_size = "LSU_BYTE"
  <2>1. Lsu!FirstMask(off, op.data_size) = {off} /\ Port!Bytes(op) = 1
    BY <1>1 DEF Lsu!FirstMask, Port!Bytes
  <2>2. QED
    BY <1>1, <2>1
<1>2. CASE op.data_size = "LSU_HALF"
  <2>1. /\ lane \in Lsu!FirstMask(off, op.data_size) <=> off <= lane /\ lane <= off + 1
        /\ Lsu!SecondMask(off, op.data_size) = {0}
    BY <1>2 DEF Lsu!FirstMask, Lsu!SecondMask, Lsu!Lanes
  <2>2. Port!Bytes(op) = 2
    BY <1>2 DEF Port!Bytes
  <2>3. QED
    BY <1>2, <2>1, <2>2
<1>3. CASE op.data_size = "LSU_WORD"
  <2>1. /\ lane \in Lsu!FirstMask(off, op.data_size) <=> off <= lane
        /\ off # 0 => (lane \in Lsu!SecondMask(off, op.data_size) <=> lane < off)
    BY <1>3 DEF Lsu!FirstMask, Lsu!SecondMask, Lsu!Lanes
  <2>2. Port!Bytes(op) = 4
    BY <1>3 DEF Port!Bytes
  <2>3. QED
    BY <1>3, <2>1, <2>2
<1>4. QED
  BY <1>1, <1>2, <1>3, OpType

\* Two addresses in the same word, or in neighbouring ones, differ as their
\* offsets do.
LEMMA Offsets ==
    ASSUME NEW a \in Nat, NEW b \in Nat
    PROVE  /\ a = 4 * (a \div 4) + (a % 4) /\ a \div 4 \in Nat /\ a % 4 \in 0..3
           /\ a \div 4 = b \div 4 => b + (a % 4) = a + (b % 4)
           /\ a \div 4 = b \div 4 + 1 => b + ((a % 4) + 4) = a + (b % 4)
<1>1. /\ a = 4 * (a \div 4) + (a % 4) /\ a \div 4 \in Nat /\ a % 4 \in 0..3
      /\ b = 4 * (b \div 4) + (b % 4) /\ b \div 4 \in Nat /\ b % 4 \in 0..3
  OBVIOUS
<1>2. QED
  BY <1>1

\* The bytes of a store in the word of its first byte are those the first
\* request writes.
LEMMA FirstWrites ==
    ASSUME TypeOK, addr = op.addr, op.is_write, NEW a \in 0..MemEnd-1
    PROVE  /\ Writes(FirstReq, a) <=> a \in Port!Touched(op) /\ a \div 4 = addr \div 4
           /\ Writes(FirstReq, a) => FirstReq.wdata[a % 4] = op.wdata[a - op.addr]
<1>1. /\ addr \in Nat /\ addr <= MemEnd - 4 /\ MemEnd \in Nat /\ a \in Nat
      /\ a % 4 \in 0..3 /\ addr % 4 \in 0..3
      /\ op.data_size \in {"LSU_BYTE", "LSU_HALF", "LSU_WORD"}
  BY OpType, MemAssumption
<1>2. /\ FirstReq.wen /\ FirstReq.addr = addr /\ FirstReq.wdata = Lsu!io_wdata(LsuIn)
      /\ FirstReq.wmask = Lsu!FirstMask(addr % 4, op.data_size)
      /\ Mapped(addr)
  BY <1>1 DEF FirstReq, Mapped
<1>3. Writes(FirstReq, a) <=> /\ a \div 4 = addr \div 4
                              /\ a % 4 \in Lsu!FirstMask(addr % 4, op.data_size)
  BY <1>2 DEF Writes
<1>4. a \in Port!Touched(op) <=> addr <= a /\ a < addr + Port!Bytes(op)
  BY <1>1, TouchedBytes
<1>5. Port!Bytes(op) \in 1..4
  BY <1>1, TouchedBytes
<1>6. ASSUME a \div 4 = addr \div 4
      PROVE  a % 4 \in Lsu!FirstMask(addr % 4, op.data_size)
               <=> addr <= a /\ a < addr + Port!Bytes(op)
  <2>1. addr + (a % 4) = a + (addr % 4)
    BY <1>1, <1>6, Offsets
  <2>2. a % 4 \in Lsu!FirstMask(addr % 4, op.data_size)
          <=> addr % 4 <= a % 4 /\ a % 4 < (addr % 4) + Port!Bytes(op)
    BY <1>1, Masks
  <2>3. addr <= a /\ a < addr + Port!Bytes(op)
          <=> addr % 4 <= a % 4 /\ a % 4 < (addr % 4) + Port!Bytes(op)
    <3>1. \A m, n, w \in Nat : addr + m = a + n =>
            /\ addr <= a <=> n <= m
            /\ a < addr + w <=> m < n + w
      BY <1>1
    <3>2. a % 4 \in Nat /\ addr % 4 \in Nat /\ Port!Bytes(op) \in Nat
      BY <1>1, <1>5
    <3>3. QED
      BY <2>1, <3>1, <3>2
  <2>4. QED
    BY <2>2, <2>3
<1>7. Writes(FirstReq, a) <=> a \in Port!Touched(op) /\ a \div 4 = addr \div 4
  BY <1>3, <1>4, <1>6
<1>8. ASSUME Writes(FirstReq, a)
      PROVE  FirstReq.wdata[a % 4] = op.wdata[a - op.addr]
  <2>1. addr <= a /\ a < addr + 4
    BY <1>1, <1>4, <1>5, <1>7, <1>8
  <2>2. QED
    BY <1>1, <1>2, <2>1, CarriedByte
<1>9. QED
  BY <1>7, <1>8

\* The others are those the second writes.
LEMMA SecondWrites ==
    ASSUME TypeOK, addr = op.addr, op.is_write, Lsu!is_misalign(LsuIn), NEW a \in 0..MemEnd-1
    PROVE  /\ Writes(SecondReq, a) <=> a \in Port!Touched(op) /\ a \div 4 # addr \div 4
           /\ Writes(SecondReq, a) => SecondReq.wdata[a % 4] = op.wdata[a - op.addr]
<1>1. /\ addr \in Nat /\ a \in Nat /\ a % 4 \in 0..3 /\ addr % 4 \in 1..3
      /\ \/ op.data_size = "LSU_WORD"
         \/ op.data_size = "LSU_HALF" /\ addr % 4 = 3
  BY OpType, LsuWires
<1>2. /\ SecondReq.wen /\ SecondReq.wdata = Lsu!io_wdata(LsuIn)
      /\ SecondReq.addr = 4 * (addr \div 4) + 4 /\ Mapped(SecondReq.addr)
      /\ SecondReq.wmask = Lsu!SecondMask(addr % 4, op.data_size)
  BY NextWordMapped DEF SecondReq
<1>3. (4 * (addr \div 4) + 4) \div 4 = addr \div 4 + 1
  BY <1>1
<1>4. Writes(SecondReq, a) <=> /\ a \div 4 = addr \div 4 + 1
                               /\ a % 4 \in Lsu!SecondMask(addr % 4, op.data_size)
  BY <1>2, <1>3 DEF Writes
<1>5. a \in Port!Touched(op) <=> addr <= a /\ a < addr + Port!Bytes(op)
  BY <1>1, TouchedBytes
<1>6. Port!Bytes(op) \in 1..4
  BY <1>1, TouchedBytes
<1>7. ASSUME a \in Port!Touched(op), a \div 4 # addr \div 4
      PROVE  a \div 4 = addr \div 4 + 1
  <2>1. addr <= a /\ a < addr + 4
    BY <1>1, <1>5, <1>6, <1>7
  <2>2. QED
    BY <1>1, <1>7, <2>1
<1>8. ASSUME a \div 4 = addr \div 4 + 1
      PROVE  a % 4 \in Lsu!SecondMask(addr % 4, op.data_size)
               <=> addr <= a /\ a < addr + Port!Bytes(op)
  <2>1. addr + ((a % 4) + 4) = a + (addr % 4)
    BY <1>1, <1>8, Offsets
  <2>2. a % 4 \in Lsu!SecondMask(addr % 4, op.data_size)
          <=> (a % 4) + 4 < (addr % 4) + Port!Bytes(op)
    BY <1>1, Masks
  <2>3. addr <= a /\ a < addr + Port!Bytes(op)
          <=> (a % 4) + 4 < (addr % 4) + Port!Bytes(op)
    BY <1>1, <1>6, <2>1
  <2>4. QED
    BY <2>2, <2>3
<1>9. Writes(SecondReq, a) <=> a \in Port!Touched(op) /\ a \div 4 # addr \div 4
  <2>1. a \div 4 \in Nat /\ addr \div 4 \in Nat
    BY <1>1
  <2>2. QED
    BY <1>4, <1>5, <1>7, <1>8, <2>1
<1>10. ASSUME Writes(SecondReq, a)
       PROVE  SecondReq.wdata[a % 4] = op.wdata[a - op.addr]
  <2>1. addr <= a /\ a < addr + 4
    BY <1>1, <1>5, <1>6, <1>9, <1>10
  <2>2. QED
    BY <1>1, <1>2, <2>1, CarriedByte
<1>11. QED
  BY <1>9, <1>10

\* A request of the access writes nothing but bytes of the access, each with
\* the value the instruction has for it.
LEMMA PartWrites ==
    ASSUME TypeOK, addr = op.addr,
           lsu_state = "LSU_WAIT_MIS_TWO" => Lsu!is_misalign(LsuIn)
    PROVE  v_mem_write(PartReq) =
             IF op.is_write
             THEN Port!Stored(mem, op, {a \in 0..MemEnd-1 : Writes(PartReq, a)})
             ELSE mem
<1>1. v_mem_write(PartReq) =
        [a \in 0..MemEnd-1 |-> IF Writes(PartReq, a) THEN PartReq.wdata[a % 4] ELSE mem[a]]
  BY DEF v_mem_write, Writes
<1>2. CASE op.is_write
  <2>1. \A a \in 0..MemEnd-1 : Writes(PartReq, a) => PartReq.wdata[a % 4] = op.wdata[a - op.addr]
    BY <1>2, FirstWrites, SecondWrites DEF PartReq
  <2>2. QED
    BY <1>1, <1>2, <2>1 DEF Port!Stored
<1>3. CASE ~op.is_write
  <2>1. \A a \in 0..MemEnd-1 : ~Writes(PartReq, a)
    BY <1>3 DEF PartReq, FirstReq, SecondReq, Writes
  <2>2. QED
    BY <1>1, <1>3, <2>1 DEF TypeOK
<1>4. QED
  BY <1>2, <1>3

\* Once a request has been served memory holds what it writes, and serving a
\* request whose bytes are there changes nothing.
LEMMA ServedHolds ==
    ASSUME NEW req, mem' = v_mem_write(req)
    PROVE  \A a \in 0..MemEnd-1 : Writes(req, a) => mem'[a] = req.wdata[a % 4]
BY DEF v_mem_write, Writes

\* Serving a write again changes nothing.
LEMMA ServedAgain ==
    ASSUME TypeOK, NEW req, Holds(req)
    PROVE  v_mem_write(req) = mem
BY DEF v_mem_write, Writes, Holds, TypeOK

\* The second request leaves the bytes of the first as they are.
LEMMA PartsApart ==
    ASSUME TypeOK, addr = op.addr, Lsu!is_misalign(LsuIn), Holds(FirstReq),
           mem' = v_mem_write(SecondReq)
    PROVE  \A a \in 0..MemEnd-1 : Writes(FirstReq, a) => mem'[a] = FirstReq.wdata[a % 4]
<1>1. CASE op.is_write
  <2>1. \A a \in 0..MemEnd-1 : Writes(FirstReq, a) => ~Writes(SecondReq, a)
    BY <1>1, FirstWrites, SecondWrites
  <2>2. \A a \in 0..MemEnd-1 : ~Writes(SecondReq, a) => mem'[a] = mem[a]
    BY DEF v_mem_write, Writes
  <2>3. QED
    BY <2>1, <2>2 DEF Holds
<1>2. CASE ~op.is_write
  BY <1>2 DEF FirstReq, Writes
<1>3. QED
  BY <1>1, <1>2

-----------------------------------------------------------------------------
(* The invariant of the path.                                              *)

\* A half period keeps it, provided that what is sampled is the request for
\* the part waited for and that, while an access is under way, so is what stays
\* in the channel.
LEMMA SubtickPath ==
    ASSUME TypeOK, PathInv, NEW sampled \in BOOLEAN, Subtick(sampled),
           sampled => Lsu!Request(LsuIn) = PartReq /\ (~busy => Holds(PartReq)),
           busy /\ reqPending /\ ~sampled => latch = PartReq,
           \/ phase' = "low"
           \/ phase = "low" /\ phase' = "edge" /\ ~sampled
    PROVE  PathInv'
<1>1. PICK answers \in BOOLEAN, ticks \in 0..1 :
        /\ latch' = IF sampled THEN Lsu!Request(LsuIn) ELSE latch
        /\ answers => reqPending \/ sampled
        /\ reqPending' <=> (reqPending \/ sampled) /\ ~answers
        /\ respTicks <= 1 => ticks = 0
        /\ respTicks' = IF answers THEN 2 ELSE ticks
        /\ io_respValid' <=> answers \/ (io_respValid /\ ticks # 0)
        /\ answers => /\ mem' = v_mem_write(latch')
                      /\ io_rdata' = v_mem_read(mem', latch'.addr)
        /\ ~answers => mem' = mem /\ io_rdata' = io_rdata
        /\ UNCHANGED <<lsuVars, cpuVars>>
  BY SubtickFacts
<1>2. /\ lsu_state' = lsu_state /\ io_reqValid_q' = io_reqValid_q
      /\ first_rdata_q' = first_rdata_q
      /\ op' = op /\ addr' = addr /\ lsu_reqValid' = lsu_reqValid /\ busy' = busy
  BY <1>1 DEF lsuVars, cpuVars
<1>3. /\ FirstReq' = FirstReq /\ PartReq' = PartReq
      /\ Lsu!is_misalign(LsuIn)' <=> Lsu!is_misalign(LsuIn)
  BY <1>2, RequestsKept
<1>4. AccessUnderWay'
  BY <1>2, <1>3 DEF AccessUnderWay, PathInv
<1>5. /\ busy /\ (reqPending \/ sampled) => latch' = PartReq
      /\ ~busy /\ (reqPending \/ sampled) => Holds(latch')
  BY <1>1 DEF PathInv, LeftoverHarmless
<1>6. answers => Holds(latch)'
  BY <1>1, ServedHolds DEF Holds
<1>7. ~busy => mem' = mem
  BY <1>1, <1>5, ServedAgain
<1>8. busy /\ answers => Answered'
  BY <1>1, <1>3, <1>5, <1>6 DEF Answered
<1>9. ServesPart'
  <2>1. busy' /\ reqPending' => latch' = PartReq'
    BY <1>1, <1>2, <1>3, <1>5
  <2>2. busy' /\ phase' = "low" /\ respTicks' = 2 => Answered'
    BY <1>1, <1>2, <1>8
  <2>3. ASSUME busy', phase' = "edge", io_respValid'
        PROVE  Answered'
    <3>1. CASE answers
      BY <1>2, <1>8, <2>3, <3>1
    <3>2. CASE ~answers
      <4>1. respTicks = 2
        BY <1>1, <2>3, <3>2 DEF TypeOK, Channel!TypeOK
      <4>2. Answered /\ ~sampled
        BY <1>1, <1>2, <2>3, <3>2, <4>1 DEF PathInv, ServesPart
      <4>3. QED
        BY <1>1, <1>3, <3>2, <4>2 DEF Answered, Holds
    <3>3. QED
      BY <3>1, <3>2
  <2>4. QED
    BY <2>1, <2>2, <2>3 DEF ServesPart
<1>10. FirstPartKept'
  <2>1. SUFFICES ASSUME lsu_state = "LSU_WAIT_MIS_TWO"
                 PROVE  FirstPartKept'
    BY <1>2 DEF FirstPartKept
  <2>2. /\ busy /\ addr = op.addr /\ Lsu!is_misalign(LsuIn)
        /\ PartReq = SecondReq /\ Holds(FirstReq)
        /\ ~op.is_write => \A lane \in 1..3 : first_rdata_q[lane] = v_mem_read(mem, addr)[lane]
    BY <2>1 DEF PathInv, AccessUnderWay, FirstPartKept, PartReq
  <2>3. Holds(FirstReq)'
    <3>1. CASE answers
      <4>1. \A a \in 0..MemEnd-1 : Writes(FirstReq, a) => mem'[a] = FirstReq.wdata[a % 4]
        BY <1>1, <1>5, <2>2, <3>1, PartsApart
      <4>2. QED
        BY <1>3, <4>1 DEF Holds
    <3>2. CASE ~answers
      BY <1>1, <1>3, <2>2, <3>2 DEF Holds
    <3>3. QED
      BY <3>1, <3>2
  <2>4. ~op.is_write => mem' = mem
    BY <1>1, <1>5, <2>2, PartWrites
  <2>5. QED
    BY <1>2, <2>2, <2>3, <2>4 DEF FirstPartKept
<1>11. LeftoverHarmless'
  <2>1. SUFFICES ASSUME ~busy
                 PROVE  LeftoverHarmless'
    BY <1>2 DEF LeftoverHarmless
  <2>2. reqPending' => Holds(latch)'
    BY <1>1, <1>5, <1>7, <2>1 DEF Holds
  <2>3. io_reqValid_q' => Holds(FirstReq)'
    BY <1>2, <1>3, <1>7, <2>1 DEF PathInv, LeftoverHarmless, Holds
  <2>4. QED
    BY <2>2, <2>3 DEF LeftoverHarmless
<1>12. QED
  BY <1>4, <1>9, <1>10, <1>11 DEF PathInv

\* The half period that samples: only then can a request be taken, and it is
\* the one for the part waited for because the answer to the first part has
\* been taken off the bus before the second part is asked for.
LEMMA HighSampled ==
    ASSUME TypeOK, PathInv, SubtickHigh
    PROVE  \E sampled \in BOOLEAN :
             /\ Subtick(sampled)
             /\ sampled => Lsu!Request(LsuIn) = PartReq /\ (~busy => Holds(PartReq))
             /\ busy /\ reqPending /\ ~sampled => latch = PartReq
<1>1. PICK sampled \in BOOLEAN : (sampled <=> Lsu!io_reqValid(LsuIn)) /\ Subtick(sampled)
  <2>1. Lsu!io_reqValid(LsuIn) \in BOOLEAN
    BY DEF Lsu!io_reqValid, Lsu!io_reqValid_d, Lsu!Starts, Lsu!FirstPartDone
  <2>2. QED
    BY <2>1 DEF SubtickHigh
<1>2. ~Lsu!FirstPartDone(LsuIn)
  BY LsuWires DEF SubtickHigh, PathInv, AccessUnderWay, ServesPart
<1>3. /\ Lsu!Request(LsuIn) = PartReq
      /\ sampled <=> lsu_reqValid \/ io_reqValid_q
  <2>1. lsu_reqValid => lsu_state = "LSU_IDLE"
    BY DEF PathInv, AccessUnderWay
  <2>2. QED
    BY <1>1, <1>2, <2>1, LsuWires DEF PartReq, Lsu!io_reqValid, Lsu!io_reqValid_d
<1>4. sampled /\ ~busy => Holds(PartReq)
  BY <1>3 DEF PathInv, AccessUnderWay, LeftoverHarmless, PartReq
<1>5. busy /\ reqPending /\ ~sampled => latch = PartReq
  BY <1>3 DEF PathInv, ServesPart, SubtickHigh
<1>6. QED
  BY <1>1, <1>3, <1>4, <1>5

\* The subtick at clk high preserves PathInv.
LEMMA HighPath ==
    ASSUME TypeOK, PathInv, SubtickHigh
    PROVE  PathInv'
<1>1. PICK sampled \in BOOLEAN :
        /\ Subtick(sampled)
        /\ sampled => Lsu!Request(LsuIn) = PartReq /\ (~busy => Holds(PartReq))
        /\ busy /\ reqPending /\ ~sampled => latch = PartReq
  BY HighSampled
<1>2. QED
  BY <1>1, SubtickPath DEF SubtickHigh

\* The half period that does not.
LEMMA LowPath ==
    ASSUME TypeOK, PathInv, SubtickLow
    PROVE  PathInv'
<1>1. busy /\ reqPending => latch = PartReq
  BY DEF SubtickLow, PathInv, ServesPart
<1>2. QED
  BY <1>1, SubtickPath DEF SubtickLow

\* The LSU in a rising edge: an access starts, goes on to its second part, is
\* answered, or stays where it is because the bus has no answer.
LEMMA LsuSteps ==
    ASSUME TypeOK, PathInv, Edge
    PROVE  /\ phase = "edge" /\ phase' = "high"
           /\ UNCHANGED <<io_respValid, respTicks, reqPending, latch, io_rdata, mem>>
           /\ io_reqValid_q' <=> Lsu!Starts(LsuIn) \/ Lsu!FirstPartDone(LsuIn)
           /\ first_rdata_q' = IF ~op.is_write /\ io_respValid
                               THEN [lane \in 1..3 |-> io_rdata[lane]] ELSE first_rdata_q
           /\ Lsu!Starts(LsuIn) /\ io_respValid =>
                lsu_state' = IF Lsu!is_misalign(LsuIn) THEN "LSU_WAIT_MIS_TWO" ELSE "LSU_IDLE"
           /\ Lsu!Starts(LsuIn) /\ ~io_respValid =>
                lsu_state' = IF Lsu!is_misalign(LsuIn) THEN "LSU_WAIT_MIS_ONE" ELSE "LSU_WAIT_ONE"
           /\ Lsu!FirstPartDone(LsuIn) => lsu_state' = "LSU_WAIT_MIS_TWO"
           /\ lsu_state \in {"LSU_WAIT_ONE", "LSU_WAIT_MIS_TWO"} /\ io_respValid =>
                lsu_state' = "LSU_IDLE"
           /\ \/ ~Lsu!Starts(LsuIn) /\ ~io_respValid
              \/ lsu_state = "LSU_IDLE" /\ ~lsu_reqValid
              => lsu_state' = lsu_state
<1>1. LsuIn.io_respValid = io_respValid /\ LsuIn.io_rdata = io_rdata /\ LsuIn.is_write = op.is_write
  BY DEF LsuIn
<1>2. Lsu!Clock(LsuIn)
  BY DEF Edge
<1>3. first_rdata_q' = IF ~op.is_write /\ io_respValid
                       THEN [lane \in 1..3 |-> io_rdata[lane]] ELSE first_rdata_q
  BY <1>1, <1>2 DEF Lsu!Clock, Lsu!Keeps
<1>4. io_reqValid_q' <=> Lsu!Starts(LsuIn) \/ Lsu!FirstPartDone(LsuIn)
  BY <1>2 DEF Lsu!Clock, Lsu!io_reqValid_d
<1>5. lsu_state' =
        CASE Lsu!Starts(LsuIn) /\ io_respValid ->
               IF Lsu!is_misalign(LsuIn) THEN "LSU_WAIT_MIS_TWO" ELSE "LSU_IDLE"
          [] Lsu!Starts(LsuIn) /\ ~io_respValid ->
               IF Lsu!is_misalign(LsuIn) THEN "LSU_WAIT_MIS_ONE" ELSE "LSU_WAIT_ONE"
          [] Lsu!FirstPartDone(LsuIn) -> "LSU_WAIT_MIS_TWO"
          [] Lsu!respValid(LsuIn) /\ ~Lsu!Starts(LsuIn) -> "LSU_IDLE"
          [] OTHER -> lsu_state
  BY <1>1, <1>2 DEF Lsu!Clock, Lsu!next_state
<1>6. QED
  BY <1>3, <1>4, <1>5, LsuWires DEF Edge, chanVars

\* At an edge nothing is under way: the next access is offered, or nothing is.
LEMMA RestEdge ==
    ASSUME TypeOK, PathInv, Edge, ~busy
    PROVE  PathInv'
<1>1. lsu_state = "LSU_IDLE" /\ ~lsu_reqValid
  BY DEF PathInv, AccessUnderWay
<1>2. /\ lsu_state' = "LSU_IDLE" /\ ~io_reqValid_q' /\ phase' = "high"
      /\ reqPending' = reqPending /\ latch' = latch /\ mem' = mem
  BY <1>1, LsuSteps, LsuWires
<1>3. CASE Issue
  <2>1. busy' /\ lsu_reqValid' /\ addr' = op'.addr
    BY <1>3 DEF Issue
  <2>2. AccessUnderWay' /\ ServesPart' /\ FirstPartKept' /\ LeftoverHarmless'
    BY <1>2, <2>1 DEF AccessUnderWay, ServesPart, FirstPartKept, LeftoverHarmless
  <2>3. QED
    BY <2>2 DEF PathInv
<1>4. CASE Idle
  <2>1. ~busy' /\ ~lsu_reqValid' /\ op' = op /\ addr' = addr
    BY <1>1, <1>4 DEF Idle, cpuVars
  <2>2. AccessUnderWay'
    BY <1>2, <2>1 DEF AccessUnderWay, PathInv
  <2>3. LeftoverHarmless'
    BY <1>2 DEF LeftoverHarmless, PathInv, Holds
  <2>4. ServesPart' /\ FirstPartKept'
    BY <1>2, <2>1 DEF ServesPart, FirstPartKept
  <2>5. QED
    BY <2>2, <2>3, <2>4 DEF PathInv
<1>5. QED
  BY <1>3, <1>4 DEF Edge, Waiting, Done

\* At an edge the LSU answers: what it was answered is in memory, and so is all
\* that the request it may leave behind would write.
LEMMA DoneEdge ==
    ASSUME TypeOK, PathInv, Edge, busy, Lsu!respValid(LsuIn)
    PROVE  PathInv'
<1>1. /\ Done
      /\ ~lsu_reqValid' /\ ~busy' /\ op' = op
      /\ op.is_write => addr' = addr
  BY DEF Edge, Issue, Idle, Waiting, Done
<1>2. io_respValid /\ Answered
  BY LsuWires, LsuSteps DEF PathInv, ServesPart
<1>3. /\ lsu_state' = "LSU_IDLE" /\ phase' = "high"
      /\ io_reqValid_q' => lsu_state = "LSU_IDLE"
      /\ reqPending' = reqPending /\ latch' = latch /\ mem' = mem
  BY LsuSteps, LsuWires
<1>4. AccessUnderWay'
  BY <1>1, <1>3 DEF AccessUnderWay, PathInv
<1>5. io_reqValid_q' => Holds(FirstReq)'
  <2>1. CASE op.is_write
    <3>1. FirstReq' = FirstReq
      BY <1>1, <2>1, RequestsKept
    <3>2. io_reqValid_q' => Holds(FirstReq)
      BY <1>2, <1>3 DEF Answered, PartReq
    <3>3. QED
      BY <1>3, <3>1, <3>2 DEF Holds
  <2>2. CASE ~op.is_write
    BY <1>1, <2>2 DEF Holds, Writes, FirstReq
  <2>3. QED
    BY <2>1, <2>2
<1>6. LeftoverHarmless'
  BY <1>2, <1>3, <1>5 DEF LeftoverHarmless, Answered
<1>7. ServesPart' /\ FirstPartKept'
  BY <1>1, <1>3 DEF ServesPart, FirstPartKept
<1>8. QED
  BY <1>4, <1>6, <1>7 DEF PathInv

\* At an edge the access goes on.
LEMMA WaitEdge ==
    ASSUME TypeOK, PathInv, Edge, busy, ~Lsu!respValid(LsuIn)
    PROVE  PathInv'
<1>1. /\ ~lsu_reqValid' /\ busy' /\ op' = op /\ addr' = addr
      /\ addr = op.addr
  BY DEF Edge, Issue, Idle, Waiting, Done, PathInv, AccessUnderWay
<1>2. /\ phase = "edge" /\ phase' = "high"
      /\ io_respValid' = io_respValid /\ reqPending' = reqPending
      /\ latch' = latch /\ mem' = mem
  BY LsuSteps
<1>3. /\ Lsu!is_misalign(LsuIn)' <=> Lsu!is_misalign(LsuIn)
      /\ FirstReq' = FirstReq /\ SecondReq' = SecondReq
      /\ lsu_state' = lsu_state => PartReq' = PartReq
  BY <1>1, RequestsKept
<1>4. \/ Lsu!Starts(LsuIn)
      \/ Lsu!FirstPartDone(LsuIn)
      \/ ~Lsu!Starts(LsuIn) /\ ~Lsu!FirstPartDone(LsuIn) /\ ~io_respValid /\ lsu_state # "LSU_IDLE"
  BY LsuWires DEF PathInv, AccessUnderWay, TypeOK, Lsu!TypeOK, Lsu!lsu_states
<1>5. LeftoverHarmless'
  BY <1>1 DEF LeftoverHarmless
<1>6. CASE io_respValid
  \* The answer is the one to the first part of an access in two.
  <2>1. /\ lsu_state' = "LSU_WAIT_MIS_TWO" /\ io_reqValid_q'
        /\ lsu_state \in {"LSU_IDLE", "LSU_WAIT_MIS_ONE"} /\ Lsu!is_misalign(LsuIn)
        /\ first_rdata_q' = IF op.is_write THEN first_rdata_q
                            ELSE [lane \in 1..3 |-> io_rdata[lane]]
    BY <1>4, <1>6, LsuSteps, LsuWires DEF PathInv, AccessUnderWay
  <2>2. Answered /\ PartReq = FirstReq
    BY <1>2, <1>6, <2>1 DEF PathInv, ServesPart, PartReq
  <2>3. AccessUnderWay'
    BY <1>1, <1>3, <2>1 DEF AccessUnderWay
  <2>4. ServesPart'
    BY <1>2, <2>1 DEF ServesPart
  <2>5. Holds(FirstReq)'
    BY <1>2, <1>3, <2>2 DEF Answered, Holds
  <2>6. io_rdata = v_mem_read(mem, addr)
    BY <2>2 DEF Answered, FirstReq
  <2>7. FirstPartKept'
    BY <1>1, <1>2, <2>1, <2>5, <2>6 DEF FirstPartKept
  <2>8. QED
    BY <1>5, <2>3, <2>4, <2>7 DEF PathInv
<1>7. CASE ~io_respValid
  <2>1. /\ ~Lsu!FirstPartDone(LsuIn)
        /\ io_reqValid_q' <=> Lsu!Starts(LsuIn)
        /\ first_rdata_q' = first_rdata_q
    BY <1>7, LsuSteps, LsuWires
  <2>2. CASE Lsu!Starts(LsuIn)
    <3>1. lsu_state' = IF Lsu!is_misalign(LsuIn) THEN "LSU_WAIT_MIS_ONE" ELSE "LSU_WAIT_ONE"
      BY <1>7, <2>2, LsuSteps
    <3>2. AccessUnderWay'
      BY <1>1, <1>3, <3>1 DEF AccessUnderWay
    <3>3. ServesPart'
      BY <1>2, <1>7, <2>1, <2>2 DEF ServesPart
    <3>4. FirstPartKept'
      BY <3>1 DEF FirstPartKept
    <3>5. QED
      BY <1>5, <3>2, <3>3, <3>4 DEF PathInv
  <2>3. CASE ~Lsu!Starts(LsuIn)
    <3>1. lsu_state' = lsu_state /\ lsu_state # "LSU_IDLE" /\ ~io_reqValid_q'
      BY <1>4, <1>7, <2>1, <2>3, LsuSteps
    <3>2. AccessUnderWay'
      BY <1>1, <1>3, <3>1 DEF AccessUnderWay, PathInv
    <3>3. ServesPart'
      BY <1>2, <1>3, <1>7, <3>1 DEF ServesPart, PathInv
    <3>4. FirstPartKept'
      BY <1>1, <1>2, <1>3, <2>1, <3>1 DEF FirstPartKept, PathInv, Holds
    <3>5. QED
      BY <1>5, <3>2, <3>3, <3>4 DEF PathInv
  <2>4. QED
    BY <2>2, <2>3
<1>8. QED
  BY <1>6, <1>7

\* After reset nothing is under way and nothing is pending.
LEMMA InitPath ==
    ASSUME Init
    PROVE  PathInv
<1>1. /\ lsu_state = "LSU_IDLE" /\ ~io_reqValid_q /\ ~reqPending /\ ~lsu_reqValid /\ ~busy
      /\ op = NoOp /\ addr = NoOp.addr
  BY DEF Init, Lsu!Init, Channel!Init
<1>2. QED
  BY <1>1 DEF PathInv, AccessUnderWay, ServesPart, FirstPartKept, LeftoverHarmless

\* Every reachable state satisfies TypeOK and PathInv.
LEMMA AlwaysPathInv == Spec => [](TypeOK /\ PathInv)
<1>1. TypeOK /\ PathInv /\ [Next]_vars => PathInv'
  <2>1. CASE SubtickHigh
    BY <2>1, HighPath
  <2>2. CASE SubtickLow
    BY <2>2, LowPath
  <2>3. CASE Edge
    BY <2>3, RestEdge, DoneEdge, WaitEdge
  <2>4. CASE UNCHANGED vars
    <3>1. /\ op' = op /\ addr' = addr /\ lsu_state' = lsu_state
          /\ UNCHANGED <<io_reqValid_q, first_rdata_q, lsu_reqValid, busy, phase, mem,
                         reqPending, latch, io_respValid, respTicks, io_rdata>>
      BY <2>4 DEF vars, lsuVars, chanVars, cpuVars
    <3>2. /\ FirstReq' = FirstReq /\ PartReq' = PartReq
          /\ Lsu!is_misalign(LsuIn)' <=> Lsu!is_misalign(LsuIn)
      BY <3>1, RequestsKept
    <3>3. Holds(FirstReq)' <=> Holds(FirstReq)
      BY <3>1, <3>2 DEF Holds
    <3>4. Holds(latch)' <=> Holds(latch)
      BY <3>1 DEF Holds
    <3>5. Answered' <=> Answered
      BY <3>1, <3>2, <3>4 DEF Answered
    <3>6. TypeOK /\ PathInv => PathInv'
      BY <3>1, <3>2, <3>3, <3>4, <3>5
      DEF PathInv, AccessUnderWay, ServesPart, FirstPartKept, LeftoverHarmless
    <3>7. QED
      BY <3>6
  <2>5. QED
    BY <2>1, <2>2, <2>3, <2>4 DEF Next
<1>2. QED
  BY <1>1, InitPath, LsuTypeCorrect, PTL DEF Spec

\* At a rising edge, an answer the LSU takes is the one to the part of the
\* access it waits for, whatever the delays.
THEOREM AnswerAlwaysForPart == Spec => []AnswerIsForPart
<1>1. TypeOK /\ PathInv => AnswerIsForPart
  BY DEF PathInv, AccessUnderWay, ServesPart, Answered, AnswerIsForPart, PartReq, PartAddr,
         FirstReq, SecondReq
<1>2. QED
  BY <1>1, AlwaysPathInv, PTL

-----------------------------------------------------------------------------
(* The path implements the memory it stands for.                           *)

\* The word read at a mapped address, by bytes.
LEMMA WordRead ==
    ASSUME NEW q \in Nat, NEW r \in 0..3, Mapped(4 * q + r), NEW lane \in 0..3
    PROVE  v_mem_read(mem, 4 * q + r)[lane] = mem[4 * q + lane]
<1>1. (4 * q + r) \div 4 = q
  OBVIOUS
<1>2. QED
  BY <1>1 DEF v_mem_read

\* The bytes of a load, gathered from the one word or from the two, are those of
\* memory from its address on.
LEMMA AlignedBytes ==
    ASSUME TypeOK, PathInv, phase = "edge", busy, ~op.is_write, Lsu!respValid(LsuIn),
           NEW k \in 0..Port!Bytes(op) - 1
    PROVE  Lsu!align_rdata(LsuIn)[k] = mem[op.addr + k]
<1>1. /\ LsuIn.addr = addr /\ LsuIn.io_rdata = io_rdata /\ LsuIn.io_respValid = io_respValid
      /\ addr = op.addr /\ io_respValid /\ Answered
  BY LsuWires DEF LsuIn, PathInv, AccessUnderWay, ServesPart
<1>2. /\ addr \in Nat /\ addr <= MemEnd - 4 /\ MemEnd \in Nat /\ Mapped(addr)
      /\ op.data_size \in {"LSU_BYTE", "LSU_HALF", "LSU_WORD"}
  BY <1>1, OpType, MemAssumption DEF Mapped
<1>3. PICK q \in Nat, r \in 0..3 :
        addr = 4 * q + r /\ addr \div 4 = q /\ addr % 4 = r
  BY <1>2
<1>4. k \in 0..3
  BY TouchedBytes
<1>5. Lsu!align_rdata(LsuIn)[k] = IF r # 0 /\ k + r <= 3
                                  THEN Lsu!first_rdata(LsuIn)[k + r]
                                  ELSE io_rdata[(k + r) % 4]
  BY <1>1, <1>3, <1>4 DEF Lsu!align_rdata, Lsu!addr_offset, Lsu!Lanes
<1>6. Lsu!first_rdata(LsuIn) = IF lsu_state = "LSU_WAIT_MIS_TWO" THEN first_rdata_q
                               ELSE [lane \in 1..3 |-> io_rdata[lane]]
  BY <1>1 DEF Lsu!first_rdata
<1>7. CASE lsu_state = "LSU_WAIT_MIS_TWO"
  <2>1. Lsu!is_misalign(LsuIn) /\ r # 0
    BY <1>3, <1>7, LsuWires DEF PathInv, AccessUnderWay
  <2>2. /\ Lsu!NextWord(addr) = 4 * (q + 1) + 0 /\ Mapped(4 * (q + 1) + 0)
        /\ io_rdata = v_mem_read(mem, 4 * (q + 1) + 0)
    <3>1. Lsu!NextWord(addr) = 4 * q + 4 /\ Mapped(Lsu!NextWord(addr))
      BY <1>1, <1>3, <2>1, NextWordMapped
    <3>2. 4 * q + 4 = 4 * (q + 1) + 0
      OBVIOUS
    <3>3. io_rdata = v_mem_read(mem, Lsu!NextWord(addr))
      BY <1>1, <1>7 DEF Answered, PartReq, SecondReq
    <3>4. QED
      BY <3>1, <3>2, <3>3
  <2>3. CASE k + r <= 3
    <3>1. k + r \in 1..3
      BY <1>4, <2>1, <2>3
    <3>2. Lsu!align_rdata(LsuIn)[k] = v_mem_read(mem, addr)[k + r]
      BY <1>5, <1>6, <1>7, <2>1, <2>3, <3>1 DEF PathInv, FirstPartKept
    <3>3. v_mem_read(mem, addr)[k + r] = mem[4 * q + (k + r)]
      <4>1. k + r \in 0..3 /\ Mapped(4 * q + r)
        BY <1>2, <1>3, <3>1
      <4>2. v_mem_read(mem, 4 * q + r)[k + r] = mem[4 * q + (k + r)]
        BY <4>1, WordRead
      <4>3. QED
        BY <1>3, <4>2
    <3>4. 4 * q + (k + r) = addr + k
      BY <1>3, <1>4
    <3>5. QED
      BY <1>1, <3>2, <3>3, <3>4
  <2>4. CASE k + r > 3
    <3>1. (k + r) % 4 = (k + r) - 4 /\ (k + r) - 4 \in 0..3
      BY <1>4, <2>4
    <3>2. Lsu!align_rdata(LsuIn)[k] = io_rdata[(k + r) - 4]
      BY <1>4, <1>5, <2>4, <3>1
    <3>3. q + 1 \in Nat /\ 0 \in 0..3
      OBVIOUS
    <3>4. io_rdata[(k + r) - 4] = mem[4 * (q + 1) + ((k + r) - 4)]
      BY <2>2, <3>1, <3>3, WordRead
    <3>5. 4 * (q + 1) + ((k + r) - 4) = addr + k
      BY <1>3, <1>4
    <3>6. QED
      BY <1>1, <3>2, <3>4, <3>5
  <2>5. QED
    BY <1>4, <2>3, <2>4
<1>8. CASE lsu_state # "LSU_WAIT_MIS_TWO"
  <2>1. ~Lsu!is_misalign(LsuIn)
    BY <1>8, LsuWires DEF PathInv, AccessUnderWay
  <2>2. k + r \in 0..3
    <3>1. \/ op.data_size = "LSU_BYTE" /\ Port!Bytes(op) = 1
          \/ op.data_size = "LSU_HALF" /\ Port!Bytes(op) = 2 /\ r # 3
          \/ op.data_size = "LSU_WORD" /\ Port!Bytes(op) = 4 /\ r = 0
      BY <1>2, <1>3, <2>1, LsuWires DEF Port!Bytes
    <3>2. QED
      BY <1>4, <3>1
  <2>3. Lsu!align_rdata(LsuIn)[k] = io_rdata[k + r]
    <3>1. (k + r) % 4 = k + r
      BY <2>2
    <3>2. r # 0 => k + r \in 1..3
      BY <1>4, <2>2
    <3>3. QED
      BY <1>5, <1>6, <1>8, <3>1, <3>2
  <2>4. io_rdata = v_mem_read(mem, addr)
    BY <1>1, <1>8 DEF Answered, PartReq, FirstReq
  <2>5. io_rdata[k + r] = mem[4 * q + (k + r)]
    BY <1>2, <1>3, <2>2, <2>4, WordRead
  <2>6. 4 * q + (k + r) = addr + k
    BY <1>3, <1>4
  <2>7. QED
    BY <1>1, <2>3, <2>5, <2>6
<1>9. QED
  BY <1>7, <1>8

\* A load gives the bytes of memory, extended to a word.
LEMMA LoadGives ==
    ASSUME TypeOK, PathInv, phase = "edge", busy, ~op.is_write, Lsu!respValid(LsuIn)
    PROVE  Lsu!rdata(LsuIn) = Port!Loaded(mem, op)
<1>1. /\ Lsu!Width(LsuIn.data_size) = Port!Bytes(op) /\ LsuIn.is_mem_sign = op.is_mem_sign
      /\ Port!Bytes(op) \in 1..4
  <2>1. LsuIn.data_size = op.data_size /\ LsuIn.is_mem_sign = op.is_mem_sign
    BY DEF LsuIn
  <2>2. Lsu!Width(op.data_size) = Port!Bytes(op)
    BY OpType DEF Lsu!Width, Port!Bytes
  <2>3. Port!Bytes(op) \in 1..4
    BY TouchedBytes
  <2>4. QED
    BY <2>1, <2>2, <2>3
<1>2. \A k \in 0..Port!Bytes(op) - 1 : Lsu!align_rdata(LsuIn)[k] = mem[op.addr + k]
  BY AlignedBytes
<1>3. Port!Bytes(op) - 1 \in 0..Port!Bytes(op) - 1
  BY <1>1
<1>4. Lsu!align_rdata(LsuIn)[Port!Bytes(op) - 1] = mem[op.addr + (Port!Bytes(op) - 1)]
  BY <1>2, <1>3
<1>5. Lsu!rdata(LsuIn) =
        [k \in 0..3 |-> IF k < Port!Bytes(op) THEN mem[op.addr + k]
                        ELSE Lsu!Extension(mem[op.addr + (Port!Bytes(op) - 1)], op.is_mem_sign)]
  BY <1>1, <1>2, <1>4 DEF Lsu!rdata, Lsu!Lanes
<1>6. Port!Loaded(mem, op) =
        [k \in 0..3 |->
           IF k < Port!Bytes(op) THEN mem[op.addr + k]
           ELSE IF op.is_mem_sign /\ mem[op.addr + (Port!Bytes(op) - 1)] \in NegByte
                THEN OnesByte ELSE ZeroByte]
  BY Zenon DEF Port!Loaded
<1>7. QED
  BY <1>5, <1>6, Zenon DEF Lsu!Extension

\* When a store is answered its bytes are in memory.
LEMMA StoreDone ==
    ASSUME TypeOK, PathInv, phase = "edge", busy, op.is_write, Lsu!respValid(LsuIn)
    PROVE  mem = Port!Stored(mem, op, Port!Touched(op))
<1>1. addr = op.addr /\ Answered
  BY LsuWires DEF PathInv, AccessUnderWay, ServesPart
<1>2. ASSUME NEW a \in 0..MemEnd-1, a \in Port!Touched(op)
      PROVE  mem[a] = op.wdata[a - op.addr]
  <2>1. Holds(FirstReq)
    BY <1>1 DEF Answered, PartReq, PathInv, FirstPartKept
  <2>2. CASE a \div 4 = addr \div 4
    BY <1>1, <1>2, <2>1, <2>2, FirstWrites DEF Holds
  <2>3. CASE a \div 4 # addr \div 4
    <3>1. Lsu!is_misalign(LsuIn)
      <4>1. addr <= a /\ a < addr + Port!Bytes(op) /\ a \in Nat /\ addr \in Nat
        BY <1>1, <1>2, OpType, MemAssumption, TouchedBytes
      <4>2. CASE op.data_size = "LSU_BYTE"
        <5>1. a = addr
          BY <4>1, <4>2 DEF Port!Bytes
        <5>2. QED
          BY <2>3, <5>1
      <4>3. CASE op.data_size = "LSU_HALF"
        <5>1. a < addr + 2
          BY <4>1, <4>3 DEF Port!Bytes
        <5>2. addr % 4 = 3
          BY <2>3, <4>1, <5>1
        <5>3. QED
          BY <4>3, <5>2, LsuWires
      <4>4. CASE op.data_size = "LSU_WORD"
        <5>1. a < addr + 4
          BY <4>1, <4>4 DEF Port!Bytes
        <5>2. addr % 4 # 0
          BY <2>3, <4>1, <5>1
        <5>3. QED
          BY <4>4, <5>2, LsuWires
      <4>5. QED
        BY <4>2, <4>3, <4>4, OpType
    <3>2. lsu_state = "LSU_WAIT_MIS_TWO" /\ Holds(SecondReq)
      BY <1>1, <3>1, LsuWires DEF PathInv, AccessUnderWay, Answered, PartReq
    <3>3. QED
      BY <1>1, <1>2, <2>3, <3>1, <3>2, SecondWrites DEF Holds
  <2>4. QED
    BY <2>2, <2>3
<1>3. mem \in [0..MemEnd-1 -> Byte]
  BY DEF TypeOK
<1>4. QED
  BY <1>2, <1>3 DEF Port!Stored

\* A half period is a step of the memory that stores some of the bytes of the
\* access under way, or is no step of it: whatever is served when none is under
\* way changes nothing.
LEMMA SubtickImplements ==
    ASSUME TypeOK, PathInv, NEW sampled \in BOOLEAN, Subtick(sampled),
           sampled => Lsu!Request(LsuIn) = PartReq /\ (~busy => Holds(PartReq)),
           busy /\ reqPending /\ ~sampled => latch = PartReq
    PROVE  [Port!Next]_Port!vars
<1>1. PICK answers \in BOOLEAN, ticks \in 0..1 :
        /\ latch' = IF sampled THEN Lsu!Request(LsuIn) ELSE latch
        /\ answers => reqPending \/ sampled
        /\ answers => mem' = v_mem_write(latch')
        /\ ~answers => mem' = mem
        /\ UNCHANGED <<lsuVars, cpuVars>>
  BY SubtickFacts
<1>2. op' = op /\ busy' = busy /\ result' = result
  BY <1>1 DEF cpuVars
<1>3. CASE ~answers
  BY <1>1, <1>2, <1>3 DEF Port!vars
<1>4. CASE answers /\ ~busy
  <2>1. Holds(latch')
    BY <1>1, <1>4 DEF PathInv, LeftoverHarmless
  <2>2. mem' = mem
    BY <1>1, <1>4, <2>1, ServedAgain
  <2>3. QED
    BY <1>2, <2>2 DEF Port!vars
<1>5. CASE answers /\ busy
  <2>1. latch' = PartReq
    BY <1>1, <1>5
  <2>2. addr = op.addr /\ (lsu_state = "LSU_WAIT_MIS_TWO" => Lsu!is_misalign(LsuIn))
    BY <1>5 DEF PathInv, AccessUnderWay
  <2>3. mem' = IF op.is_write
               THEN Port!Stored(mem, op, {a \in 0..MemEnd-1 : Writes(PartReq, a)})
               ELSE mem
    BY <1>1, <1>5, <2>1, <2>2, PartWrites
  <2>4. CASE op.is_write
    <3>1. \A a \in 0..MemEnd-1 : Writes(PartReq, a) => a \in Port!Touched(op)
      BY <2>2, <2>4, FirstWrites, SecondWrites DEF PartReq
    <3>2. {a \in 0..MemEnd-1 : Writes(PartReq, a)} \in SUBSET Port!Touched(op)
      BY <3>1
    <3>3. Port!StoreSome
      BY <1>2, <1>5, <2>3, <2>4, <3>2 DEF Port!StoreSome
    <3>4. QED
      BY <3>3 DEF Port!Next
  <2>5. CASE ~op.is_write
    BY <1>2, <2>3, <2>5 DEF Port!vars
  <2>6. QED
    BY <2>4, <2>5
<1>6. QED
  BY <1>3, <1>4, <1>5

\* A rising edge begins an access, ends one, or is no step of the memory.
LEMMA EdgeImplements ==
    ASSUME TypeOK, PathInv, Edge
    PROVE  [Port!Next]_Port!vars
<1>1. mem' = mem /\ phase = "edge"
  BY DEF Edge, chanVars
<1>2. CASE Issue
  <2>1. Port!Issue
    BY <1>1, <1>2 DEF Issue, Port!Issue
  <2>2. QED
    BY <2>1 DEF Port!Next
<1>3. CASE Idle \/ Waiting
  BY <1>1, <1>3 DEF Idle, Waiting, cpuVars, Port!vars
<1>4. CASE Done
  <2>1. CASE op.is_write
    <3>1. mem = Port!Stored(mem, op, Port!Touched(op))
      BY <1>1, <1>4, <2>1, StoreDone DEF Done
    <3>2. Port!FinishStore
      BY <1>1, <1>4, <2>1, <3>1 DEF Done, Port!FinishStore
    <3>3. QED
      BY <3>2 DEF Port!Next
  <2>2. CASE ~op.is_write
    <3>1. Lsu!rdata(LsuIn) = Port!Loaded(mem, op)
      BY <1>1, <1>4, <2>2, LoadGives DEF Done
    <3>2. Port!FinishLoad
      BY <1>1, <1>4, <2>2, <3>1 DEF Done, Port!FinishLoad
    <3>3. QED
      BY <3>2 DEF Port!Next
  <2>3. QED
    BY <2>1, <2>2
<1>5. QED
  BY <1>2, <1>3, <1>4 DEF Edge

\* Loads return the bytes of memory and stores write their bytes and no others,
\* for every alignment, size and delay, although unwanted requests are served
\* too: the memory side implements a memory whose operations happen one at a
\* time.
THEOREM MemoryPortImplemented == Spec => MemoryPortSafe
<1>1. Init => Port!Init
  BY DEF Init, Port!Init, ZeroWord
<1>2. TypeOK /\ PathInv /\ [Next]_vars => [Port!Next]_Port!vars
  <2>1. CASE SubtickHigh
    <3>1. ASSUME TypeOK, PathInv
          PROVE  [Port!Next]_Port!vars
      <4>1. PICK sampled \in BOOLEAN :
              /\ Subtick(sampled)
              /\ sampled => Lsu!Request(LsuIn) = PartReq /\ (~busy => Holds(PartReq))
              /\ busy /\ reqPending /\ ~sampled => latch = PartReq
        BY <2>1, <3>1, HighSampled
      <4>2. QED
        BY <3>1, <4>1, SubtickImplements
    <3>2. QED
      BY <3>1
  <2>2. CASE SubtickLow
    <3>1. ASSUME TypeOK, PathInv
          PROVE  [Port!Next]_Port!vars
      <4>1. busy /\ reqPending => latch = PartReq
        BY <2>2, <3>1 DEF SubtickLow, PathInv, ServesPart
      <4>2. QED
        BY <2>2, <3>1, <4>1, SubtickImplements DEF SubtickLow
    <3>2. QED
      BY <3>1
  <2>3. CASE Edge
    BY <2>3, EdgeImplements
  <2>4. CASE UNCHANGED vars
    BY <2>4 DEF vars, chanVars, cpuVars, Port!vars
  <2>5. QED
    BY <2>1, <2>2, <2>3, <2>4 DEF Next
<1>3. QED
  BY <1>1, <1>2, AlwaysPathInv, PTL DEF Spec, MemoryPortSafe, Port!Spec
=============================================================================
