--------------------------- MODULE FetchPath_proofs ---------------------------
(***************************************************************************)
(* Proofs about the fetch side, for every flash, number of cache lines,    *)
(* set of program counters and range of bus delays, those included for     *)
(* which a fetch is never answered.                                        *)
(***************************************************************************)
EXTENDS FetchPath, TLAPS

\* What the channel holds is about the instruction being fetched: the IFU and
\* the rest of the CPU agree on who has the instruction; nothing is pending and
\* no answer reaches a rising edge while it is being executed; and while it is
\* being fetched a pending request, or the answer to it, is the one for pc.  An
\* instruction found in the cache has asked the channel for nothing.
ServesFetch ==
    /\ ifu_state \in {"IFU_IDLE", "IFU_WAIT_IO"}
    /\ owner = "ifu" <=> ifu_reqValid \/ ifu_state = "IFU_WAIT_IO"
    /\ ~(ifu_reqValid /\ ifu_state = "IFU_WAIT_IO")
    /\ owner = "exu" => /\ ~reqPending
                        /\ phase = "low" /\ respValid => respTicks <= 1
                        /\ phase = "edge" => ~respValid
    /\ owner = "ifu" => /\ reqPending => latch = pc
                        /\ respValid => /\ ~reqPending
                                        /\ latch = pc
                                        /\ io_rdata = Flash[pc \div 4]
    /\ ifu_reqValid /\ (phase = "high" \/ Ifu!Hit(IfuIn)) => ~reqPending /\ ~respValid

-----------------------------------------------------------------------------
(* Wires and steps of the units.                                           *)

\* The outputs of the IFU: it hits only when asked, passes an answer on only
\* when it waits for one, and asks the bus only in the cycle in which it is
\* asked and misses.
LEMMA FetchWires ==
    ASSUME TypeOK, ServesFetch
    PROVE  /\ Ifu!Filling(IfuIn) <=> ifu_state = "IFU_WAIT_IO" /\ respValid
           /\ Ifu!Hit(IfuIn) => ifu_reqValid
           /\ Ifu!io_reqValid(IfuIn) <=> ifu_reqValid /\ ~Ifu!Hit(IfuIn)
           /\ Ifu!respValid(IfuIn) <=> Ifu!Hit(IfuIn) \/ Ifu!Filling(IfuIn)
           /\ Ifu!IcacheIn(IfuIn).wen <=> Ifu!Filling(IfuIn)
           /\ Ifu!IcacheIn(IfuIn).addr = pc \div 4
           /\ Ifu!IcacheIn(IfuIn).wdata = io_rdata
           /\ Ifu!io_addr(IfuIn) = pc
  BY DEF ServesFetch, TypeOK, IfuIn, Ifu!Filling, Ifu!Hit, Ifu!Miss, Ifu!LookingUp,
     Ifu!io_reqValid, Ifu!respValid, Ifu!IcacheIn, Ifu!io_addr,
     Ifu!Icache!RespValid, Ifu!Icache!ReadValid, Ifu!Icache!IsHit

\* A hit is a lookup that finds the line of pc, valid and with its tag.
LEMMA HitMeans ==
    ASSUME TypeOK, ServesFetch
    PROVE  Ifu!Hit(IfuIn) <=>
             /\ ifu_state = "IFU_IDLE" /\ ifu_reqValid
             /\ lines[Ifu!Icache!Index(pc \div 4)].valid
             /\ lines[Ifu!Icache!Index(pc \div 4)].tag = Ifu!Icache!Tag(pc \div 4)
  BY DEF ServesFetch, TypeOK, Ifu!Hit, Ifu!LookingUp, IfuIn, Ifu!IcacheIn, Ifu!Filling,
     Ifu!Icache!RespValid, Ifu!Icache!ReadValid, Ifu!Icache!IsHit, Ifu!Icache!LineOf

\* Whether it hits depends on the cache and the request alone.
LEMMA HitHolds ==
    ASSUME TypeOK, ServesFetch, UNCHANGED <<ifu_state, lines, pc, ifu_reqValid>>
    PROVE  Ifu!Hit(IfuIn)' <=> Ifu!Hit(IfuIn)
<1>1. Ifu!Hit(IfuIn)' <=>
        /\ ifu_state' = "IFU_IDLE" /\ ifu_reqValid'
        /\ lines'[Ifu!Icache!Index(pc' \div 4)].valid
        /\ lines'[Ifu!Icache!Index(pc' \div 4)].tag = Ifu!Icache!Tag(pc' \div 4)
  BY DEF ServesFetch, Ifu!Hit, Ifu!LookingUp, IfuIn, Ifu!IcacheIn, Ifu!Filling,
     Ifu!Icache!RespValid, Ifu!Icache!ReadValid, Ifu!Icache!IsHit, Ifu!Icache!LineOf,
     Ifu!Icache!Index, Ifu!Icache!Tag
<1>2. QED
  BY <1>1, HitMeans DEF Ifu!Icache!Index, Ifu!Icache!Tag

\* A rising edge takes the IFU back to idle when it answers, and to the bus
\* when it is asked and misses.
LEMMA IfuEdge ==
    ASSUME TypeOK, ServesFetch, Ifu!Clock(IfuIn)
    PROVE  ifu_state' = IF Ifu!respValid(IfuIn) THEN "IFU_IDLE"
                        ELSE IF ifu_reqValid THEN "IFU_WAIT_IO" ELSE ifu_state
<1> USE DEF Ifu!Clock, Ifu!Advances, Ifu!next_state, Ifu!respValid, Ifu!Hit, Ifu!Miss, IfuIn,
     Ifu!Filling, Ifu!LookingUp, Ifu!IcacheIn, Ifu!Icache!RespValid, Ifu!Icache!ReadValid
<1>1. CASE ifu_reqValid
  BY <1>1 DEF ServesFetch, TypeOK
<1>2. CASE ifu_state = "IFU_WAIT_IO"
  BY <1>2 DEF ServesFetch, TypeOK, Channel!TypeOK
<1>3. CASE ~ifu_reqValid /\ ifu_state = "IFU_IDLE"
  BY <1>3 DEF ServesFetch, TypeOK
<1>4. QED
  BY <1>1, <1>2, <1>3 DEF ServesFetch, TypeOK

\* A word address and its index and tag determine each other.
LEMMA IndexAndTag ==
    ASSUME NEW a \in Nat, NEW b \in Nat,
           Ifu!Icache!Index(a) = Ifu!Icache!Index(b), Ifu!Icache!Tag(a) = Ifu!Icache!Tag(b)
    PROVE  a = b
  BY LineNAssumption DEF Ifu!Icache!Index, Ifu!Icache!Tag

\* A program counter stands for a word of the flash.
LEMMA PcWord ==
    ASSUME NEW p \in Pc
    PROVE  /\ p \in Nat /\ p \div 4 \in WordAddr
           /\ Flash[p \div 4] \in Word
           /\ Ifu!Icache!Index(p \div 4) \in 0..LINE_N-1
<1>1. p \in 0..(4*NWords - 1)
  BY PcAssumption
<1>2. p \in Nat /\ p \div 4 \in WordAddr
  BY <1>1, NWordsAssumption DEF WordAddr
<1>3. QED
  BY <1>2, FlashAssumption, LineNAssumption, NWordsAssumption DEF WordAddr, Ifu!Icache!Index

-----------------------------------------------------------------------------
(* The type invariant.                                                     *)

\* The delays of random_range are natural numbers, whatever its bounds.
LEMMA DelaysNat == Channel!Delays \subseteq Nat
  BY DelayAssumption DEF Channel!Delays

\* A half period of the channel keeps its registers typed.
LEMMA SubtickType ==
    ASSUME TypeOK, NEW sampled \in BOOLEAN, Subtick(sampled)
    PROVE  Channel!TypeOK' /\ io_rdata' \in Word
<1>1. PICK delay \in Channel!Delays :
        /\ Channel!Subtick(sampled, Ifu!io_addr(IfuIn), delay)
        /\ io_rdata' = IF Channel!Answers(sampled, delay)
                       THEN v_mem_read(Channel!Latched(sampled, Ifu!io_addr(IfuIn)))
                       ELSE io_rdata
  BY DEF Subtick
<1>2. delay \in Nat
  BY DelaysNat
<1>3. Channel!Latched(sampled, Ifu!io_addr(IfuIn)) \in Pc
  BY DEF Channel!Latched, Ifu!io_addr, IfuIn, TypeOK, Channel!TypeOK
<1>4. Channel!WaitLeft(sampled, delay) \in Nat
  BY <1>2 DEF Channel!WaitLeft, Channel!Decremented, TypeOK, Channel!TypeOK
<1>5. Channel!Decremented(respTicks) \in 0..2
  BY DEF Channel!Decremented, TypeOK, Channel!TypeOK
<1>6. io_rdata' \in Word
  BY <1>1, <1>3, PcWord DEF v_mem_read, TypeOK
<1>7. QED
  BY <1>1, <1>3, <1>4, <1>5, <1>6
  DEF Channel!Subtick, Channel!TypeOK, Channel!Pends, Channel!Answers, TypeOK

\* A rising edge keeps the registers of the IFU and of its cache typed.
LEMMA IfuType ==
    ASSUME TypeOK, Ifu!Clock(IfuIn)
    PROVE  Ifu!TypeOK'
<1> DEFINE in == Ifu!IcacheIn(IfuIn)
<1>1. in.wdata \in Word /\ in.addr = pc \div 4 /\ in.wen \in BOOLEAN
  BY DEF Ifu!IcacheIn, IfuIn, Ifu!Filling, TypeOK, Channel!TypeOK
<1>2. pc \div 4 \in WordAddr
  BY PcWord DEF TypeOK
<1> HIDE DEF in
<1>3. Ifu!Icache!Filled(in.addr, in.wdata) \in Ifu!Icache!Line
  BY <1>1, <1>2 DEF Ifu!Icache!Filled, Ifu!Icache!Line
<1>4. /\ lines' = IF in.wen
                  THEN [lines EXCEPT ![Ifu!Icache!Index(in.addr)] = Ifu!Icache!Filled(in.addr, in.wdata)]
                  ELSE lines
      /\ writeValid' = in.wen
  BY DEF Ifu!Clock, Ifu!Icache!Clock, in
<1>5. lines' \in [0..LINE_N-1 -> Ifu!Icache!Line] /\ writeValid' \in BOOLEAN
  BY <1>1, <1>3, <1>4 DEF TypeOK, Ifu!TypeOK, Ifu!Icache!TypeOK
<1>6. ifu_state' \in Ifu!ifu_states
  BY DEF TypeOK, Ifu!TypeOK, Ifu!Clock, Ifu!next_state, Ifu!ifu_states
<1>7. QED
  BY <1>5, <1>6 DEF Ifu!TypeOK, Ifu!Icache!TypeOK, Ifu!Icache!Line

\* What the IFU passes on is a word.
LEMMA InstType ==
    ASSUME TypeOK
    PROVE  Ifu!inst(IfuIn) \in Word
<1>1. pc \in Pc
  BY DEF TypeOK
<1>2. lines[Ifu!Icache!Index(pc \div 4)].data \in Word
  BY <1>1, PcWord DEF TypeOK, Ifu!TypeOK, Ifu!Icache!TypeOK, Ifu!Icache!Line
<1>3. QED
  BY <1>2, FlashAssumption
  DEF TypeOK, Ifu!inst, IfuIn, Ifu!IcacheIn, Ifu!Icache!Rdata, Ifu!Icache!LineOf

\* Whatever the delays, the registers of the fetch side stay within their
\* types; in particular the words of the cache and of the IDU.
THEOREM FetchTypeCorrect == Spec => []TypeOK
<1>1. Init => TypeOK
  <2>1. Init => Ifu!TypeOK
    BY DEF Init, Ifu!Init, Ifu!TypeOK, Ifu!ifu_states, Ifu!Icache!Init, Ifu!Icache!TypeOK
  <2>2. Init => respTicks \in 0..2 /\ waitTicks \in Nat
    BY DEF Init, Channel!Init
  <2>3. Init => Channel!TypeOK
    BY <2>2, PcAssumption, Zenon DEF Init, Channel!Init, Channel!TypeOK
  <2>4. QED
    BY <2>1, <2>3, PcAssumption, FlashAssumption, Zenon DEF Init, TypeOK
<1>2. TypeOK /\ [Next]_vars => TypeOK'
  <2> SUFFICES ASSUME TypeOK, [Next]_vars PROVE TypeOK'
    OBVIOUS
  <2>1. CASE SubtickHigh \/ SubtickLow
    <3>1. PICK sampled \in BOOLEAN : Subtick(sampled)
      BY <2>1 DEF SubtickHigh, SubtickLow, Ifu!io_reqValid, Ifu!Miss, Ifu!LookingUp
    <3>2. phase' \in {"high", "low", "edge"} /\ UNCHANGED <<ifuVars, cpuVars>>
      BY <2>1 DEF SubtickHigh, SubtickLow, Subtick
    <3>3. Channel!TypeOK' /\ io_rdata' \in Word
      BY <3>1, SubtickType
    <3>4. QED
      BY <3>2, <3>3 DEF TypeOK, Ifu!TypeOK, Ifu!Icache!TypeOK, Ifu!Icache!Line, ifuVars, cpuVars
  <2>2. CASE Edge
    <3>1. Ifu!TypeOK'
      BY <2>2, IfuType DEF Edge
    <3>2. Channel!TypeOK' /\ io_rdata' \in Word /\ phase' \in {"high", "low", "edge"}
      BY <2>2 DEF Edge, chanVars, TypeOK, Channel!TypeOK
    <3>3. /\ is_start' \in BOOLEAN /\ ifu_reqValid' \in BOOLEAN
          /\ pc' \in Pc /\ inst' \in Word /\ owner' \in {"ifu", "exu"}
      BY <2>2, InstType DEF Edge, Fetching, Ask, Executing, cpuVars, TypeOK
    <3>4. QED
      BY <3>1, <3>2, <3>3 DEF TypeOK
  <2>3. CASE UNCHANGED vars
    BY <2>3 DEF vars, ifuVars, chanVars, cpuVars, TypeOK, Channel!TypeOK,
       Ifu!TypeOK, Ifu!Icache!TypeOK, Ifu!Icache!Line
  <2>4. QED
    BY <2>1, <2>2, <2>3 DEF Next
<1>3. QED
  BY <1>1, <1>2, PTL DEF Spec

-----------------------------------------------------------------------------
(* The invariant that ties the channel to the fetch.                       *)

\* In every half period a free channel answers nothing and an answer comes
\* nearer to its end; what is pending is answered for the latched request.
LEMMA SubtickServesFetch ==
    ASSUME TypeOK, ServesFetch, NEW sampled \in BOOLEAN, Subtick(sampled),
           sampled => ifu_reqValid /\ ~Ifu!Hit(IfuIn) /\ phase = "high",
           \/ phase = "high" /\ phase' = "low"
           \/ phase = "low" /\ phase' = "edge"
    PROVE  ServesFetch'
<1>1. PICK delay \in Channel!Delays :
        /\ Channel!Subtick(sampled, pc, delay)
        /\ io_rdata' = IF Channel!Answers(sampled, delay)
                       THEN v_mem_read(Channel!Latched(sampled, pc)) ELSE io_rdata
  BY FetchWires DEF Subtick
<1>2. UNCHANGED <<ifuVars, cpuVars>>
  BY DEF Subtick
<1>3. Ifu!Hit(IfuIn)' <=> Ifu!Hit(IfuIn)
  BY <1>2, HitHolds DEF ifuVars, cpuVars
<1> DEFINE answers == Channel!Answers(sampled, delay)
           ticks   == Channel!Decremented(respTicks)
<1>4. /\ respTicks' = IF answers THEN 2 ELSE ticks
      /\ respValid' = (answers \/ (respValid /\ ticks # 0))
      /\ reqPending' = ((reqPending \/ sampled) /\ ~answers)
      /\ latch' = IF sampled THEN pc ELSE latch
      /\ answers => io_rdata' = Flash[latch' \div 4]
      /\ ~answers => io_rdata' = io_rdata
  BY <1>1 DEF Channel!Subtick, Channel!Pends, Channel!Latched, v_mem_read
<1>5. answers => reqPending \/ sampled
  BY DEF Channel!Answers
<1>6. ticks \in 0..1 /\ (respTicks <= 1 => ticks = 0)
  BY DEF Channel!Decremented, TypeOK, Channel!TypeOK
<1>7. /\ ifu_state' = ifu_state /\ ifu_reqValid' = ifu_reqValid
      /\ owner' = owner /\ pc' = pc
  BY <1>2 DEF ifuVars, cpuVars
<1>8. owner \in {"ifu", "exu"} /\ (ifu_reqValid => owner = "ifu")
  BY DEF TypeOK, ServesFetch
<1> HIDE DEF answers, ticks
<1>9. CASE owner = "exu"
  <2>1. ~reqPending /\ ~sampled /\ ~answers /\ ~ifu_reqValid
    BY <1>5, <1>8, <1>9 DEF ServesFetch
  <2>2. phase' = "edge" => ~respValid'
    BY <1>4, <1>6, <1>9, <2>1 DEF ServesFetch
  <2>3. ~reqPending' /\ respTicks' <= 1
    BY <1>4, <1>6, <2>1
  <2>4. QED
    BY <1>7, <1>9, <2>1, <2>2, <2>3 DEF ServesFetch
<1>10. CASE owner = "ifu"
  <2>1. sampled => ~reqPending /\ ~respValid
    BY DEF ServesFetch
  <2>2. reqPending' => latch' = pc
    BY <1>4, <1>10 DEF ServesFetch
  <2>3. respValid' => ~reqPending' /\ latch' = pc /\ io_rdata' = Flash[pc \div 4]
    BY <1>4, <1>5, <1>10, <2>1 DEF ServesFetch
  <2>4. ifu_reqValid /\ Ifu!Hit(IfuIn) => ~reqPending' /\ ~respValid'
    BY <1>4, <1>5 DEF ServesFetch
  <2>5. QED
    BY <1>3, <1>7, <1>10, <2>2, <2>3, <2>4 DEF ServesFetch
<1>11. QED
  BY <1>8, <1>9, <1>10

\* A rising edge: an instruction that is answered leaves a free channel to the
\* execution, and one that is asked for finds it free.
LEMMA EdgeServesFetch ==
    ASSUME TypeOK, ServesFetch, Edge
    PROVE  ServesFetch'
<1>1. /\ respTicks' = respTicks /\ respValid' = respValid /\ reqPending' = reqPending
      /\ latch' = latch /\ io_rdata' = io_rdata
      /\ phase = "edge" /\ phase' = "high"
  BY DEF Edge, chanVars
<1>2. ifu_state' = IF Ifu!respValid(IfuIn) THEN "IFU_IDLE"
                   ELSE IF ifu_reqValid THEN "IFU_WAIT_IO" ELSE ifu_state
  BY IfuEdge DEF Edge
<1>3. CASE Fetching
  <2>1. /\ owner = "ifu" /\ ~ifu_reqValid' /\ pc' = pc
        /\ owner' = IF Ifu!respValid(IfuIn) THEN "exu" ELSE "ifu"
    BY <1>3 DEF Fetching
  <2>2. Ifu!respValid(IfuIn) => ~reqPending
    BY <2>1, FetchWires DEF ServesFetch
  <2>3. QED
    BY <1>1, <1>2, <2>1, <2>2 DEF ServesFetch
<1>4. CASE Ask
  <2>1. owner = "exu" /\ ifu_reqValid' /\ owner' = "ifu"
    BY <1>4 DEF Ask
  <2>2. ifu_state' = "IFU_IDLE"
    BY <1>2, <2>1 DEF ServesFetch
  <2>3. ~reqPending' /\ ~respValid'
    BY <1>1, <2>1 DEF ServesFetch
  <2>4. QED
    BY <1>1, <2>1, <2>2, <2>3 DEF ServesFetch
<1>5. CASE Executing
  <2>1. owner = "exu" /\ UNCHANGED cpuVars
    BY <1>5 DEF Executing
  <2>2. ifu_state' = "IFU_IDLE" /\ owner' = "exu" /\ ~ifu_reqValid'
    BY <1>2, <2>1 DEF ServesFetch, cpuVars
  <2>3. QED
    BY <1>1, <2>1, <2>2 DEF ServesFetch
<1>6. QED
  BY <1>3, <1>4, <1>5 DEF Edge

\* Whatever the delays, nothing left over from one fetch is taken for the
\* answer to another.
LEMMA AlwaysServesFetch == Spec => []ServesFetch
<1>1. Init => ServesFetch
  BY DEF Init, Ifu!Init, Channel!Init, ServesFetch
<1>2. TypeOK /\ ServesFetch /\ [Next]_vars => ServesFetch'
  <2> SUFFICES ASSUME TypeOK, ServesFetch, [Next]_vars PROVE ServesFetch'
    OBVIOUS
  <2>1. CASE SubtickHigh
    <3>1. PICK sampled \in BOOLEAN : /\ Subtick(sampled)
                                     /\ sampled => ifu_reqValid /\ ~Ifu!Hit(IfuIn)
      BY <2>1, FetchWires DEF SubtickHigh, Ifu!io_reqValid, Ifu!Miss, Ifu!LookingUp
    <3>2. phase = "high" /\ phase' = "low"
      BY <2>1 DEF SubtickHigh
    <3>3. QED
      BY <3>1, <3>2, SubtickServesFetch
  <2>2. CASE SubtickLow
    <3>1. Subtick(FALSE) /\ phase = "low" /\ phase' = "edge"
      BY <2>2 DEF SubtickLow
    <3>2. QED
      BY <3>1, SubtickServesFetch
  <2>3. CASE Edge
    BY <2>3, EdgeServesFetch
  <2>4. CASE UNCHANGED vars
    <3>1. /\ ifu_state' = ifu_state /\ lines' = lines /\ pc' = pc
          /\ ifu_reqValid' = ifu_reqValid /\ owner' = owner /\ phase' = phase
          /\ reqPending' = reqPending /\ respValid' = respValid /\ respTicks' = respTicks
          /\ latch' = latch /\ io_rdata' = io_rdata
      BY <2>4 DEF vars, ifuVars, chanVars, cpuVars
    <3>2. QED
      BY <3>1, HitHolds DEF ServesFetch
  <2>5. QED
    BY <2>1, <2>2, <2>3, <2>4 DEF Next
<1>3. QED
  BY <1>1, <1>2, FetchTypeCorrect, PTL DEF Spec

-----------------------------------------------------------------------------
(* The properties that rest on it.                                         *)

\* The word an answer is filed under is the one it was fetched from: when the
\* IFU waits and the bus answers, the answer is the one to its request,
\* although answers carry no address.
THEOREM AnswerAlwaysForPc == Spec => []AnswerIsForPc
<1>1. TypeOK /\ ServesFetch => AnswerIsForPc
  BY DEF ServesFetch, AnswerIsForPc, TypeOK
<1>2. QED
  BY <1>1, FetchTypeCorrect, AlwaysServesFetch, PTL

\* Every valid cache line holds the word of the flash its index and tag stand
\* for, for every number of lines and every sequence of fetches.
THEOREM CacheAlwaysCoherent == Spec => []CacheCoherent
<1>1. Init => CacheCoherent
  BY DEF Init, Ifu!Init, Ifu!Icache!Init, CacheCoherent
<1>2. TypeOK /\ ServesFetch /\ CacheCoherent /\ [Next]_vars => CacheCoherent'
  <2> SUFFICES ASSUME TypeOK, ServesFetch, CacheCoherent, [Next]_vars,
                      NEW i \in 0..LINE_N-1, lines'[i].valid
               PROVE  \E a \in WordAddr : /\ Ifu!Icache!Index(a) = i
                                          /\ Ifu!Icache!Tag(a) = lines'[i].tag
                                          /\ lines'[i].data = Flash[a]
    BY DEF CacheCoherent, Ifu!Icache!Index, Ifu!Icache!Tag
  <2>1. CASE lines'[i] = lines[i]
    BY <2>1 DEF CacheCoherent
  <2>2. CASE Edge /\ Ifu!Filling(IfuIn)
    <3> DEFINE w == pc \div 4
    <3>1. w \in WordAddr /\ Ifu!Icache!Index(w) \in 0..LINE_N-1
      BY PcWord DEF TypeOK
    <3>2. lines' = [lines EXCEPT ![Ifu!Icache!Index(w)] = Ifu!Icache!Filled(w, io_rdata)]
      BY <2>2, FetchWires DEF Edge, Ifu!Clock, Ifu!Icache!Clock
    <3>3. io_rdata = Flash[w]
      BY <2>2, FetchWires DEF ServesFetch
    <3> HIDE DEF w
    <3>4. CASE i = Ifu!Icache!Index(w)
      <4>1. lines'[i] = Ifu!Icache!Filled(w, io_rdata)
        BY <3>2, <3>4 DEF TypeOK, Ifu!TypeOK, Ifu!Icache!TypeOK
      <4>2. lines'[i].tag = Ifu!Icache!Tag(w) /\ lines'[i].data = Flash[w]
        BY <3>3, <4>1 DEF Ifu!Icache!Filled
      <4>3. QED
        BY <3>1, <3>4, <4>2
    <3>5. CASE i # Ifu!Icache!Index(w)
      BY <2>1, <3>2, <3>5 DEF TypeOK, Ifu!TypeOK, Ifu!Icache!TypeOK
    <3>6. QED
      BY <3>4, <3>5
  <2>3. CASE Edge /\ ~Ifu!Filling(IfuIn)
    BY <2>1, <2>3, FetchWires DEF Edge, Ifu!Clock, Ifu!Icache!Clock
  <2>4. CASE SubtickHigh \/ SubtickLow \/ UNCHANGED vars
    BY <2>1, <2>4 DEF SubtickHigh, SubtickLow, Subtick, vars, ifuVars
  <2>5. QED
    BY <2>2, <2>3, <2>4 DEF Next
<1>3. QED
  BY <1>1, <1>2, FetchTypeCorrect, AlwaysServesFetch, PTL DEF Spec

\* What the IFU gives the IDU is the flash word at pc, from the cache or from
\* the bus.
LEMMA InstIsFlash ==
    ASSUME TypeOK, ServesFetch, CacheCoherent, Ifu!respValid(IfuIn)
    PROVE  Ifu!inst(IfuIn) = Flash[pc \div 4]
<1> DEFINE w == pc \div 4
<1>1. w \in WordAddr /\ Ifu!Icache!Index(w) \in 0..LINE_N-1
  BY PcWord DEF TypeOK
<1>2. CASE Ifu!Hit(IfuIn)
  <2>1. PICK a \in WordAddr : /\ Ifu!Icache!Index(a) = Ifu!Icache!Index(w)
                              /\ Ifu!Icache!Tag(a) = Ifu!Icache!Tag(w)
                              /\ lines[Ifu!Icache!Index(w)].data = Flash[a]
    BY <1>1, <1>2, HitMeans DEF CacheCoherent
  <2>2. a = w
    BY <1>1, <2>1, IndexAndTag, NWordsAssumption DEF WordAddr
  <2>3. QED
    BY <1>2, <2>1, <2>2, FetchWires DEF Ifu!inst, Ifu!Icache!Rdata, Ifu!Icache!LineOf
<1>3. CASE ~Ifu!Hit(IfuIn)
  <2>1. Ifu!Filling(IfuIn)
    BY <1>3, FetchWires
  <2>2. io_rdata = Flash[w]
    BY <2>1, FetchWires DEF ServesFetch
  <2>3. QED
    BY <1>3, <2>1, <2>2 DEF Ifu!inst, IfuIn
<1>4. QED
  BY <1>2, <1>3

\* The IFU, its cache and the bus together promise no more and no less than a
\* port that answers each request with the flash word at pc: every step is a
\* request, an answer or a stutter of FetchPort.
THEOREM FetchPortImplemented == Spec => FetchPortSafe
<1>1. Init => Port!Init
  BY DEF Init, Port!Init
<1>2. TypeOK /\ ServesFetch /\ CacheCoherent /\ [Next]_vars => [Port!Next]_(Port!vars)
  <2> SUFFICES ASSUME TypeOK, ServesFetch, CacheCoherent, [Next]_vars
               PROVE  [Port!Next]_(Port!vars)
    OBVIOUS
  <2>1. CASE Edge /\ Fetching /\ Ifu!respValid(IfuIn)
    BY <2>1, InstIsFlash DEF Fetching, Port!Next, Port!Answer
  <2>2. CASE Edge /\ Fetching /\ ~Ifu!respValid(IfuIn)
    BY <2>2 DEF Fetching, Port!vars
  <2>3. CASE Edge /\ Ask
    BY <2>3 DEF Ask, Port!Next, Port!Fetch, TypeOK
  <2>4. CASE Edge /\ Executing
    BY <2>4 DEF Executing, cpuVars, Port!vars
  <2>5. CASE SubtickHigh \/ SubtickLow \/ UNCHANGED vars
    BY <2>5 DEF SubtickHigh, SubtickLow, Subtick, vars, cpuVars, Port!vars
  <2>6. QED
    BY <2>1, <2>2, <2>3, <2>4, <2>5 DEF Next, Edge
<1>3. QED
  BY <1>1, <1>2, FetchTypeCorrect, AlwaysServesFetch, CacheAlwaysCoherent, PTL
  DEF Spec, FetchPortSafe, Port!Spec
=============================================================================
