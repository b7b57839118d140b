----------------------------- MODULE VcpuChannel -----------------------------
(***************************************************************************)
(* One of the two bus channels of the test bench: the half of              *)
(* vcpu_subtick (soc/soc_main.cpp) that serves the IFU, or the one that    *)
(* serves the LSU, which has the same shape.  A request seen just after a  *)
(* rising edge is latched and given a random delay, counted in half clock  *)
(* periods; when it runs out the answer is put on the bus for two half     *)
(* periods.  The composing module says what the answer reads and writes.   *)
(***************************************************************************)
EXTENDS Integers

CONSTANTS MinDelay, MaxDelay,   \* mem_delay_min, mem_delay_max
          Request               \* what a request carries

VARIABLES respValid,    \* io_x_respValid, an input of the CPU
          respTicks,    \* io_x_respValid_ticks: half periods the answer stays up
          reqPending,   \* io_x_reqValid of the bench: a request waits
          latch,        \* the latched request
          waitTicks     \* io_x_waitRespValid: half periods left before the answer

\* random_range(min, max) of soc/riscv.cpp: min..max-1, and 0 for an empty range.
Delays == IF MinDelay >= MaxDelay THEN {0} ELSE MinDelay..(MaxDelay - 1)

TypeOK == /\ respValid \in BOOLEAN
          /\ respTicks \in 0..2
          /\ reqPending \in BOOLEAN
          /\ latch \in Request
          /\ waitTicks \in Nat

\* Plausible bug: the counter is decremented without the test for zero.
DecrementedAlways(n) == n - 1

Decremented(n) == IF n > 0 THEN n - 1 ELSE 0

\* Plausible bug: the request is noted, its address is not.
LatchedNothing(sampled, request) == latch

Latched(sampled, request) == IF sampled THEN request ELSE latch

WaitLeft(sampled, delay) ==
    Decremented(IF sampled THEN 2 * delay ELSE waitTicks)

\* The subtick puts an answer on the bus, for the request Latched(...).
Answers(sampled, delay) == (reqPending \/ sampled) /\ WaitLeft(sampled, delay) = 0

\* Plausible bug: a request that has been answered is served again.
PendsForever(sampled, answers) == reqPending \/ sampled

Pends(sampled, answers) == (reqPending \/ sampled) /\ ~answers

\* sampled: the CPU's request signal is up and the clock has just risen.
Subtick(sampled, request, delay) ==
    LET answers == Answers(sampled, delay)
        ticks   == Decremented(respTicks)
    IN  /\ respTicks' = IF answers THEN 2 ELSE ticks
        /\ respValid' = (answers \/ (respValid /\ ticks # 0))
        /\ reqPending' = Pends(sampled, answers)
        /\ latch' = Latched(sampled, request)
        /\ waitTicks' = WaitLeft(sampled, delay)

\* The state vcpu_reset leaves; the bus input respValid is not touched by it.
Init(request) ==
    /\ respValid \in BOOLEAN
    /\ respTicks = 0
    /\ reqPending = FALSE
    /\ latch = request
    /\ waitTicks = 0
=============================================================================
