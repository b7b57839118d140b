--------------------------------- MODULE Csr ---------------------------------
(***************************************************************************)
(* soc/csr.sv: a free-running cycle counter, twice as wide as a word, and  *)
(* two constants that identify the CPU, read by address.                   *)
(***************************************************************************)
EXTENDS Naturals

CONSTANTS WordSize,
          MCYCLE, MCYCLEH, MVENDORID, MARCHID,      \* addresses
          MVENDORID_VAL, MARCHID_VAL

VARIABLE mcycle

TypeOK == mcycle \in 0..(WordSize * WordSize - 1)

\* Plausible bug: the upper half of the counter is never read.
rdataLow(addr) == CASE addr = MARCHID              -> MARCHID_VAL
                    [] addr = MVENDORID            -> MVENDORID_VAL
                    [] addr \in {MCYCLE, MCYCLEH}  -> mcycle % WordSize
                    [] OTHER                       -> 0

rdata(addr) == CASE addr = MARCHID   -> MARCHID_VAL
                 [] addr = MVENDORID -> MVENDORID_VAL
                 [] addr = MCYCLE    -> mcycle % WordSize
                 [] addr = MCYCLEH   -> mcycle \div WordSize
                 [] OTHER            -> 0

Clock == mcycle' = (mcycle + 1) % (WordSize * WordSize)

Reset == mcycle' = 0

Init == mcycle = 0
=============================================================================
