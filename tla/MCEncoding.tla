------------------------------ MODULE MCEncoding ------------------------------
EXTENDS Encoding

\* Every bit alone, none, all, and two mixed patterns.  The encoders and the
\* decoders treat bits independently, but for the sign.
MCImm12 == {{i} : i \in 0..11} \union {{}, 0..11, {0, 2, 4, 11}, {1, 5, 10}}
MCImm20 == {{i} : i \in 0..19} \union {{}, 0..19, {0, 8, 9, 19}}

\* x0, x1, x10 and x15.
MCRegs == {{}, {0}, {1, 3}, 0..3}
=============================================================================
