------------------------------ MODULE MCLsuPath ------------------------------
EXTENDS LsuPath

\* Two words of memory, all bytes different, odd ones negative.
MCInitMem == [a \in 0..MemEnd-1 |-> 10 + a]
MCByte == {0, 1} \union 10..(9 + MemEnd) \union 20..23
MCNegByte == {b \in MCByte : b % 2 = 1}

Access(w, a, s, sg) == [is_write |-> w, is_mem_sign |-> sg, addr |-> a, data_size |-> s,
                        wdata |-> [lane \in 0..3 |-> 20 + lane]]

MCSizes == {"LSU_BYTE", "LSU_HALF", "LSU_WORD"}

\* Every alignment, size and sign; a load of a word has no sign to extend.
MCOp == {Access(TRUE, a, s, TRUE) : a \in 0..3, s \in MCSizes}
        \union {Access(FALSE, a, s, TRUE) : a \in 0..3, s \in MCSizes}
        \union {Access(FALSE, a, s, FALSE) : a \in 0..3, s \in {"LSU_BYTE", "LSU_HALF"}}

MCNoOp == Access(FALSE, 0, "LSU_BYTE", TRUE)
=============================================================================
