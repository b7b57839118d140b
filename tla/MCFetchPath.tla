----------------------------- MODULE MCFetchPath -----------------------------
EXTENDS FetchPath

\* Five words on two cache lines: two or three words compete for each line.
MCFlash == [a \in 0..4 |-> 10 + a]
MCWord  == {0} \union {10 + a : a \in 0..4}

\* Addresses of all five words, and one that is not word aligned.
MCPc == {0, 4, 6, 8, 12, 16}
=============================================================================
