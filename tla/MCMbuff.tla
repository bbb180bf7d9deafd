------------------------------ MODULE MCMbuff ------------------------------
EXTENDS Mbuff
CONSTANTS b1, b2, b3, m1, m2
MCBuffers == {b1, b2, b3}
MCMbuffs == {m1, m2}
MCSize == [b \in MCBuffers |-> 3]
MCData == {<<>>, <<"p">>, <<"p", "q", "r">>}
MCSymmetry == Permutations(MCBuffers) \cup Permutations(MCMbuffs)
=============================================================================
