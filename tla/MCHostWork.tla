----------------------------- MODULE MCHostWork -----------------------------
(* Instances of HostWork for TLC.                                          *)
EXTENDS HostWork, TLC

CONSTANTS w1, w2, i1, i2, m1, m2, m3, r1, r2, r3, r4, r5, e0, e1

OneGroup   == {<< m1 >>}
JustPair   == {<< m1, m2 >>}
CreateGroups == {<< m1 >>, << m3 >>}
SplitGroups == {<< m1 >>, << m2 >>, << m1, m2 >>}

Symmetric ==
    Permutations(Works) \cup Permutations(Requests) \cup Permutations(ExtRevs)
=============================================================================
