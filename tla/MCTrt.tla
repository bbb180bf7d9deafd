------------------------------- MODULE MCTrt -------------------------------
EXTENDS Trt, TLC
CONSTANTS sA, sB, mA, mB, c1, p1, sh, lo, my
\* Two schedulers.  mA creates a child and a poller; mB sets the shared object
\* that tasks of the other scheduler wait for.
MCMain == sA :> mA @@ sB :> mB
MCWriter == sh :> mB @@ lo :> mA @@ my :> mA
MCWaiters == sh :> {mA, c1} @@ lo :> {c1} @@ my :> {c1}
=============================================================================
