------------------------- MODULE MCRwlockPagefault -------------------------
(* The two directory locks and the locks of a table, each in behaviours of  *)
(* its own                                                                  *)
EXTENDS RwlockPagefault, RwlockTrt, MapLocks, TLC
CONSTANTS r1, r2, r3, t1, t2, t3, sA, sB, sC, o1, o2
VARIABLE runtime

\* r1 and r2 share a sub-lock, r3 has one of its own
MCTid == r1 :> 0 @@ r2 :> 0 @@ r3 :> 1
\* Every task has a scheduler of its own; or t1 and t2 share one
Apart == t1 :> sA @@ t2 :> sB @@ t3 :> sC
Together == t1 :> sA @@ t2 :> sA @@ t3 :> sB

\* Hashes around the ends of the table's lock buckets, of 34 slots each
MCHashes == {0, 7, 8, 9, 25, 26, 33, 34, 35, 41, 42, 43, 44, 59, 60, 67, 68, 69,
             76, 77, 84, 93, 94, 101, 102, 110, 119, 127}

MCVars == <<vars, tvars, mvars, runtime>>
MCInit == Init /\ TInit /\ MapInit /\ runtime \in {"posix", "trt", "map"}
MCNext ==
  \/ runtime = "posix" /\ Next /\ UNCHANGED <<tvars, mvars, runtime>>
  \/ runtime = "trt" /\ TNext /\ UNCHANGED <<vars, mvars, runtime>>
  \/ runtime = "map" /\ MapNext /\ UNCHANGED <<vars, tvars, runtime>>
MCFairness == (runtime = "posix" /\ Fairness) \/ (runtime = "trt" /\ TFair) \/ runtime = "map"
MCSpec == MCInit /\ [][MCNext]_MCVars /\ MCFairness

\* With rwlock_pagefault_trt every operation ends: a reader kept out is let in,
\* and a grow() gets its turn.
EveryTrtTaskEnds == runtime = "trt" => EveryTaskEnds

\* Nobody waits for ever for either lock: no writer for its turn, no thread in
\* the futex, no task for its future.
NobodyWaitsForEver == LockIsLive /\ EveryTrtTaskEnds
=============================================================================
