----------------------------- MODULE MCRecovery -----------------------------
(* Small instances of Recovery for TLC *)
EXTENDS Recovery, TLC

CONSTANTS k1, k2

MCHash == k1 :> 1 @@ k2 :> 2

Use(threads, tables, crash_, clean, dels, gc) ==
  [threads |-> threads, tables |-> tables, crash |-> crash_, clean |-> clean, dels |-> dels,
   gc |-> gc, destroy |-> FALSE, starts |-> 3]

\* What the code keeps its promises under: crashes of a single writer without
\* relocation; several writers with relocation, stopped only in order.  A
\* directory with tombstones is not restored
MCConfs ==
  {[Use(1, 1, TRUE, TRUE, FALSE, FALSE) EXCEPT !.destroy = TRUE],
   Use(1, 2, TRUE, TRUE, FALSE, FALSE),
   Use(1, 1, TRUE, FALSE, TRUE, FALSE),
   [Use(2, 1, FALSE, TRUE, FALSE, TRUE) EXCEPT !.starts = 2],
   Use(2, 1, FALSE, FALSE, TRUE, TRUE)}
=============================================================================
