---------------------------- MODULE RWExclusion ----------------------------
(***************************************************************************)
(* What the directory lock promises to the code that uses it: any number   *)
(* of operations hold the hash-table directory, or one grow() owns it      *)
(* alone.  RwlockPagefault is shown to implement this specification.       *)
(***************************************************************************)
CONSTANT Readers
VARIABLES holding,  \* the readers between rd_enter() and rd_exit()
          owned     \* a writer is past write_wait_readers()

vars == <<holding, owned>>

Init == holding = {} /\ owned = FALSE

ReaderEnters(r) == /\ ~owned
                   /\ r \notin holding
                   /\ holding' = holding \cup {r}
                   /\ UNCHANGED owned

ReaderLeaves(r) == /\ r \in holding
                   /\ holding' = holding \ {r}
                   /\ UNCHANGED owned

WriterOwns == /\ holding = {}
              /\ ~owned
              /\ owned' = TRUE
              /\ UNCHANGED holding

WriterLeaves == /\ owned
                /\ owned' = FALSE
                /\ UNCHANGED holding

Next == \/ \E r \in Readers : ReaderEnters(r) \/ ReaderLeaves(r)
        \/ WriterOwns
        \/ WriterLeaves

Spec == Init /\ [][Next]_vars
=============================================================================
