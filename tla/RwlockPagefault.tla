-------------------------- MODULE RwlockPagefault --------------------------
(***************************************************************************)
(* The lock that guards the hash-table directory while grow() replaces it: *)
(* rwlock_pagefault over a "big reader" lock of LocksNr sub-locks.  Each   *)
(* reader thread uses the one sub-lock its thread id selects; the writer   *)
(* takes them all, one after the other.  Every atomic access to a shared   *)
(* word is a step of its own.  There is one writer at a time because       *)
(* uDepotDirectoryMap::grow() holds grow_lock_m around the whole of        *)
(* write_enter() .. write_exit().                                          *)
(***************************************************************************)
EXTENDS Integers, FiniteSets

CONSTANTS
  Readers,      \* the threads that run get/put/del/GC callbacks
  LocksNr,      \* BRLock::LOCKS_NR
  Tid,          \* ThreadId::get() % LOCKS_NR of each reader
  Bias,         \* RWLock::RWLOCK_BIAS
  MaxGrows,     \* bound: how often the writer comes
  MaxIntr       \* bound: futex waits interrupted by a signal

Locks == 0 .. LocksNr - 1

ASSUME RwlockAssumption ==
  /\ IsFiniteSet(Readers)
  /\ LocksNr \in Nat \ {0}
  /\ Tid \in [Readers -> Locks]
  /\ Bias \in Nat \ {0}
  /\ MaxGrows \in Nat
  /\ MaxIntr \in Nat

VARIABLES
  rwlock,   \* rwlock_ of each sub-lock
  wip,      \* write_in_progress_, also the futex word
  rpc,      \* where each reader is
  wpc,      \* where the writer is
  widx,     \* the sub-lock the writer's loop is at
  grows,    \* writes begun
  intrs     \* interrupted futex waits

vars == <<rwlock, wip, rpc, wpc, widx, grows, intrs>>

ReaderPc == {"out", "load", "sub", "undo", "failed", "asleep", "in"}
WriterPc == {"out", "enter", "wait", "crit", "exit", "clear", "wake"}

Init ==
  /\ rwlock = [l \in Locks |-> Bias]
  /\ wip = 0
  /\ rpc = [r \in Readers |-> "out"]
  /\ wpc = "out"
  /\ widx = 0
  /\ grows = 0
  /\ intrs = 0

ReaderGoes(r, from, to) ==
  /\ rpc[r] = from
  /\ rpc' = [rpc EXCEPT ![r] = to]

-----------------------------------------------------------------------------
(* Readers *)

RdEnter(r) ==
  /\ ReaderGoes(r, "out", "load")
  /\ UNCHANGED <<rwlock, wip, wpc, widx, grows, intrs>>

\* if (rwlock_ == 0) return false;
RdTryLoad(r) ==
  /\ ReaderGoes(r, "load", IF rwlock[Tid[r]] = 0 THEN "failed" ELSE "sub")
  /\ UNCHANGED <<rwlock, wip, wpc, widx, grows, intrs>>

\* Defect: old_val >= 0 in place of old_val > 0
RdTrySub_AtZero(r) ==
  /\ ReaderGoes(r, "sub", IF rwlock[Tid[r]] >= 0 THEN "in" ELSE "undo")
  /\ rwlock' = [rwlock EXCEPT ![Tid[r]] = @ - 1]
  /\ UNCHANGED <<wip, wpc, widx, grows, intrs>>

\* old_val = rwlock_.fetch_sub(1); the lock is held iff old_val > 0
RdTrySub(r) ==
  /\ ReaderGoes(r, "sub", IF rwlock[Tid[r]] > 0 THEN "in" ELSE "undo")
  /\ rwlock' = [rwlock EXCEPT ![Tid[r]] = @ - 1]
  /\ UNCHANGED <<wip, wpc, widx, grows, intrs>>

RdTryUndo(r) ==
  /\ ReaderGoes(r, "undo", "failed")
  /\ rwlock' = [rwlock EXCEPT ![Tid[r]] = @ + 1]
  /\ UNCHANGED <<wip, wpc, widx, grows, intrs>>

\* FUTEX_WAIT compares the word and sleeps atomically; EAGAIN goes round again
ReaderWaitForWriter(r) ==
  /\ ReaderGoes(r, "failed", IF wip = 1 THEN "asleep" ELSE "load")
  /\ UNCHANGED <<rwlock, wip, wpc, widx, grows, intrs>>

\* EINTR: the wait ends although nobody woke the reader
FutexInterrupted(r) ==
  /\ intrs < MaxIntr
  /\ ReaderGoes(r, "asleep", "load")
  /\ intrs' = intrs + 1
  /\ UNCHANGED <<rwlock, wip, wpc, widx, grows>>

RdExit(r) ==
  /\ ReaderGoes(r, "in", "out")
  /\ rwlock' = [rwlock EXCEPT ![Tid[r]] = @ + 1]
  /\ UNCHANGED <<wip, wpc, widx, grows, intrs>>

-----------------------------------------------------------------------------
(* The writer *)

\* One round of a loop over the sub-locks: the next index, or the next phase
NextLock(again, done) ==
  IF widx + 1 < LocksNr
    THEN widx' = widx + 1 /\ wpc' = again
    ELSE widx' = 0 /\ wpc' = done

WriteEnter ==
  /\ wpc = "out"
  /\ grows < MaxGrows
  /\ grows' = grows + 1
  /\ wip' = 1
  /\ wpc' = "enter"
  /\ UNCHANGED <<rwlock, rpc, widx, intrs>>

\* Defect: the readers already in are not waited for
WrEnterLock_NoWait ==
  /\ wpc = "enter"
  /\ rwlock' = [rwlock EXCEPT ![widx] = @ - Bias]
  /\ NextLock("enter", "crit")
  /\ UNCHANGED <<wip, rpc, grows, intrs>>

WrEnterLock ==
  /\ wpc = "enter"
  /\ rwlock' = [rwlock EXCEPT ![widx] = @ - Bias]
  /\ NextLock("enter", "wait")
  /\ UNCHANGED <<wip, rpc, grows, intrs>>

\* Defect: a word below 0 passes for 0
WrReadyLock_BelowZero ==
  /\ wpc = "wait"
  /\ IF rwlock[widx] <= 0 THEN NextLock("wait", "crit")
                          ELSE widx' = 0 /\ UNCHANGED wpc
  /\ UNCHANGED <<rwlock, wip, rpc, grows, intrs>>

\* wr_ready() stops at the first sub-lock that is not 0; write_wait_readers()
\* then sleeps and scans again from the first
WrReadyLock ==
  /\ wpc = "wait"
  /\ IF rwlock[widx] = 0 THEN NextLock("wait", "crit")
                         ELSE widx' = 0 /\ UNCHANGED wpc
  /\ UNCHANGED <<rwlock, wip, rpc, grows, intrs>>

WriteExit ==
  /\ wpc = "crit"
  /\ wpc' = "exit"
  /\ UNCHANGED <<rwlock, wip, rpc, widx, grows, intrs>>

WrExitLock ==
  /\ wpc = "exit"
  /\ rwlock' = [rwlock EXCEPT ![widx] = @ + Bias]
  /\ NextLock("exit", "clear")
  /\ UNCHANGED <<wip, rpc, grows, intrs>>

WrClear ==
  /\ wpc = "clear"
  /\ wip' = 0
  /\ wpc' = "wake"
  /\ UNCHANGED <<rwlock, rpc, widx, grows, intrs>>

\* Defect: one waiter is woken in place of all
FutexWake_One ==
  /\ wpc = "wake"
  /\ IF \E r \in Readers : rpc[r] = "asleep"
       THEN \E r \in Readers : ReaderGoes(r, "asleep", "load")
       ELSE UNCHANGED rpc
  /\ wpc' = "out"
  /\ UNCHANGED <<rwlock, wip, widx, grows, intrs>>

\* FUTEX_WAKE of INT_MAX waiters
FutexWake ==
  /\ wpc = "wake"
  /\ rpc' = [r \in Readers |-> IF rpc[r] = "asleep" THEN "load" ELSE rpc[r]]
  /\ wpc' = "out"
  /\ UNCHANGED <<rwlock, wip, widx, grows, intrs>>

-----------------------------------------------------------------------------

ReaderSteps(r) ==
  \/ RdTryLoad(r) \/ RdTrySub(r) \/ RdTryUndo(r)
  \/ ReaderWaitForWriter(r) \/ RdExit(r)

WriterSteps == WrEnterLock \/ WrReadyLock \/ WriteExit \/ WrExitLock \/ WrClear \/ FutexWake

Next ==
  \/ \E r \in Readers : RdEnter(r) \/ ReaderSteps(r) \/ FutexInterrupted(r)
  \/ WriteEnter
  \/ WriterSteps

Spec == Init /\ [][Next]_vars

(***************************************************************************)
(* A thread that is inside the lock's code, or holds the lock, keeps       *)
(* running: an operation ends after a finite number of IOs.  Nobody has to *)
(* call rd_enter() or grow().                                              *)
(***************************************************************************)
Fairness ==
  /\ \A r \in Readers : WF_vars(ReaderSteps(r))
  /\ WF_vars(WriterSteps)

FairSpec == Spec /\ Fairness

-----------------------------------------------------------------------------
(* Properties *)

\* Every variable has its type.
TypeOK ==
  /\ rwlock \in [Locks -> Int]
  /\ wip \in {0, 1}
  /\ rpc \in [Readers -> ReaderPc]
  /\ wpc \in WriterPc
  /\ widx \in Locks
  /\ grows \in 0 .. MaxGrows
  /\ intrs \in 0 .. MaxIntr

\* The readers that have taken 1 off the word of sub-lock l
Takers(l) == {r \in Readers : Tid[r] = l /\ rpc[r] \in {"in", "undo"}}

\* The writer has taken the bias off the word of sub-lock l
Biased(l) ==
  \/ wpc \in {"wait", "crit"}
  \/ wpc = "enter" /\ l < widx
  \/ wpc = "exit" /\ l >= widx

\* The word of every sub-lock accounts for its readers and its writer, also
\* while a failed rd_try_lock() has not yet given back what it took.
WordsAccount ==
  \A l \in Locks :
    rwlock[l] = (IF Biased(l) THEN 0 ELSE Bias) - Cardinality(Takers(l))

\* A sub-lock that wr_ready() has found at 0 has no reader and gets none,
\* although the scan goes on while readers come and go elsewhere.
ScannedLocksAreEmpty ==
  \A r \in Readers :
    rpc[r] = "in" => ~(wpc = "wait" /\ Tid[r] < widx)

\* While grow() is past write_wait_readers() and before write_exit(), no
\* operation is inside rd_enter() .. rd_exit(): grow() may unmap the tables.
WriterExcludesReaders ==
  wpc = "crit" => \A r \in Readers : rpc[r] # "in"

\* Once write_enter() has returned no further reader gets in before
\* write_exit(): grow() waits only for the operations already in flight.
NoEntryOnceAnnounced ==
  [][(wpc \in {"wait", "crit"} /\ wpc' \in {"wait", "crit"})
       => (\A r \in Readers : rpc'[r] = "in" => rpc[r] = "in")]_vars

\* write_wait_readers() returns: the operations in flight leave, new ones
\* stay out, and what failed attempts take off the words is given back.
WriterGetsIn == (wpc = "wait") ~> (wpc = "crit")

\* rd_enter() returns: a reader is not left behind in the futex.
ReaderGetsIn == \A r \in Readers : (rpc[r] = "load") ~> (rpc[r] = "in")

\* Nobody waits for ever, neither for a turn to write nor in the futex.
LockIsLive == WriterGetsIn /\ ReaderGetsIn

\* Operations that hold the lock, and the writer's turn
Exclusion == INSTANCE RWExclusion WITH
  holding <- {r \in Readers : rpc[r] = "in"},
  owned <- wpc = "crit"

\* The lock implements the exclusion the directory code relies on: operations
\* hold the directory between rd_enter() and rd_exit(), or one grow() owns it.
ImplementsExclusion == Exclusion!Spec
=============================================================================
