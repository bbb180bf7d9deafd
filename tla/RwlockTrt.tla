----------------------------- MODULE RwlockTrt -----------------------------
(***************************************************************************)
(* The directory lock of the TRT runtimes: rwlock_pagefault_trt.  Readers  *)
(* and writers are tasks; a task runs on its scheduler's thread until it   *)
(* suspends, and a reader suspends for IO while it holds the lock.  The    *)
(* words of the base lock are the ones of module RwlockPagefault: here one *)
(* word per scheduler, which the writer bars and a reader tries as one     *)
(* step.  A reader the writer keeps out subscribes to the asynchronous     *)
(* object of that writer, and waits for it with ws.wait_(), which spins on *)
(* the scheduler's thread: it sees the value as soon as it is set, and      *)
(* leaves with its future, whether or not the writer has reached it.       *)
(***************************************************************************)
EXTENDS Integers, FiniteSets

CONSTANTS
  RwTasks,      \* tasks that run operations of the store
  RwScheds,     \* the schedulers, each a thread
  OnSched,      \* the scheduler each task runs on
  Growers,      \* tasks whose put finds no place and grows the directory
  NoAo,         \* nullptr
  Nobody        \* no task runs

ASSUME RwlockTrtAssumption ==
  /\ IsFiniteSet(RwTasks)
  /\ OnSched \in [RwTasks -> RwScheds]
  /\ Growers \subseteq RwTasks
  /\ Nobody \notin RwTasks /\ NoAo \notin RwTasks

VARIABLES
  tpc,      \* where each task is
  running,  \* the task on each scheduler's thread
  barred,   \* schedulers whose word the writer has taken
  holders,  \* tasks inside rd_enter() .. rd_exit()
  aoptr,    \* rwpf_trt_ao_: an object is named after the writer that made it
  refs,     \* references to each object: AsyncObj::allocate() makes it anew
  noted,    \* objects whose value is set
  fut,      \* the object each waiting task's future names
  grower,   \* who holds grow_lock_m
  listed,   \* tasks whose future is in ao_futures_ of its object
  walk      \* tasks whose future is in the list set_ready() gave the writer

tvars == <<tpc, running, barred, holders, aoptr, refs, noted, fut, grower, listed, walk>>

TaskPc == {"new", "try", "sub", "wait", "in", "io", "back", "mutex", "alloc",
           "bar", "drain", "crit", "swap", "unbar", "notify", "unsub", "walk",
           "done", "crash"}

TInit ==
  /\ tpc = [t \in RwTasks |-> "new"]
  /\ running = [s \in RwScheds |-> Nobody]
  /\ barred = {} /\ holders = {}
  /\ aoptr = NoAo
  /\ refs = [t \in RwTasks |-> 0]
  /\ noted = {}
  /\ fut = [t \in RwTasks |-> NoAo]
  /\ grower = Nobody
  /\ listed = {} /\ walk = {}

\* The process goes on until a task goes wrong
Alive == \A u \in RwTasks : tpc[u] # "crash"
Runs(t) == Alive /\ running[OnSched[t]] = t
TGoes(t, from, to) == Runs(t) /\ tpc[t] = from /\ tpc' = [tpc EXCEPT ![t] = to]
Leaves(t) == running' = [running EXCEPT ![OnSched[t]] = Nobody]

\* The scheduler runs a task that is new, or whose IO its poller found complete
Resume(t) ==
  /\ Alive
  /\ running[OnSched[t]] = Nobody
  /\ tpc[t] \in {"new", "io"}
  /\ running' = [running EXCEPT ![OnSched[t]] = t]
  /\ tpc' = [tpc EXCEPT ![t] = IF tpc[t] = "new" THEN "try" ELSE "back"]
  /\ UNCHANGED <<barred, holders, aoptr, refs, noted, fut, grower, listed, walk>>

-----------------------------------------------------------------------------
(* Readers *)

rd_try_lock(t) ==
  /\ IF OnSched[t] \in barred
       THEN TGoes(t, "try", "sub") /\ UNCHANGED holders
       ELSE TGoes(t, "try", "in") /\ holders' = holders \cup {t}
  /\ UNCHANGED <<running, barred, aoptr, refs, noted, fut, grower, listed, walk>>

\* Defect: the future names the object without a reference to it
rd_subscribe_NoRef(t) ==
  /\ IF aoptr = NoAo
       THEN TGoes(t, "sub", "try") /\ UNCHANGED <<refs, fut>>
       ELSE /\ TGoes(t, "sub", "wait")
            /\ UNCHANGED refs
            /\ fut' = [fut EXCEPT ![t] = aoptr]
  /\ UNCHANGED <<running, barred, holders, aoptr, noted, grower, listed, walk>>

\* Under rwpf_trt_lock_: subscribe to the writer's object, or try again
rd_subscribe(t) ==
  /\ IF aoptr = NoAo
       THEN TGoes(t, "sub", "try") /\ UNCHANGED <<refs, fut>>
       ELSE /\ TGoes(t, "sub", "wait")
            /\ refs' = [refs EXCEPT ![aoptr] = @ + 1]
            /\ fut' = [fut EXCEPT ![t] = aoptr]
  /\ UNCHANGED <<running, barred, holders, aoptr, noted, grower, listed, walk>>

\* is_ready_or_register() under ao_lock_: the future goes into the object's list
rd_register(t) ==
  /\ TGoes(t, "wait", "wait")
  /\ fut[t] \notin noted /\ t \notin listed
  /\ listed' = listed \cup {t}
  /\ UNCHANGED <<running, barred, holders, aoptr, refs, noted, fut, grower, walk>>

\* Waitset::wait_() spins, so the task stays on its thread; then drop_ref()
rd_wait(t) ==
  /\ TGoes(t, "wait", "try")
  /\ fut[t] \in noted
  /\ refs' = [refs EXCEPT ![fut[t]] = @ - 1]
  /\ fut' = [fut EXCEPT ![t] = NoAo]
  /\ UNCHANGED <<running, barred, holders, aoptr, noted, grower, listed, walk>>

\* The operation reads a record, or waits for the lock of its map
SuspendInside(t) ==
  /\ TGoes(t, "in", "io") /\ Leaves(t)
  /\ UNCHANGED <<barred, holders, aoptr, refs, noted, fut, grower, listed, walk>>

rd_exit(t) ==
  /\ TGoes(t, "back", IF t \in Growers \ noted THEN "mutex" ELSE "done")
  /\ holders' = holders \ {t}
  /\ IF t \in Growers \ noted THEN UNCHANGED running ELSE Leaves(t)
  /\ UNCHANGED <<barred, aoptr, refs, noted, fut, grower, listed, walk>>

-----------------------------------------------------------------------------
(* The writer.  grow_lock_m is a mutex of the thread. *)

GrowLock(t) ==
  /\ grower = Nobody
  /\ TGoes(t, "mutex", "alloc")
  /\ grower' = t
  /\ UNCHANGED <<running, barred, holders, aoptr, refs, noted, fut, listed, walk>>

\* The object comes before the words, so that a reader kept out finds it
write_enter(t) ==
  /\ TGoes(t, "alloc", "bar")
  /\ aoptr' = t
  /\ refs' = [refs EXCEPT ![t] = 1]
  /\ UNCHANGED <<running, barred, holders, noted, fut, grower, listed, walk>>

wr_enter(t) ==
  /\ \E s \in RwScheds \ barred :
       /\ barred' = barred \cup {s}
       /\ TGoes(t, "bar", IF barred' = RwScheds THEN "drain" ELSE "bar")
  /\ UNCHANGED <<running, holders, aoptr, refs, noted, fut, grower, listed, walk>>

\* sched_yield() gives up the processor, not the scheduler's thread
write_wait_readers(t) ==
  /\ holders = {}
  /\ TGoes(t, "drain", "crit")
  /\ UNCHANGED <<running, barred, holders, aoptr, refs, noted, fut, grower, listed, walk>>

Install(t) ==
  /\ TGoes(t, "crit", "swap")
  /\ UNCHANGED <<running, barred, holders, aoptr, refs, noted, fut, grower, listed, walk>>

write_exit(t) ==
  /\ TGoes(t, "swap", "unbar")
  /\ aoptr' = NoAo
  /\ UNCHANGED <<running, barred, holders, refs, noted, fut, grower, listed, walk>>

wr_exit(t) ==
  /\ \E s \in barred :
       /\ barred' = barred \ {s}
       /\ TGoes(t, "unbar", IF barred' = {} THEN "notify" ELSE "unbar")
  /\ UNCHANGED <<running, holders, aoptr, refs, noted, fut, grower, listed, walk>>

\* T::notify(): under ao_lock_ set_ready() sets the value and takes the list
set_ready(t) ==
  /\ TGoes(t, "notify", "unsub")
  /\ noted' = noted \cup {t}
  /\ walk' = {u \in listed : fut[u] = t}
  /\ listed' = listed \ walk'
  /\ UNCHANGED <<running, barred, holders, aoptr, refs, fut, grower>>

\* Then it drops the writer's reference
unsubscribe_(t) ==
  /\ TGoes(t, "unsub", "walk")
  /\ refs' = [refs EXCEPT ![t] = @ - 1]
  /\ UNCHANGED <<running, barred, holders, aoptr, noted, fut, grower, listed, walk>>

\* notify_() takes the futures off the list one by one.  A reader that spins is
\* in no state of its waitset that wakes it.  One that saw the value has taken
\* its future, with its link, off the stack: what the walk reads is undefined
notify_(t) ==
  /\ \E u \in walk :
       /\ walk' = walk \ {u}
       /\ TGoes(t, "walk", "walk") \/ (fut[u] # t /\ TGoes(t, "walk", "crash"))
  /\ UNCHANGED <<running, barred, holders, aoptr, refs, noted, fut, grower, listed>>

\* grow() then unlocks grow_lock_m and the put starts again
GrowUnlock(t) ==
  /\ walk = {}
  /\ TGoes(t, "walk", "try")
  /\ grower' = Nobody
  /\ UNCHANGED <<running, barred, holders, aoptr, refs, noted, fut, listed, walk>>

AllDone == (Alive => \A t \in RwTasks : tpc[t] = "done") /\ UNCHANGED tvars

TaskStep(t) ==
  \/ rd_try_lock(t) \/ rd_subscribe(t) \/ rd_register(t) \/ rd_wait(t)
  \/ SuspendInside(t) \/ rd_exit(t)
  \/ GrowLock(t) \/ write_enter(t) \/ wr_enter(t) \/ write_wait_readers(t) \/ Install(t)
  \/ write_exit(t) \/ wr_exit(t) \/ set_ready(t) \/ unsubscribe_(t) \/ notify_(t)
  \/ GrowUnlock(t)

TNext == (\E t \in RwTasks : Resume(t) \/ TaskStep(t)) \/ AllDone

\* A thread goes on running, and completions arrive
TFair == \A t \in RwTasks : WF_tvars(Resume(t)) /\ WF_tvars(TaskStep(t))

TSpec == TInit /\ [][TNext]_tvars /\ TFair

-----------------------------------------------------------------------------
(* Properties *)

\* Nobody is inside while the directory is replaced, and the object a waiting
\* reader's future names is not freed under it: the subscription happens under
\* rwpf_trt_lock_ and write_exit() takes the object away under it.  Nothing is
\* said of the futures: a reader that spins leaves with its own under the walk.
LockAndObjectHeld ==
  /\ \A t \in RwTasks : tpc[t] \in {"crit", "swap"} => holders = {}
  /\ \A t \in RwTasks : tpc[t] = "wait" => refs[fut[t]] > 0

\* Every operation ends: a reader kept out is let in, and a grow() gets its turn.
\* The exception is a process that ends in notify_() on the future of a reader
\* that has already left.
EveryTaskEnds == <>(Alive => \A t \in RwTasks : tpc[t] = "done")
=============================================================================
