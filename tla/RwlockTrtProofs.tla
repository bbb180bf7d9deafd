-------------------------- MODULE RwlockTrtProofs --------------------------
(***************************************************************************)
(* rwlock_pagefault_trt keeps readers and a grow() apart, and frees the    *)
(* asynchronous object of a writer only when no reader waits for it, for   *)
(* any number of tasks and any placement of them on schedulers.            *)
(***************************************************************************)
EXTENDS RwlockTrt, FiniteSetTheorems, TLAPS

-----------------------------------------------------------------------------
(* The inductive invariant *)

\* A task that has yet to set its value, one that owns grow_lock_m (a process
\* that ends in notify_() ends with it), one that has published its object, and one
\* that still has its reference to it
Writes == {"alloc", "bar", "drain", "crit", "swap", "unbar", "notify"}
Writing == Writes \cup {"unsub", "walk", "crash"}
Published == {"bar", "drain", "crit", "swap"}
OwnsRef == Published \cup {"unbar", "notify", "unsub"}

TTypeOK ==
  /\ tpc \in [RwTasks -> TaskPc]
  /\ running \in [RwScheds -> RwTasks \cup {Nobody}]
  /\ barred \subseteq RwScheds
  /\ holders \subseteq RwTasks
  /\ aoptr \in RwTasks \cup {NoAo}
  /\ refs \in [RwTasks -> Int]
  /\ noted \subseteq RwTasks
  /\ fut \in [RwTasks -> RwTasks \cup {NoAo}]
  /\ grower \in RwTasks \cup {Nobody}
  /\ listed \subseteq RwTasks /\ walk \subseteq RwTasks

\* One task at a time writes; a task that may yet write has not set its value,
\* and one that is about to drop its reference has.
OneWriter ==
  \A t \in RwTasks : /\ tpc[t] \in Writing <=> grower = t
                     /\ tpc[t] \in Writes \cup {"mutex"} => t \notin noted
                     /\ tpc[t] = "unsub" => t \in noted

\* The holders are the tasks inside; every word is barred before the writer
\* looks for holders, and until it unbars; then nobody is left inside.
Inside ==
  \A t \in RwTasks : /\ t \in holders <=> tpc[t] \in {"in", "io", "back"}
                     /\ tpc[t] \in {"drain", "crit", "swap"} => barred = RwScheds
                     /\ tpc[t] \in {"crit", "swap"} => holders = {}

\* The pointer names the object of a writer that has published it; a waiting
\* task's future names an object that was published and not made anew.
Objects ==
  /\ aoptr # NoAo => tpc[aoptr] \in Published
  /\ \A t \in RwTasks : /\ tpc[t] = "wait" <=> fut[t] # NoAo
                        /\ fut[t] # NoAo => fut[t] \in noted \/ tpc[fut[t]] \in OwnsRef

\* The references to an object: the writer's own, and one per waiting task.
Waiters(a) == {t \in RwTasks : fut[t] = a}
RefsCount ==
  \A a \in RwTasks : refs[a] = Cardinality(Waiters(a)) + (IF tpc[a] \in OwnsRef THEN 1 ELSE 0)

TInv == TTypeOK /\ OneWriter /\ Inside /\ Objects /\ RefsCount

-----------------------------------------------------------------------------
(* Counting the waiting tasks *)

\* The tasks that wait for an object are finitely many.
LEMMA WaitersFinite ==
  ASSUME NEW a \in RwTasks
  PROVE  IsFiniteSet(Waiters(a)) /\ Cardinality(Waiters(a)) \in Nat
<1>1. Waiters(a) \subseteq RwTasks
  BY DEF Waiters
<1>2. IsFiniteSet(Waiters(a))
  BY <1>1, RwlockTrtAssumption, FS_Subset
<1> QED
  BY <1>2, FS_CardinalityType

\* A subscription adds one task to those that wait for the object.
LEMMA WaitersPlus ==
  ASSUME TTypeOK, NEW t \in RwTasks, NEW b \in RwTasks, fut[t] = NoAo,
         fut' = [fut EXCEPT ![t] = b], NEW a \in RwTasks
  PROVE  Cardinality(Waiters(a)') = Cardinality(Waiters(a)) + (IF a = b THEN 1 ELSE 0)
<1>0. IsFiniteSet(Waiters(a)) /\ Cardinality(Waiters(a)) \in Nat
  BY WaitersFinite
<1>1. CASE a = b
  <2>1. Waiters(a)' = Waiters(a) \cup {t} /\ t \notin Waiters(a)
    BY <1>1, RwlockTrtAssumption DEF TTypeOK, Waiters
  <2>2. Cardinality(Waiters(a)') = Cardinality(Waiters(a)) + 1
    BY <1>0, <2>1, FS_AddElement
  <2> QED
    BY <1>1, <2>1, <2>2
<1>2. CASE a # b
  <2>1. Waiters(a)' = Waiters(a)
    BY <1>2, RwlockTrtAssumption DEF TTypeOK, Waiters
  <2> QED
    BY <1>0, <1>2, <2>1
<1> QED
  BY <1>1, <1>2

\* The end of a wait takes one away.
LEMMA WaitersMinus ==
  ASSUME TTypeOK, NEW t \in RwTasks, fut[t] \in RwTasks,
         fut' = [fut EXCEPT ![t] = NoAo], NEW a \in RwTasks
  PROVE  Cardinality(Waiters(a)') = Cardinality(Waiters(a)) - (IF a = fut[t] THEN 1 ELSE 0)
<1>0. IsFiniteSet(Waiters(a)) /\ Cardinality(Waiters(a)) \in Nat
  BY WaitersFinite
<1>1. CASE a = fut[t]
  <2>1. Waiters(a)' = Waiters(a) \ {t} /\ t \in Waiters(a)
    BY <1>1, RwlockTrtAssumption DEF TTypeOK, Waiters
  <2>2. Cardinality(Waiters(a) \ {t}) = Cardinality(Waiters(a)) - 1
    BY <1>0, <2>1, FS_RemoveElement, Zenon
  <2> QED
    BY <1>1, <2>1, <2>2
<1>2. CASE a # fut[t]
  <2>1. Waiters(a)' = Waiters(a)
    BY <1>2, RwlockTrtAssumption DEF TTypeOK, Waiters
  <2> QED
    BY <1>0, <1>2, <2>1
<1> QED
  BY <1>1, <1>2

-----------------------------------------------------------------------------
(* The steps *)

\* A step of a task moves no other task.
LEMMA OnlyOneMoves ==
  ASSUME TTypeOK, NEW t \in RwTasks, Resume(t) \/ TaskStep(t)
  PROVE  /\ tpc' = [tpc EXCEPT ![t] = tpc'[t]]
         /\ tpc'[t] \in TaskPc
<1> USE DEF TTypeOK, TaskPc, TGoes
<1>1. CASE Resume(t) \/ rd_try_lock(t) \/ rd_subscribe(t) \/ rd_wait(t)
  BY <1>1 DEF Resume, rd_try_lock, rd_subscribe, rd_wait
<1>2. CASE SuspendInside(t) \/ rd_exit(t) \/ GrowLock(t) \/ write_enter(t) \/ wr_enter(t)
  BY <1>2 DEF SuspendInside, rd_exit, GrowLock, write_enter, wr_enter
<1>3. CASE write_wait_readers(t) \/ Install(t) \/ write_exit(t) \/ wr_exit(t)
  BY <1>3 DEF write_wait_readers, Install, write_exit, wr_exit
<1>4. CASE rd_register(t) \/ set_ready(t) \/ unsubscribe_(t) \/ notify_(t) \/ GrowUnlock(t)
  BY <1>4 DEF rd_register, set_ready, unsubscribe_, notify_, GrowUnlock
<1> QED
  BY <1>1, <1>2, <1>3, <1>4 DEF TaskStep

\* Every step keeps the types.
LEMMA StepTypes ==
  ASSUME TTypeOK, NEW t \in RwTasks, Resume(t) \/ TaskStep(t)
  PROVE  TTypeOK'
<1>0. tpc' \in [RwTasks -> TaskPc]
  BY OnlyOneMoves DEF TTypeOK
<1> USE RwlockTrtAssumption DEF TTypeOK, TGoes, Leaves
<1>1. CASE Resume(t) \/ rd_try_lock(t)
  BY <1>0, <1>1 DEF Resume, rd_try_lock
<1>2. CASE rd_subscribe(t)
  BY <1>0, <1>2 DEF rd_subscribe
<1>3. CASE rd_wait(t)
  BY <1>0, <1>3 DEF rd_wait
<1>4. CASE SuspendInside(t) \/ rd_exit(t) \/ GrowLock(t)
  BY <1>0, <1>4 DEF SuspendInside, rd_exit, GrowLock
<1>5. CASE write_enter(t) \/ wr_enter(t) \/ write_wait_readers(t) \/ Install(t)
  BY <1>0, <1>5 DEF write_enter, wr_enter, write_wait_readers, Install
<1>6. CASE write_exit(t) \/ wr_exit(t) \/ rd_register(t)
  BY <1>0, <1>6 DEF write_exit, wr_exit, rd_register
<1>7. CASE set_ready(t)
  BY <1>0, <1>7 DEF set_ready
<1>8. CASE unsubscribe_(t) \/ notify_(t) \/ GrowUnlock(t)
  BY <1>0, <1>8 DEF unsubscribe_, notify_, GrowUnlock
<1> QED
  BY <1>1, <1>2, <1>3, <1>4, <1>5, <1>6, <1>7, <1>8 DEF TaskStep

\* grow_lock_m lets one task write at a time, and each writes once.
LEMMA StepOneWriter ==
  ASSUME TTypeOK, OneWriter, NEW t \in RwTasks, Resume(t) \/ TaskStep(t)
  PROVE  OneWriter'
<1>0. \A u \in RwTasks : u # t => tpc'[u] = tpc[u]
  BY OnlyOneMoves DEF TTypeOK
<1> USE RwlockTrtAssumption DEF TTypeOK, OneWriter, Writing, Writes, TGoes
<1>1. CASE Resume(t) \/ rd_try_lock(t) \/ rd_subscribe(t) \/ rd_wait(t) \/ SuspendInside(t)
  BY <1>0, <1>1 DEF Resume, rd_try_lock, rd_subscribe, rd_wait, SuspendInside
<1>2. CASE rd_exit(t)
  BY <1>0, <1>2 DEF rd_exit
<1>3. CASE GrowLock(t)
  BY <1>0, <1>3 DEF GrowLock
<1>4. CASE write_enter(t) \/ wr_enter(t) \/ write_wait_readers(t) \/ Install(t)
  BY <1>0, <1>4 DEF write_enter, wr_enter, write_wait_readers, Install
<1>5. CASE write_exit(t) \/ wr_exit(t)
  BY <1>0, <1>5 DEF write_exit, wr_exit
<1>6. CASE rd_register(t)
  BY <1>0, <1>6 DEF rd_register
<1>7. CASE set_ready(t)
  BY <1>0, <1>7 DEF set_ready
<1>8. CASE unsubscribe_(t) \/ notify_(t)
  BY <1>0, <1>8 DEF unsubscribe_, notify_
<1>9. CASE GrowUnlock(t)
  BY <1>0, <1>9 DEF GrowUnlock
<1> QED
  BY <1>1, <1>2, <1>3, <1>4, <1>5, <1>6, <1>7, <1>8, <1>9 DEF TaskStep

\* No task gets in once all words are barred, and only the writer unbars them.
LEMMA StepInside ==
  ASSUME TTypeOK, OneWriter, Inside, NEW t \in RwTasks, Resume(t) \/ TaskStep(t)
  PROVE  Inside'
<1>0. \A u \in RwTasks : u # t => tpc'[u] = tpc[u]
  BY OnlyOneMoves DEF TTypeOK
<1>1. \A u \in RwTasks : tpc[t] \in Writing /\ u # t => tpc[u] \notin Writing
  BY DEF OneWriter
<1> USE RwlockTrtAssumption DEF TTypeOK, Inside, TGoes, Writing, Writes
<1>2. CASE Resume(t)
  BY <1>0, <1>2 DEF Resume
<1>3. CASE rd_try_lock(t)
  BY <1>0, <1>3 DEF rd_try_lock
<1>4. CASE rd_subscribe(t) \/ rd_wait(t) \/ SuspendInside(t)
  BY <1>0, <1>4 DEF rd_subscribe, rd_wait, SuspendInside
<1>5. CASE rd_exit(t)
  BY <1>0, <1>5 DEF rd_exit
<1>6. CASE GrowLock(t) \/ write_enter(t)
  BY <1>0, <1>6 DEF GrowLock, write_enter
<1>7. CASE wr_enter(t)
  BY <1>0, <1>1, <1>7 DEF wr_enter
<1>8. CASE write_wait_readers(t) \/ Install(t) \/ write_exit(t)
  BY <1>0, <1>8 DEF write_wait_readers, Install, write_exit
<1>9. CASE wr_exit(t)
  BY <1>0, <1>1, <1>9 DEF wr_exit
<1>10. CASE rd_register(t) \/ set_ready(t) \/ unsubscribe_(t) \/ notify_(t) \/ GrowUnlock(t)
  BY <1>0, <1>10 DEF rd_register, set_ready, unsubscribe_, notify_, GrowUnlock
<1> QED
  BY <1>2, <1>3, <1>4, <1>5, <1>6, <1>7, <1>8, <1>9, <1>10 DEF TaskStep

\* A task subscribes to a published object only, and the object is not made
\* anew while its future names it.
LEMMA StepObjects ==
  ASSUME TTypeOK, OneWriter, Objects, NEW t \in RwTasks, Resume(t) \/ TaskStep(t)
  PROVE  Objects'
<1>0. \A u \in RwTasks : u # t => tpc'[u] = tpc[u]
  BY OnlyOneMoves DEF TTypeOK
<1>1. \A u \in RwTasks : tpc[t] \in Writing /\ u # t => tpc[u] \notin Writing
  BY DEF OneWriter
<1> USE RwlockTrtAssumption DEF TTypeOK, Objects, TGoes, Writing, Writes, OwnsRef, Published
<1>2. CASE Resume(t) \/ rd_try_lock(t) \/ SuspendInside(t)
  BY <1>0, <1>2 DEF Resume, rd_try_lock, SuspendInside
<1>3. CASE rd_subscribe(t)
  BY <1>0, <1>3 DEF rd_subscribe
<1>4. CASE rd_wait(t)
  BY <1>0, <1>4 DEF rd_wait
<1>5. CASE rd_exit(t) \/ GrowLock(t)
  BY <1>0, <1>5 DEF rd_exit, GrowLock
<1>6. CASE write_enter(t)
  BY <1>0, <1>1, <1>6 DEF write_enter
<1>7. CASE wr_enter(t) \/ write_wait_readers(t) \/ Install(t)
  BY <1>0, <1>7 DEF wr_enter, write_wait_readers, Install
<1>8. CASE write_exit(t)
  BY <1>0, <1>8 DEF write_exit
<1>9. CASE wr_exit(t)
  BY <1>0, <1>1, <1>9 DEF wr_exit
<1>10. CASE rd_register(t)
  BY <1>0, <1>10 DEF rd_register
<1>11. CASE set_ready(t)
  BY <1>0, <1>1, <1>11 DEF set_ready
<1>12. CASE unsubscribe_(t)
  <2>1. t \in noted
    BY <1>12 DEF unsubscribe_, OneWriter
  <2> QED
    BY <1>0, <1>1, <1>12, <2>1 DEF unsubscribe_
<1>13. CASE notify_(t) \/ GrowUnlock(t)
  BY <1>0, <1>1, <1>13 DEF notify_, GrowUnlock
<1> QED
  BY <1>2, <1>3, <1>4, <1>5, <1>6, <1>7, <1>8, <1>9, <1>10, <1>11, <1>12, <1>13 DEF TaskStep

\* Every reference taken is counted, and every one dropped.
LEMMA StepRefsCount ==
  ASSUME TInv, NEW t \in RwTasks, Resume(t) \/ TaskStep(t)
  PROVE  RefsCount'
<1> USE DEF TInv
<1>0. \A u \in RwTasks : u # t => tpc'[u] = tpc[u]
  BY OnlyOneMoves DEF TTypeOK
<1>1. ASSUME fut' = fut, NEW a \in RwTasks
      PROVE  Waiters(a)' = Waiters(a) /\ Cardinality(Waiters(a)) \in Nat
  BY <1>1, WaitersFinite DEF Waiters
<1>2. CASE /\ fut' = fut /\ refs' = refs
           /\ tpc[t] \in OwnsRef <=> tpc'[t] \in OwnsRef
  BY <1>0, <1>1, <1>2 DEF RefsCount
<1>3. CASE rd_subscribe(t) /\ aoptr # NoAo
  <2>1. /\ aoptr \in RwTasks /\ fut[t] = NoAo
        /\ fut' = [fut EXCEPT ![t] = aoptr] /\ refs' = [refs EXCEPT ![aoptr] = @ + 1]
        /\ tpc[t] \notin OwnsRef /\ tpc'[t] \notin OwnsRef
    BY <1>3 DEF rd_subscribe, TGoes, TTypeOK, Objects, OwnsRef, Published
  <2>2. ASSUME NEW a \in RwTasks
        PROVE  refs'[a] = Cardinality(Waiters(a)') + (IF tpc'[a] \in OwnsRef THEN 1 ELSE 0)
    <3>1. Cardinality(Waiters(a)') = Cardinality(Waiters(a)) + (IF a = aoptr THEN 1 ELSE 0)
      BY <2>1, WaitersPlus
    <3>2. refs'[a] = refs[a] + (IF a = aoptr THEN 1 ELSE 0)
      BY <2>1 DEF TTypeOK
    <3>3. refs[a] = Cardinality(Waiters(a)) + (IF tpc[a] \in OwnsRef THEN 1 ELSE 0)
      BY DEF RefsCount
    <3>4. tpc'[a] \in OwnsRef <=> tpc[a] \in OwnsRef
      BY <1>0, <2>1
    <3> QED
      BY <3>1, <3>2, <3>3, <3>4, WaitersFinite
  <2> QED
    BY <2>2 DEF RefsCount
<1>4. CASE rd_wait(t)
  <2>1. /\ fut[t] \in RwTasks
        /\ fut' = [fut EXCEPT ![t] = NoAo] /\ refs' = [refs EXCEPT ![fut[t]] = @ - 1]
        /\ tpc[t] \notin OwnsRef /\ tpc'[t] \notin OwnsRef
    BY <1>4 DEF rd_wait, TGoes, TTypeOK, OwnsRef, Published
  <2>2. ASSUME NEW a \in RwTasks
        PROVE  refs'[a] = Cardinality(Waiters(a)') + (IF tpc'[a] \in OwnsRef THEN 1 ELSE 0)
    <3>1. Cardinality(Waiters(a)') = Cardinality(Waiters(a)) - (IF a = fut[t] THEN 1 ELSE 0)
      BY <2>1, WaitersMinus
    <3>2. refs'[a] = refs[a] - (IF a = fut[t] THEN 1 ELSE 0)
      BY <2>1 DEF TTypeOK
    <3>3. refs[a] = Cardinality(Waiters(a)) + (IF tpc[a] \in OwnsRef THEN 1 ELSE 0)
      BY DEF RefsCount
    <3>4. tpc'[a] \in OwnsRef <=> tpc[a] \in OwnsRef
      BY <1>0, <2>1
    <3> QED
      BY <3>1, <3>2, <3>3, <3>4, WaitersFinite
  <2> QED
    BY <2>2 DEF RefsCount
<1>5. CASE write_enter(t)
  <2>1. /\ fut' = fut /\ refs' = [refs EXCEPT ![t] = 1]
        /\ tpc[t] = "alloc" /\ tpc'[t] \in OwnsRef
    BY <1>5 DEF write_enter, TGoes, TTypeOK, OwnsRef, Published
  <2>2. Waiters(t) = {}
    BY <2>1, RwlockTrtAssumption DEF Waiters, Objects, OneWriter, OwnsRef, Published, Writes
  <2>3. Cardinality(Waiters(t)) = 0
    BY <2>2, FS_EmptySet
  <2> QED
    BY <1>0, <1>1, <2>1, <2>3 DEF RefsCount, TTypeOK
<1>6. CASE unsubscribe_(t)
  <2>1. /\ fut' = fut /\ refs' = [refs EXCEPT ![t] = @ - 1]
        /\ tpc[t] \in OwnsRef /\ tpc'[t] \notin OwnsRef
    BY <1>6 DEF unsubscribe_, TGoes, TTypeOK, OwnsRef, Published
  <2> QED
    BY <1>0, <1>1, <2>1 DEF RefsCount, TTypeOK
<1> USE DEF TTypeOK, TGoes, OwnsRef, Published
<1>7. CASE Resume(t) \/ rd_try_lock(t) \/ (rd_subscribe(t) /\ aoptr = NoAo)
  BY <1>2, <1>7 DEF Resume, rd_try_lock, rd_subscribe
<1>8. CASE SuspendInside(t) \/ rd_exit(t) \/ GrowLock(t) \/ wr_enter(t)
  BY <1>2, <1>8 DEF SuspendInside, rd_exit, GrowLock, wr_enter
<1>9. CASE write_wait_readers(t) \/ Install(t) \/ write_exit(t) \/ wr_exit(t)
  BY <1>2, <1>9 DEF write_wait_readers, Install, write_exit, wr_exit
<1>10. CASE rd_register(t) \/ set_ready(t) \/ notify_(t) \/ GrowUnlock(t)
  BY <1>2, <1>10 DEF rd_register, set_ready, notify_, GrowUnlock
<1> QED
  BY <1>3, <1>4, <1>5, <1>6, <1>7, <1>8, <1>9, <1>10 DEF TaskStep

\* The invariant holds at first: nobody holds, writes or waits.
LEMMA InitTInv == TInit => TInv
<1> SUFFICES ASSUME TInit PROVE TInv
  OBVIOUS
<1> USE RwlockTrtAssumption DEF TInit
<1>1. TTypeOK
  BY DEF TTypeOK, TaskPc
<1>2. OneWriter /\ Inside /\ Objects
  BY DEF OneWriter, Inside, Objects, Writing, Writes, Published
<1>3. ASSUME NEW a \in RwTasks
      PROVE  refs[a] = Cardinality(Waiters(a)) + (IF tpc[a] \in OwnsRef THEN 1 ELSE 0)
  <2>1. Waiters(a) = {}
    BY DEF Waiters
  <2>2. Cardinality(Waiters(a)) = 0
    BY <2>1, FS_EmptySet
  <2> QED
    BY <2>2 DEF OwnsRef, Published
<1> QED
  BY <1>1, <1>2, <1>3 DEF TInv, RefsCount

\* The invariant is inductive.
LEMMA NextTInv == TInv /\ [TNext]_tvars => TInv'
<1> SUFFICES ASSUME TInv, [TNext]_tvars PROVE TInv'
  OBVIOUS
<1>1. CASE \E t \in RwTasks : Resume(t) \/ TaskStep(t)
  BY <1>1, StepTypes, StepOneWriter, StepInside, StepObjects, StepRefsCount DEF TInv
<1>2. CASE UNCHANGED tvars
  BY <1>2 DEF tvars, TInv, TTypeOK, OneWriter, Inside, Objects, RefsCount, Waiters
<1> QED
  BY <1>1, <1>2 DEF TNext, AllDone

-----------------------------------------------------------------------------
(* Theorems *)

\* The inductive invariant holds in every reachable state of the TRT lock.
THEOREM TrtInvariant == TSpec => []TInv
BY InitTInv, NextTInv, PTL DEF TSpec

\* Nobody is inside while grow() replaces the directory, and the object a
\* waiting reader's future names has a reference: it is not freed under it.
THEOREM TrtLockHeld == TSpec => []LockAndObjectHeld
<1>1. TInv => LockAndObjectHeld
  <2> SUFFICES ASSUME TInv PROVE LockAndObjectHeld
    OBVIOUS
  <2>1. \A t \in RwTasks : tpc[t] \in {"crit", "swap"} => holders = {}
    BY DEF TInv, Inside
  <2>2. ASSUME NEW t \in RwTasks, tpc[t] = "wait" PROVE refs[fut[t]] > 0
    <3>1. fut[t] \in RwTasks /\ t \in Waiters(fut[t])
      BY <2>2 DEF TInv, TTypeOK, Objects, Waiters
    <3>2. IsFiniteSet(Waiters(fut[t])) /\ Cardinality(Waiters(fut[t])) \in Nat
      BY <3>1, WaitersFinite
    <3>3. Cardinality(Waiters(fut[t])) # 0
      BY <3>1, <3>2, FS_EmptySet
    <3>4. refs[fut[t]] >= Cardinality(Waiters(fut[t]))
      BY <3>1, <3>2 DEF TInv, RefsCount
    <3>5. refs[fut[t]] \in Int
      BY <3>1 DEF TInv, TTypeOK
    <3> QED
      BY <3>2, <3>3, <3>4, <3>5
  <2> QED
    BY <2>1, <2>2 DEF LockAndObjectHeld
<1> QED
  BY <1>1, TrtInvariant, PTL

\* The task that owns the directory is the writer past write_wait_readers().
TrtOwned == \E t \in RwTasks : tpc[t] \in {"crit", "swap"}
TrtExclusion == INSTANCE RWExclusion
  WITH Readers <- RwTasks, holding <- holders, owned <- TrtOwned

\* The lock of the TRT runtimes implements the same exclusion specification as
\* the lock of threads: a task enters when its scheduler's word is not barred,
\* the writer when it has barred all words and seen the last holder leave.
THEOREM TrtRefinement == TSpec => TrtExclusion!Spec
<1>1. TInit => TrtExclusion!Init
  BY DEF TInit, TrtExclusion!Init, TrtOwned
<1>2. TInv /\ [TNext]_tvars => [TrtExclusion!Next]_(TrtExclusion!vars)
  <2> SUFFICES ASSUME TInv, [TNext]_tvars
               PROVE  TrtExclusion!Next \/ UNCHANGED <<holders, TrtOwned>>
    BY DEF TrtExclusion!vars
  <2>1. ASSUME NEW t \in RwTasks, Resume(t) \/ TaskStep(t)
        PROVE  TrtExclusion!Next \/ UNCHANGED <<holders, TrtOwned>>
    <3> USE DEF TInv
    <3>0. \A u \in RwTasks : u # t => tpc'[u] = tpc[u]
      BY <2>1, OnlyOneMoves DEF TTypeOK
    <3>1. CASE rd_try_lock(t) /\ OnSched[t] \notin barred
      <4>1. /\ t \notin holders /\ ~TrtOwned
            /\ holders' = holders \cup {t} /\ tpc[t] = "try" /\ tpc'[t] = "in"
        BY <3>1, RwlockTrtAssumption DEF rd_try_lock, TGoes, TTypeOK, Inside, TrtOwned
      <4>2. TrtOwned' = TrtOwned
        BY <3>0, <4>1 DEF TrtOwned
      <4>3. TrtExclusion!ReaderEnters(t)
        BY <4>1, <4>2 DEF TrtExclusion!ReaderEnters
      <4> QED
        BY <4>3 DEF TrtExclusion!Next
    <3>2. CASE rd_exit(t)
      <4>1. /\ t \in holders /\ holders' = holders \ {t}
            /\ tpc[t] \notin {"crit", "swap"} /\ tpc'[t] \notin {"crit", "swap"}
        BY <3>2 DEF rd_exit, TGoes, TTypeOK, Inside
      <4>2. TrtOwned' = TrtOwned
        BY <3>0, <4>1 DEF TrtOwned
      <4>3. TrtExclusion!ReaderLeaves(t)
        BY <4>1, <4>2 DEF TrtExclusion!ReaderLeaves
      <4> QED
        BY <4>3 DEF TrtExclusion!Next
    <3>3. CASE write_wait_readers(t)
      <4>1. /\ holders = {} /\ holders' = holders
            /\ tpc[t] = "drain" /\ tpc'[t] = "crit"
        BY <3>3 DEF write_wait_readers, TGoes, TTypeOK
      <4>2. ~TrtOwned /\ TrtOwned'
        BY <4>1 DEF TrtOwned, OneWriter, Writing, Writes
      <4>3. TrtExclusion!WriterOwns
        BY <4>1, <4>2 DEF TrtExclusion!WriterOwns
      <4> QED
        BY <4>3 DEF TrtExclusion!Next
    <3>4. CASE write_exit(t)
      <4>1. holders' = holders /\ tpc[t] = "swap" /\ tpc'[t] = "unbar"
        BY <3>4 DEF write_exit, TGoes, TTypeOK
      <4>2. TrtOwned /\ ~TrtOwned'
        BY <3>0, <4>1 DEF TrtOwned, OneWriter, Writing, Writes
      <4>3. TrtExclusion!WriterLeaves
        BY <4>1, <4>2 DEF TrtExclusion!WriterLeaves
      <4> QED
        BY <4>3 DEF TrtExclusion!Next
    <3>5. CASE /\ holders' = holders
               /\ tpc[t] \in {"crit", "swap"} <=> tpc'[t] \in {"crit", "swap"}
      <4>1. TrtOwned' = TrtOwned
        BY <3>0, <3>5 DEF TrtOwned
      <4> QED
        BY <3>5, <4>1
    <3> USE DEF TTypeOK, TGoes
    <3>6. CASE \/ Resume(t) \/ (rd_try_lock(t) /\ OnSched[t] \in barred)
               \/ rd_subscribe(t) \/ rd_wait(t) \/ SuspendInside(t)
      BY <3>5, <3>6 DEF Resume, rd_try_lock, rd_subscribe, rd_wait, SuspendInside
    <3>7. CASE GrowLock(t) \/ write_enter(t) \/ wr_enter(t) \/ Install(t)
      BY <3>5, <3>7 DEF GrowLock, write_enter, wr_enter, Install
    <3>8. CASE wr_exit(t) \/ set_ready(t) \/ unsubscribe_(t)
      BY <3>5, <3>8 DEF wr_exit, set_ready, unsubscribe_
    <3>9. CASE rd_register(t) \/ notify_(t) \/ GrowUnlock(t)
      BY <3>5, <3>9 DEF rd_register, notify_, GrowUnlock
    <3> QED
      BY <2>1, <3>1, <3>2, <3>3, <3>4, <3>6, <3>7, <3>8, <3>9 DEF TaskStep
  <2>2. CASE UNCHANGED tvars
    BY <2>2 DEF tvars, TrtOwned
  <2> QED
    BY <2>1, <2>2 DEF TNext, AllDone
<1> QED
  BY <1>1, <1>2, TrtInvariant, PTL DEF TSpec, TrtExclusion!Spec
=============================================================================
