----------------------- MODULE RwlockPagefaultProofs -----------------------
(***************************************************************************)
(* The directory lock excludes readers from grow()'s critical section, for *)
(* any number of threads and sub-locks and any thread-id assignment.       *)
(* IInv adds to the exclusion what it rests on: what each sub-lock's word  *)
(* counts, and that a sub-lock wr_ready() has passed stays empty.          *)
(***************************************************************************)
EXTENDS RwlockPagefault, FiniteSetTheorems, TLAPS

USE RwlockAssumption DEF Locks

\* Outside its loops the writer's index is back at the first sub-lock.
LoopsRestart == wpc \in {"out", "crit", "clear", "wake"} => widx = 0

IInv ==
  /\ TypeOK
  /\ LoopsRestart
  /\ WordsAccount
  /\ ScannedLocksAreEmpty
  /\ WriterExcludesReaders

-----------------------------------------------------------------------------

\* The initial state has every type, and every step keeps the types.
THEOREM TypeCorrect == Spec => []TypeOK
<1>1. Init => TypeOK
  BY DEF Init, TypeOK, ReaderPc, WriterPc
<1>2. TypeOK /\ [Next]_vars => TypeOK'
  <2> SUFFICES ASSUME TypeOK, [Next]_vars PROVE TypeOK'
    OBVIOUS
  <2> USE DEF TypeOK, ReaderPc, WriterPc, ReaderGoes, NextLock
  <2>1. ASSUME NEW r \in Readers, RdEnter(r) \/ RdTryLoad(r) PROVE TypeOK'
    BY <2>1 DEF RdEnter, RdTryLoad
  <2>2. ASSUME NEW r \in Readers, RdTrySub(r) PROVE TypeOK'
    <3>1. Tid[r] \in Locks /\ rwlock[Tid[r]] - 1 \in Int
      OBVIOUS
    <3>2. rwlock' \in [Locks -> Int]
      BY <2>2, <3>1 DEF RdTrySub
    <3> QED
      BY <2>2, <3>2 DEF RdTrySub
  <2>3. ASSUME NEW r \in Readers, RdTryUndo(r) \/ RdExit(r) PROVE TypeOK'
    <3>1. Tid[r] \in Locks /\ rwlock[Tid[r]] + 1 \in Int
      OBVIOUS
    <3>2. rwlock' \in [Locks -> Int]
      <4>1. rwlock' = [rwlock EXCEPT ![Tid[r]] = rwlock[Tid[r]] + 1]
        BY <2>3 DEF RdTryUndo, RdExit
      <4> QED
        BY <3>1, <4>1
    <3>3. CASE RdTryUndo(r)
      BY <3>3, <3>2 DEF RdTryUndo
    <3>4. CASE RdExit(r)
      BY <3>4, <3>2 DEF RdExit
    <3> QED
      BY <2>3, <3>3, <3>4
  <2>4. ASSUME NEW r \in Readers, ReaderWaitForWriter(r) PROVE TypeOK'
    BY <2>4 DEF ReaderWaitForWriter
  <2>11. ASSUME NEW r \in Readers, FutexInterrupted(r) PROVE TypeOK'
    BY <2>11 DEF FutexInterrupted
  <2>5. CASE WriteEnter
    BY <2>5 DEF WriteEnter
  <2>6. CASE WrEnterLock
    BY <2>6 DEF WrEnterLock
  <2>7. CASE WrReadyLock
    BY <2>7 DEF WrReadyLock
  <2>8. CASE WriteExit \/ WrClear \/ FutexWake
    BY <2>8 DEF WriteExit, WrClear, FutexWake
  <2>9. CASE WrExitLock
    BY <2>9 DEF WrExitLock
  <2>10. CASE UNCHANGED vars
    BY <2>10 DEF vars
  <2> QED
    BY <2>1, <2>2, <2>3, <2>4, <2>5, <2>6, <2>7, <2>8, <2>9, <2>10, <2>11
    DEF Next, ReaderSteps, WriterSteps
<1> QED
  BY <1>1, <1>2, PTL DEF Spec

-----------------------------------------------------------------------------

\* What a sub-lock's readers have taken off its word is a finite number.
LEMMA TakersFinite ==
  ASSUME NEW l \in Locks
  PROVE  /\ IsFiniteSet(Takers(l))
         /\ Cardinality(Takers(l)) \in Nat
<1>1. Takers(l) \subseteq Readers
  BY DEF Takers
<1>2. IsFiniteSet(Takers(l))
  BY <1>1, FS_Subset
<1> QED
  BY <1>2, FS_CardinalityType

\* A step of reader r that leaves it a taker, or leaves it none, changes no
\* sub-lock's set of takers.
LEMMA TakersSame ==
  ASSUME TypeOK, NEW r \in Readers, NEW to \in ReaderPc,
         rpc' = [rpc EXCEPT ![r] = to],
         rpc[r] \in {"in", "undo"} <=> to \in {"in", "undo"},
         NEW l \in Locks
  PROVE  Takers(l)' = Takers(l)
BY DEF TypeOK, Takers

\* A step that makes reader r a taker adds 1 to its sub-lock's takers only.
LEMMA TakersPlus ==
  ASSUME TypeOK, NEW r \in Readers, NEW to \in {"in", "undo"},
         rpc' = [rpc EXCEPT ![r] = to],
         rpc[r] \notin {"in", "undo"},
         NEW l \in Locks
  PROVE  Cardinality(Takers(l)') =
           Cardinality(Takers(l)) + (IF l = Tid[r] THEN 1 ELSE 0)
<1>0. IsFiniteSet(Takers(l)) /\ Cardinality(Takers(l)) \in Nat
  BY TakersFinite
<1>1. CASE l = Tid[r]
  <2>1. Takers(l)' = Takers(l) \cup {r} /\ r \notin Takers(l)
    BY <1>1 DEF TypeOK, Takers
  <2>2. Cardinality(Takers(l)') = Cardinality(Takers(l)) + 1
    BY <1>0, <2>1, FS_AddElement
  <2> QED
    BY <1>1, <2>1, <2>2
<1>2. CASE l # Tid[r]
  <2>1. Takers(l)' = Takers(l)
    BY <1>2 DEF TypeOK, Takers
  <2> QED
    BY <1>0, <1>2, <2>1
<1> QED
  BY <1>1, <1>2

\* A step that makes taker r none takes 1 off its sub-lock's takers only.
LEMMA TakersMinus ==
  ASSUME TypeOK, NEW r \in Readers, NEW to \in ReaderPc \ {"in", "undo"},
         rpc' = [rpc EXCEPT ![r] = to],
         rpc[r] \in {"in", "undo"},
         NEW l \in Locks
  PROVE  Cardinality(Takers(l)') =
           Cardinality(Takers(l)) - (IF l = Tid[r] THEN 1 ELSE 0)
<1>0. IsFiniteSet(Takers(l)) /\ Cardinality(Takers(l)) \in Nat
  BY TakersFinite
<1>1. CASE l = Tid[r]
  <2>1. Takers(l)' = Takers(l) \ {r} /\ r \in Takers(l)
    BY <1>1 DEF TypeOK, Takers
  <2>2. Cardinality(Takers(l) \ {r}) = Cardinality(Takers(l)) - 1
    BY <1>0, <2>1, FS_RemoveElement, Zenon
  <2> QED
    BY <1>1, <2>1, <2>2
<1>2. CASE l # Tid[r]
  <2>1. Takers(l)' = Takers(l)
    BY <1>2 DEF TypeOK, Takers
  <2> QED
    BY <1>0, <1>2, <2>1
<1> QED
  BY <1>1, <1>2

\* A biased sub-lock whose word is 0 has no reader inside.
LEMMA ZeroMeansEmpty ==
  ASSUME TypeOK, WordsAccount, NEW l \in Locks, Biased(l), rwlock[l] = 0,
         NEW r \in Readers, Tid[r] = l
  PROVE  rpc[r] # "in"
<1>1. Cardinality(Takers(l)) = 0
  BY TakersFinite DEF WordsAccount
<1>2. Takers(l) = {}
  BY <1>1, TakersFinite, FS_EmptySet
<1> QED
  BY <1>2 DEF Takers

\* The word of a biased sub-lock is never positive, so no reader enters it.
LEMMA BiasedNotPositive ==
  ASSUME TypeOK, WordsAccount, NEW l \in Locks, Biased(l)
  PROVE  ~(rwlock[l] > 0)
BY TakersFinite DEF WordsAccount, TypeOK

-----------------------------------------------------------------------------

\* A reader's step keeps the accounts: it moves the word of its own sub-lock
\* by exactly what it adds to or takes off the sub-lock's takers.
LEMMA ReaderKeepsAccounts ==
  ASSUME TypeOK, WordsAccount, NEW r \in Readers,
         RdEnter(r) \/ ReaderSteps(r) \/ FutexInterrupted(r)
  PROVE  WordsAccount'
<1> SUFFICES ASSUME NEW l \in Locks
             PROVE  rwlock'[l] = (IF Biased(l) THEN 0 ELSE Bias)
                                   - Cardinality(Takers(l)')
  <2>1. UNCHANGED <<wpc, widx>>
    BY DEF ReaderSteps, RdEnter, RdTryLoad, RdTrySub, RdTryUndo,
           ReaderWaitForWriter, FutexInterrupted, RdExit
  <2>2. \A l \in Locks : Biased(l)' <=> Biased(l)
    BY <2>1 DEF Biased
  <2> QED
    BY <2>2 DEF WordsAccount
<1>0. /\ Tid[r] \in Locks
      /\ rwlock[l] \in Int
      /\ rwlock[l] = (IF Biased(l) THEN 0 ELSE Bias) - Cardinality(Takers(l))
      /\ Cardinality(Takers(l)) \in Nat
  BY TakersFinite DEF TypeOK, WordsAccount
<1>1. CASE RdTrySub(r)
  <2>1. PICK to \in {"in", "undo"} : rpc' = [rpc EXCEPT ![r] = to]
    BY <1>1 DEF RdTrySub, ReaderGoes
  <2>2. Cardinality(Takers(l)') =
          Cardinality(Takers(l)) + (IF l = Tid[r] THEN 1 ELSE 0)
    BY <1>1, <2>1, TakersPlus DEF RdTrySub, ReaderGoes
  <2>3. rwlock'[l] = rwlock[l] - (IF l = Tid[r] THEN 1 ELSE 0)
    BY <1>1, <1>0 DEF RdTrySub, TypeOK
  <2> QED
    BY <1>0, <2>2, <2>3
<1>2. CASE RdTryUndo(r) \/ RdExit(r)
  <2>1. PICK to \in ReaderPc \ {"in", "undo"} : rpc' = [rpc EXCEPT ![r] = to]
    BY <1>2 DEF RdTryUndo, RdExit, ReaderGoes, ReaderPc
  <2>2. Cardinality(Takers(l)') =
          Cardinality(Takers(l)) - (IF l = Tid[r] THEN 1 ELSE 0)
    BY <1>2, <2>1, TakersMinus DEF RdTryUndo, RdExit, ReaderGoes
  <2>3. rwlock' = [rwlock EXCEPT ![Tid[r]] = rwlock[Tid[r]] + 1]
    BY <1>2 DEF RdTryUndo, RdExit
  <2>4. rwlock'[l] = rwlock[l] + (IF l = Tid[r] THEN 1 ELSE 0)
    BY <2>3, <1>0 DEF TypeOK
  <2> QED
    BY <1>0, <2>2, <2>4
<1>3. CASE RdEnter(r) \/ RdTryLoad(r) \/ ReaderWaitForWriter(r) \/ FutexInterrupted(r)
  <2>1. PICK to \in ReaderPc \ {"in", "undo"} : rpc' = [rpc EXCEPT ![r] = to]
    BY <1>3 DEF RdEnter, RdTryLoad, ReaderWaitForWriter, FutexInterrupted,
                ReaderGoes, ReaderPc
  <2>2. rpc[r] \notin {"in", "undo"} /\ UNCHANGED rwlock
    BY <1>3 DEF RdEnter, RdTryLoad, ReaderWaitForWriter, FutexInterrupted, ReaderGoes
  <2>3. Takers(l)' = Takers(l)
    BY <2>1, <2>2, TakersSame
  <2> QED
    BY <1>0, <2>2, <2>3
<1> QED
  BY <1>1, <1>2, <1>3 DEF ReaderSteps

\* A writer's step keeps the accounts: it moves a sub-lock's word by Bias
\* exactly when it moves the sub-lock in or out of the biased ones.
LEMMA WriterKeepsAccounts ==
  ASSUME TypeOK, LoopsRestart, WordsAccount, WriteEnter \/ WriterSteps
  PROVE  WordsAccount'
<1> SUFFICES ASSUME NEW l \in Locks
             PROVE  rwlock'[l] = (IF Biased(l)' THEN 0 ELSE Bias)
                                   - Cardinality(Takers(l)')
  BY DEF WordsAccount
<1>0. /\ rwlock[l] \in Int
      /\ rwlock[l] = (IF Biased(l) THEN 0 ELSE Bias) - Cardinality(Takers(l))
      /\ Cardinality(Takers(l)) \in Nat
      /\ widx \in Locks /\ LocksNr \in Nat /\ Bias \in Nat /\ l \in Int
  BY TakersFinite DEF TypeOK, WordsAccount
<1>1. Takers(l)' = Takers(l)
  BY DEF WriterSteps, WriteEnter, WrEnterLock, WrReadyLock, WriteExit, WrExitLock,
         WrClear, FutexWake, Takers, TypeOK
<1>2. CASE WrEnterLock
  <2>1. rwlock'[l] = IF l = widx THEN rwlock[l] - Bias ELSE rwlock[l]
    BY <1>2, <1>0 DEF WrEnterLock, TypeOK
  <2>2. Biased(l)' <=> (Biased(l) \/ l = widx)
    BY <1>2, <1>0 DEF WrEnterLock, NextLock, Biased
  <2>3. l = widx => ~Biased(l)
    BY <1>2, <1>0 DEF WrEnterLock, Biased
  <2> QED
    BY <1>0, <1>1, <2>1, <2>2, <2>3
<1>3. CASE WrExitLock
  <2>1. rwlock'[l] = IF l = widx THEN rwlock[l] + Bias ELSE rwlock[l]
    BY <1>3, <1>0 DEF WrExitLock, TypeOK
  <2>2. Biased(l)' <=> (Biased(l) /\ l # widx)
    BY <1>3, <1>0 DEF WrExitLock, NextLock, Biased
  <2>3. l = widx => Biased(l)
    BY <1>3, <1>0 DEF WrExitLock, Biased
  <2> QED
    BY <1>0, <1>1, <2>1, <2>2, <2>3
<1>4. CASE WriteEnter \/ WrReadyLock \/ WriteExit \/ WrClear \/ FutexWake
  <2>1. rwlock' = rwlock
    BY <1>4 DEF WriteEnter, WrReadyLock, WriteExit, WrClear, FutexWake
  <2>2. Biased(l)' <=> Biased(l)
    BY <1>4, <1>0
    DEF LoopsRestart, WriteEnter, WrReadyLock, WriteExit, WrClear, FutexWake, NextLock, Biased
  <2> QED
    BY <1>0, <1>1, <2>1, <2>2
<1> QED
  BY <1>2, <1>3, <1>4 DEF WriterSteps

-----------------------------------------------------------------------------

\* IInv holds initially and every step of a reader or of the writer keeps it.
THEOREM InductiveInvariant == Spec => []IInv
<1>1. Init => IInv
  <2> SUFFICES ASSUME Init PROVE IInv
    OBVIOUS
  <2>1. \A l \in Locks : Takers(l) = {} /\ ~Biased(l)
    BY DEF Init, Takers, Biased
  <2>2. WordsAccount
    <3>1. \A l \in Locks : Cardinality(Takers(l)) = 0
      BY <2>1, FS_EmptySet
    <3> QED
      BY <2>1, <3>1 DEF Init, WordsAccount
  <2> QED
    BY <2>2 DEF Init, IInv, TypeOK, LoopsRestart, ScannedLocksAreEmpty, WriterExcludesReaders,
                ReaderPc, WriterPc
<1>2. IInv /\ TypeOK' /\ [Next]_vars => IInv'
  <2> SUFFICES ASSUME IInv, TypeOK', [Next]_vars PROVE IInv'
    OBVIOUS
  <2> USE DEF IInv
  <2>1. ASSUME NEW r \in Readers, RdEnter(r) \/ ReaderSteps(r) \/ FutexInterrupted(r)
        PROVE IInv'
    <3>1. WordsAccount'
      BY <2>1, ReaderKeepsAccounts
    <3>2. UNCHANGED <<wpc, widx>>
      BY <2>1 DEF ReaderSteps, RdEnter, RdTryLoad, RdTrySub, RdTryUndo,
                  ReaderWaitForWriter, FutexInterrupted, RdExit
    <3>3. ASSUME NEW q \in Readers, rpc'[q] = "in", rpc[q] # "in"
          PROVE  ~Biased(Tid[q])
      <4>1. q = r /\ RdTrySub(r) /\ rwlock[Tid[q]] > 0
        BY <2>1, <3>3 DEF ReaderSteps, RdEnter, RdTryLoad, RdTrySub, RdTryUndo,
             ReaderWaitForWriter, FutexInterrupted, RdExit, ReaderGoes, TypeOK
      <4> QED
        BY <4>1, BiasedNotPositive
    <3>4. ScannedLocksAreEmpty' /\ WriterExcludesReaders'
      BY <3>2, <3>3 DEF ScannedLocksAreEmpty, WriterExcludesReaders, Biased
    <3> QED
      BY <3>1, <3>2, <3>4 DEF LoopsRestart
  <2>2. ASSUME WriteEnter \/ WriterSteps
        PROVE  IInv'
    <3>1. WordsAccount'
      BY <2>2, WriterKeepsAccounts
    <3>2. LoopsRestart'
      BY <2>2 DEF WriterSteps, WriteEnter, WrEnterLock, WrReadyLock, WriteExit, WrExitLock,
                  WrClear, FutexWake, NextLock, LoopsRestart, TypeOK
    <3>3. CASE WrReadyLock
      <4>1. rwlock[widx] = 0 => \A r \in Readers : Tid[r] = widx => rpc[r] # "in"
        BY <3>3, ZeroMeansEmpty DEF WrReadyLock, Biased, TypeOK
      <4>2. UNCHANGED rpc /\ wpc = "wait"
        BY <3>3 DEF WrReadyLock
      <4>3. CASE rwlock[widx] = 0
        <5>1. \A r \in Readers : Tid[r] < widx + 1 => rpc[r] # "in"
          BY <4>1, <4>2, <4>3 DEF ScannedLocksAreEmpty, TypeOK
        <5>2. CASE widx + 1 < LocksNr
          BY <3>1, <3>2, <3>3, <4>2, <4>3, <5>1, <5>2
          DEF WrReadyLock, NextLock, ScannedLocksAreEmpty, WriterExcludesReaders
        <5>3. CASE ~(widx + 1 < LocksNr)
          <6>1. \A r \in Readers : Tid[r] < widx + 1
            BY <5>3 DEF TypeOK
          <6> QED
            BY <3>1, <3>2, <3>3, <4>2, <4>3, <5>1, <5>3, <6>1
            DEF WrReadyLock, NextLock, ScannedLocksAreEmpty, WriterExcludesReaders
        <5> QED
          BY <5>2, <5>3
      <4>4. CASE rwlock[widx] # 0
        BY <3>1, <3>2, <3>3, <4>2, <4>4
        DEF WrReadyLock, ScannedLocksAreEmpty, WriterExcludesReaders
      <4> QED
        BY <4>3, <4>4
    <3>4. CASE WriteEnter \/ WrEnterLock \/ WriteExit \/ WrExitLock \/ WrClear \/ FutexWake
      <4>1. /\ wpc' # "crit"
            /\ wpc' = "wait" => widx' = 0
        BY <3>4 DEF WriteEnter, WrEnterLock, WriteExit, WrExitLock, WrClear, FutexWake,
                    NextLock
      <4>2. \A r \in Readers : Tid[r] \in Nat
        OBVIOUS
      <4>3. ScannedLocksAreEmpty' /\ WriterExcludesReaders'
        BY <4>1, <4>2 DEF ScannedLocksAreEmpty, WriterExcludesReaders
      <4> QED
        BY <3>1, <3>2, <4>3
    <3> QED
      BY <2>2, <3>3, <3>4 DEF WriterSteps
  <2>3. CASE UNCHANGED vars
    BY <2>3 DEF vars, TypeOK, LoopsRestart, WordsAccount, Takers, Biased, ScannedLocksAreEmpty,
                WriterExcludesReaders
  <2> QED
    BY <2>1, <2>2, <2>3 DEF Next
<1> QED
  BY <1>1, <1>2, TypeCorrect, PTL DEF Spec

\* The writer of the directory lock excludes its readers, for every number of
\* threads, sub-locks and writes: grow() may unmap the old tables.
THEOREM WriterExclusion == Spec => []WriterExcludesReaders
BY InductiveInvariant, PTL DEF IInv

\* Once write_enter() has announced the writer, no further reader gets in.
THEOREM EntryClosed == Spec => NoEntryOnceAnnounced
<1>1. IInv /\ [Next]_vars =>
        [(wpc \in {"wait", "crit"} /\ wpc' \in {"wait", "crit"})
           => (\A r \in Readers : rpc'[r] = "in" => rpc[r] = "in")]_vars
  <2> SUFFICES ASSUME IInv, Next, wpc \in {"wait", "crit"},
                      NEW q \in Readers, rpc'[q] = "in"
               PROVE  rpc[q] = "in"
    BY DEF vars
  <2> USE DEF IInv
  <2>1. ASSUME NEW r \in Readers, RdEnter(r) \/ ReaderSteps(r) \/ FutexInterrupted(r)
        PROVE  rpc[q] = "in"
    <3>1. rpc[q] = "in" \/ (q = r /\ RdTrySub(r) /\ rwlock[Tid[q]] > 0)
      BY <2>1 DEF ReaderSteps, RdEnter, RdTryLoad, RdTrySub, RdTryUndo,
           ReaderWaitForWriter, FutexInterrupted, RdExit, ReaderGoes, TypeOK
    <3> QED
      BY <3>1, BiasedNotPositive DEF Biased
  <2>2. ASSUME WriteEnter \/ WriterSteps
        PROVE  rpc[q] = "in"
    BY <2>2 DEF WriterSteps, WriteEnter, WrEnterLock, WrReadyLock, WriteExit, WrExitLock,
                WrClear, FutexWake, TypeOK
  <2> QED
    BY <2>1, <2>2 DEF Next
<1> QED
  BY <1>1, InductiveInvariant, PTL DEF Spec, NoEntryOnceAnnounced

\* The lock of sub-locks implements the exclusion specification: a reader
\* enters at its fetch_sub, the writer at the last sub-lock it finds at 0.
THEOREM Refinement == Spec => ImplementsExclusion
<1> DEFINE Holding == {r \in Readers : rpc[r] = "in"}
           Owned == wpc = "crit"
<1>1. Init => Exclusion!Init
  BY DEF Init, Exclusion!Init
<1>2. IInv /\ IInv' /\ [Next]_vars => [Exclusion!Next]_(Exclusion!vars)
  <2> SUFFICES ASSUME IInv, IInv', Next
               PROVE  Exclusion!Next \/ UNCHANGED <<Holding, Owned>>
    BY DEF vars, Exclusion!vars
  <2> USE DEF IInv
  <2>1. ASSUME NEW r \in Readers, RdTrySub(r), rpc'[r] = "in"
        PROVE  Exclusion!Next
    <3>1. rwlock[Tid[r]] > 0 /\ wpc' = wpc /\ rpc[r] = "sub"
      BY <2>1 DEF RdTrySub, ReaderGoes, TypeOK
    <3>2. wpc # "crit"
      BY <3>1, BiasedNotPositive DEF Biased
    <3>3. Holding' = Holding \cup {r}
      BY <2>1 DEF RdTrySub, ReaderGoes, TypeOK
    <3>4. Exclusion!ReaderEnters(r)
      BY <3>1, <3>2, <3>3 DEF Exclusion!ReaderEnters
    <3> QED
      BY <3>4 DEF Exclusion!Next
  <2>2. ASSUME NEW r \in Readers, RdExit(r)
        PROVE  Exclusion!Next
    <3>1. Holding' = Holding \ {r} /\ r \in Holding /\ wpc' = wpc
      BY <2>2 DEF RdExit, ReaderGoes, TypeOK
    <3>2. Exclusion!ReaderLeaves(r)
      BY <3>1 DEF Exclusion!ReaderLeaves
    <3> QED
      BY <3>2 DEF Exclusion!Next
  <2>3. ASSUME NEW r \in Readers,
               \/ RdEnter(r) \/ RdTryLoad(r) \/ RdTryUndo(r)
               \/ ReaderWaitForWriter(r) \/ FutexInterrupted(r)
               \/ RdTrySub(r) /\ rpc'[r] # "in"
        PROVE  UNCHANGED <<Holding, Owned>>
    <3>1. wpc' = wpc
      BY <2>3 DEF RdEnter, RdTryLoad, RdTryUndo, ReaderWaitForWriter, FutexInterrupted, RdTrySub
    <3>2. PICK to \in ReaderPc \ {"in"} : rpc' = [rpc EXCEPT ![r] = to]
      BY <2>3 DEF RdEnter, RdTryLoad, RdTryUndo, ReaderWaitForWriter, FutexInterrupted,
                  RdTrySub, ReaderGoes, ReaderPc, TypeOK
    <3>3. rpc[r] # "in"
      BY <2>3 DEF RdEnter, RdTryLoad, RdTryUndo, ReaderWaitForWriter, FutexInterrupted,
                  RdTrySub, ReaderGoes
    <3>4. Holding' = Holding
      BY <3>2, <3>3 DEF TypeOK
    <3> QED
      BY <3>1, <3>4
  <2>4. ASSUME WriteEnter \/ WriterSteps
        PROVE  Exclusion!Next \/ UNCHANGED <<Holding, Owned>>
    <3>1. Holding' = Holding
      BY <2>4 DEF WriterSteps, WriteEnter, WrEnterLock, WrReadyLock, WriteExit, WrExitLock,
                  WrClear, FutexWake, TypeOK
    <3>2. CASE wpc # "crit" /\ wpc' = "crit"
      <4>1. Holding = {}
        BY <3>1, <3>2 DEF WriterExcludesReaders
      <4>2. Exclusion!WriterOwns
        BY <3>1, <3>2, <4>1 DEF Exclusion!WriterOwns
      <4> QED
        BY <4>2 DEF Exclusion!Next
    <3>3. CASE wpc = "crit" /\ wpc' # "crit"
      <4>1. Exclusion!WriterLeaves
        BY <3>1, <3>3 DEF Exclusion!WriterLeaves
      <4> QED
        BY <4>1 DEF Exclusion!Next
    <3>4. CASE wpc = "crit" <=> wpc' = "crit"
      BY <3>1, <3>4
    <3> QED
      BY <3>2, <3>3, <3>4
  <2> QED
    BY <2>1, <2>2, <2>3, <2>4 DEF Next, ReaderSteps
<1> QED
  BY <1>1, <1>2, InductiveInvariant, PTL
  DEF Spec, ImplementsExclusion, Exclusion!Spec
=============================================================================
