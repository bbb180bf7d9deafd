------------------------- MODULE SpdkDevicesProofs -------------------------
(***************************************************************************)
(* The slots of SpdkIOMgr: no slot is ever in two hands, for any number of *)
(* threads, of slots and of executions.  And the disk that the namespaces  *)
(* of a store make: an address has one place, the same in every thread and *)
(* in every execution, and no two addresses share one.                     *)
(***************************************************************************)
EXTENDS SpdkDevices, NumberLemmas, FiniteSetTheorems, TLAPS

-----------------------------------------------------------------------------
(* Sequences of different elements *)

Distinct(s) == \A i, j \in DOMAIN s : i # j => s[i] # s[j]

\* pop_back() of a sequence of different slots: the slot taken is in it no more.
LEMMA TakeLast ==
  ASSUME NEW s \in Seq(Nat), Distinct(s), s # <<>>
  PROVE  /\ Last(s) \in Range(s)
         /\ Front(s) \in Seq(Nat)
         /\ Distinct(Front(s))
         /\ Range(Front(s)) = Range(s) \ {Last(s)}
<1>1. PICK n \in Nat : /\ n = Len(s) /\ n >= 1 /\ DOMAIN s = 1 .. n
                     /\ Front(s) = SubSeq(s, 1, n - 1) /\ Last(s) = s[n]
  BY DEF Front, Last
<1>2. /\ Front(s) \in Seq(Nat) /\ DOMAIN Front(s) = 1 .. (n - 1)
      /\ \A i \in 1 .. (n - 1) : Front(s)[i] = s[i]
  BY <1>1
<1>3. /\ \A i \in 1 .. n : i = n \/ i \in 1 .. (n - 1)
      /\ \A i \in 1 .. (n - 1) : i \in 1 .. n /\ i # n
      /\ n \in 1 .. n
  BY <1>1
<1>4. Range(Front(s)) = {s[i] : i \in 1 .. (n - 1)} /\ Range(s) = {s[i] : i \in 1 .. n}
  BY <1>1, <1>2 DEF Range
<1>5. \A i \in 1 .. (n - 1) : s[i] # s[n]
  BY <1>1, <1>3 DEF Distinct
<1>6. Distinct(Front(s))
  BY <1>1, <1>2, <1>3 DEF Distinct
<1>7. Range(Front(s)) = Range(s) \ {s[n]} /\ s[n] \in Range(s)
  BY <1>3, <1>4, <1>5
<1> QED
  BY <1>1, <1>2, <1>6, <1>7

\* push_back() of a slot that is not in the sequence.
LEMMA PutBack ==
  ASSUME NEW s \in Seq(Nat), Distinct(s), NEW x \in Nat, x \notin Range(s)
  PROVE  /\ Append(s, x) \in Seq(Nat)
         /\ Distinct(Append(s, x))
         /\ Range(Append(s, x)) = Range(s) \cup {x}
<1>1. /\ Append(s, x) \in Seq(Nat) /\ Len(Append(s, x)) = Len(s) + 1 /\ Len(s) \in Nat
      /\ DOMAIN s = 1 .. Len(s) /\ DOMAIN Append(s, x) = 1 .. (Len(s) + 1)
      /\ Append(s, x)[Len(s) + 1] = x
      /\ \A i \in 1 .. Len(s) : Append(s, x)[i] = s[i]
  OBVIOUS
<1>2. \A i \in 1 .. (Len(s) + 1) : i = Len(s) + 1 \/ i \in 1 .. Len(s)
  BY <1>1
<1>3. \A i \in 1 .. Len(s) : s[i] # x
  BY <1>1 DEF Range
<1>4. Distinct(Append(s, x))
  BY <1>1, <1>2, <1>3 DEF Distinct
<1>5. Range(Append(s, x)) = Range(s) \cup {x}
  BY <1>1, <1>2 DEF Range
<1> QED
  BY <1>1, <1>4, <1>5

-----------------------------------------------------------------------------
(* The inductive invariant *)

IdsOK ==
  /\ ids = [free |-> ids.free, held |-> ids.held, lost |-> ids.lost]
  /\ ids.free \in Seq(Nat)
  /\ ids.held = [x \in DOMAIN ids.held |-> ids.held[x]]
  /\ Range(ids.held) \subseteq Nat

\* A slot that open() forgot is nobody's: otherwise the end of a thread would
\* make it free again.
LostForGood == Range(ids.held) \cap ids.lost = {}

SlotsInv == IdsOK /\ SlotsOwned /\ LostForGood

\* A user takes the last free slot, and forgets l, its own slot or none.
LEMMA Registers ==
  ASSUME SlotsInv, NEW u, NEW l, ids.free # <<>>,
         ids' = SdRegistered(u, ids, l),
         l = IF u \in DOMAIN ids.held THEN {ids.held[u]} ELSE {}
  PROVE  SlotsInv'
<1> DEFINE new == Last(ids.free)
           held == [x \in DOMAIN ids.held \cup {u} |-> IF x = u THEN new ELSE ids.held[x]]
<1>1. /\ ids.free \in Seq(Nat) /\ Distinct(ids.free)
  BY DEF SlotsInv, IdsOK, SlotsOwned, Distinct
<1>2. /\ new \in Range(ids.free) /\ Front(ids.free) \in Seq(Nat) /\ Distinct(Front(ids.free))
      /\ Range(Front(ids.free)) = Range(ids.free) \ {new}
  BY <1>1, TakeLast
<1>3. new \in Nat
  BY <1>1, <1>2 DEF Range
<1>4. /\ ids' = [free |-> ids'.free, held |-> ids'.held, lost |-> ids'.lost]
      /\ ids'.free = Front(ids.free) /\ ids'.held = held /\ ids'.lost = ids.lost \cup l
  BY DEF SdRegistered
<1>5. \A x \in DOMAIN held : held[x] = IF x = u THEN new ELSE ids.held[x]
  OBVIOUS
<1>6. \A x \in DOMAIN ids.held : ids.held[x] \in Range(ids.held)
  BY DEF Range
<1>7. \A x \in DOMAIN held : held[x] = new \/ (x # u /\ x \in DOMAIN ids.held /\ held[x] = ids.held[x])
  OBVIOUS
<1>8. new \notin Range(ids.held) /\ new \notin ids.lost
  BY <1>2 DEF SlotsInv, SlotsOwned
<1> HIDE DEF new
<1>9. Range(held) \subseteq Range(ids.held) \cup {new}
  <2> SUFFICES ASSUME NEW x \in DOMAIN held PROVE held[x] \in Range(ids.held) \cup {new}
    BY DEF Range
  <2> QED
    BY <1>6, <1>7
<1>10. \A x, y \in DOMAIN held : x # y => held[x] # held[y]
  BY <1>5, <1>6, <1>8 DEF SlotsInv, SlotsOwned
<1>11. Range(held) \cap l = {}
  <2> SUFFICES ASSUME NEW x \in DOMAIN held, u \in DOMAIN ids.held PROVE held[x] # ids.held[u]
    BY DEF Range
  <2> QED
    BY <1>6, <1>7, <1>8 DEF SlotsInv, SlotsOwned
<1>12. Range(Front(ids.free)) \cap l = {}
  BY <1>2, <1>6 DEF SlotsInv, SlotsOwned
<1> HIDE DEF held
<1>13. IdsOK'
  <2>1. held = [x \in DOMAIN held |-> held[x]]
    BY DEF held
  <2> QED
    BY <1>2, <1>3, <1>4, <1>9, <2>1 DEF SlotsInv, IdsOK
<1>14. SlotsOwned'
  <2>1. \A x, y \in DOMAIN ids'.held : x # y => ids'.held[x] # ids'.held[y]
    BY <1>4, <1>10
  <2>2. \A i, j \in DOMAIN ids'.free : i # j => ids'.free[i] # ids'.free[j]
    BY <1>2, <1>4 DEF Distinct
  <2>3. Range(ids'.free) \cap (Range(ids'.held) \cup ids'.lost) = {}
    BY <1>2, <1>4, <1>9, <1>12 DEF SlotsInv, SlotsOwned
  <2> QED
    BY <2>1, <2>2, <2>3 DEF SlotsOwned
<1>15. LostForGood'
  <2>1. Range(held) \cap ids.lost = {}
    BY <1>8, <1>9 DEF SlotsInv, LostForGood
  <2>2. Range(held) \cap (ids.lost \cup l) = {}
    BY <1>11, <2>1
  <2> QED
    BY <1>4, <2>2 DEF LostForGood
<1> QED
  BY <1>13, <1>14, <1>15 DEF SlotsInv

\* The end of a thread makes its slot free.
LEMMA Deregisters ==
  ASSUME SlotsInv, NEW u, deregister_user(u)
  PROVE  SlotsInv'
<1> DEFINE held == [x \in DOMAIN ids.held \ {u} |-> ids.held[x]]
           old == ids.held[u]
<1>1. /\ ids.free \in Seq(Nat) /\ Distinct(ids.free) /\ u \in DOMAIN ids.held
  BY DEF SlotsInv, IdsOK, SlotsOwned, Distinct, deregister_user
<1>2. \A x \in DOMAIN ids.held : ids.held[x] \in Range(ids.held)
  BY DEF Range
<1>3. old \in Nat /\ old \notin Range(ids.free) /\ old \notin ids.lost
  BY <1>1, <1>2 DEF SlotsInv, IdsOK, SlotsOwned, LostForGood
<1>4. /\ ids' = [free |-> ids'.free, held |-> ids'.held, lost |-> ids'.lost]
      /\ ids'.free = Append(ids.free, old) /\ ids'.held = held /\ ids'.lost = ids.lost
  BY DEF deregister_user, SlotsInv, IdsOK
<1>5. \A x \in DOMAIN held : x # u /\ x \in DOMAIN ids.held /\ held[x] = ids.held[x]
  OBVIOUS
<1>6. Range(held) \subseteq Range(ids.held) \ {old}
  <2> SUFFICES ASSUME NEW x \in DOMAIN held PROVE held[x] \in Range(ids.held) \ {old}
    BY DEF Range
  <2> QED
    BY <1>1, <1>2, <1>5 DEF SlotsInv, SlotsOwned
<1>7. \A x, y \in DOMAIN held : x # y => held[x] # held[y]
  BY <1>5 DEF SlotsInv, SlotsOwned
<1>8. held = [x \in DOMAIN held |-> held[x]]
  OBVIOUS
<1> HIDE DEF held, old
<1>9. /\ Append(ids.free, old) \in Seq(Nat) /\ Distinct(Append(ids.free, old))
      /\ Range(Append(ids.free, old)) = Range(ids.free) \cup {old}
  BY <1>1, <1>3, PutBack
<1>10. IdsOK'
  BY <1>4, <1>6, <1>8, <1>9 DEF SlotsInv, IdsOK
<1>11. SlotsOwned'
  BY <1>3, <1>4, <1>6, <1>7, <1>9 DEF SlotsInv, SlotsOwned, Distinct
<1>12. LostForGood'
  BY <1>4, <1>6 DEF SlotsInv, LostForGood
<1> QED
  BY <1>10, <1>11, <1>12 DEF SlotsInv

\* A new process has all slots, each once.
LEMMA NewIdsInv == ids = NewIds => SlotsInv
<1> SUFFICES ASSUME ids = NewIds PROVE SlotsInv
  OBVIOUS
<1>1. SdMaxQd \in Nat
  BY SpdkDevicesConstants
<1>2. /\ ids.free = [i \in 1 .. SdMaxQd |-> i - 1] /\ ids.held = <<>> /\ ids.lost = {}
      /\ ids = [free |-> ids.free, held |-> ids.held, lost |-> ids.lost]
  BY DEF NewIds
<1>3. ids.free \in Seq(Nat) /\ DOMAIN ids.free = 1 .. SdMaxQd
  BY <1>1, <1>2
<1>4. Range(ids.held) = {} /\ DOMAIN ids.held = {}
  BY <1>2 DEF Range
<1>5. ids.held = [x \in DOMAIN ids.held |-> ids.held[x]]
  BY <1>2
<1> QED
  BY <1>1, <1>2, <1>3, <1>4, <1>5 DEF SlotsInv, IdsOK, SlotsOwned, LostForGood

\* The invariant is inductive: only users, and the end of the process, change
\* the slots.
LEMMA NextSlotsInv == SlotsInv /\ [SdNext]_sdVars => SlotsInv'
<1> SUFFICES ASSUME SlotsInv, [SdNext]_sdVars PROVE SlotsInv'
  OBVIOUS
<1>1. CASE ids' = ids
  BY <1>1 DEF SlotsInv, IdsOK, SlotsOwned, LostForGood
<1>2. CASE SdRestart
  <2>1. (ids = NewIds => SlotsInv)'
    BY NewIdsInv, PTL
  <2>2. ids' = NewIds
    BY <1>2 DEF SdRestart
  <2>3. NewIds' = NewIds
    BY DEF NewIds
  <2> QED
    BY <2>1, <2>2, <2>3
<1>3. ASSUME NEW u \in SdUsers, SpdkIOThreadState_init(u) PROVE SlotsInv'
  <2>1. CASE ids.free = <<>>
    BY <1>1, <1>3, <2>1 DEF SpdkIOThreadState_init
  <2>2. CASE ids.free # <<>>
    <3>1. ids' = SdRegistered(u, ids, {}) /\ u \notin DOMAIN ids.held
      BY <1>3, <2>2 DEF SpdkIOThreadState_init
    <3>2. ids' = SdRegistered(u, ids, IF u \in DOMAIN ids.held THEN {ids.held[u]} ELSE {})
      BY <3>1
    <3> QED
      BY <2>2, <3>2, Registers
  <2> QED
    BY <2>1, <2>2
<1>4. ASSUME NEW u \in SdUsers, SpdkIO_open(u) PROVE SlotsInv'
  <2>1. CASE ids.free = <<>>
    BY <1>1, <1>4, <2>1 DEF SpdkIO_open
  <2>2. CASE ids.free # <<>>
    <3>1. ids' = SdRegistered(u, ids, {ids.held[u]}) /\ u \in DOMAIN ids.held
      BY <1>4, <2>2 DEF SpdkIO_open
    <3>2. ids' = SdRegistered(u, ids, IF u \in DOMAIN ids.held THEN {ids.held[u]} ELSE {})
      BY <3>1
    <3> QED
      BY <2>2, <3>2, Registers
  <2> QED
    BY <2>1, <2>2
<1>5. ASSUME NEW u \in SdUsers, deregister_user(u) PROVE SlotsInv'
  BY <1>5, Deregisters
<1>6. CASE SpdkGlobalState_init \/ UNCHANGED sdVars
  BY <1>1, <1>6 DEF SpdkGlobalState_init, sdVars
<1>7. ASSUME NEW t \in SdThreads,
             \/ SpdkThread_init(t) \/ spdk_io_scheduler_start(t) \/ initThreadState_if_needed(t)
             \/ setThreadQP_if_needed(t)
             \/ TrtSpdkArrayIO_open(t) \/ TrtSpdkIO_open(t) \/ SpdkThread_close(t) \/ SpdkThread_exit(t)
      PROVE  SlotsInv'
  BY <1>1, <1>7 DEF SpdkThread_init, spdk_io_scheduler_start, initThreadState_if_needed,
    setThreadQP_if_needed, SdFirstCall, TrtSpdkArrayIO_open, TrtSpdkIO_open, SpdkThread_close,
    SpdkThread_exit
<1> QED
  BY <1>2, <1>3, <1>4, <1>5, <1>6, <1>7 DEF SdNext

\* A slot of SpdkIOMgr is never in two hands: threads that come and go, and
\* the second slot that open() takes, never free a slot a thread still uses,
\* whatever the numbers of threads and slots.
THEOREM SlotsNeverShared == SdSpec => []SlotsOwned
<1>1. SdInit => SlotsInv
  BY NewIdsInv DEF SdInit
<1>2. SlotsInv => SlotsOwned
  BY DEF SlotsInv
<1> QED
  BY <1>1, <1>2, NextSlotsInv, PTL DEF SdSpec

-----------------------------------------------------------------------------
(* Orders: every thread walks the same namespaces *)

\* An order goes to every place.
LEMMA OrderOnto ==
  ASSUME NEW n \in Nat, NEW p \in Orders(n)
  PROVE  \A k \in 1 .. n : \E i \in 1 .. n : p[i] = k
<1>1. p \in Injection(1 .. n, 1 .. n)
  BY DEF Orders, Injection, IsInjective
<1>2. IsFiniteSet(1 .. n)
  BY FS_Interval
<1>3. p \in Surjection(1 .. n, 1 .. n)
  BY <1>1, <1>2, FS_Injection
<1> QED
  BY <1>3 DEF Surjection

Rising(s, p, m) == \A i, j \in 1 .. m : i < j => s[p[i]] <= s[p[j]]

\* Insertion of one more element.
LEMMA SortStep ==
  ASSUME NEW m \in Nat, NEW s, \A i \in 1 .. (m + 1) : s[i] \in Nat,
         NEW p \in Orders(m), Rising(s, p, m)
  PROVE  \E q \in Orders(m + 1) : Rising(s, q, m + 1)
<1> DEFINE v == s[m + 1]
           K == {k \in 0 .. m : \A i \in (k + 1) .. m : s[p[i]] > v}
<1>1. p \in [1 .. m -> 1 .. m] /\ \A i, j \in 1 .. m : p[i] = p[j] => i = j
  BY DEF Orders
<1>2. v \in Nat /\ \A i \in 1 .. m : s[p[i]] \in Nat /\ p[i] \in 1 .. m
  <2>1. m + 1 \in 1 .. (m + 1) /\ \A x \in 1 .. m : x \in 1 .. (m + 1)
    OBVIOUS
  <2>2. \A i \in 1 .. m : p[i] \in 1 .. m
    BY <1>1
  <2> QED
    BY <2>1, <2>2
<1>3. K \subseteq Nat /\ m \in K
  OBVIOUS
<1>4. PICK k \in K : \A y \in K : k <= y
  BY <1>3, LeastNat
<1>5. k \in 0 .. m /\ \A i \in (k + 1) .. m : s[p[i]] > v
  BY <1>4
<1>6. \A i \in 1 .. k : s[p[i]] <= v
  <2>1. CASE k = 0
    BY <2>1
  <2>2. CASE k # 0
    <3>1. k \in 1 .. m /\ k - 1 \in 0 .. m /\ k - 1 \notin K
      BY <1>4, <1>5, <2>2
    <3>2. PICK i \in k .. m : ~(s[p[i]] > v)
      BY <3>1
    <3>3. i = k
      BY <1>5, <3>1, <3>2
    <3>4. s[p[k]] <= v
      BY <1>2, <3>1, <3>2, <3>3
    <3>5. ASSUME NEW j \in 1 .. k PROVE s[p[j]] <= v
      <4>1. j \in 1 .. m /\ k \in 1 .. m /\ (j = k \/ j < k)
        BY <3>1
      <4>2. s[p[j]] <= s[p[k]]
        BY <1>2, <4>1 DEF Rising
      <4> QED
        BY <1>2, <3>4, <4>1, <4>2
    <3> QED
      BY <3>5
  <2> QED
    BY <2>1, <2>2
<1> DEFINE q == [i \in 1 .. (m + 1) |-> IF i <= k THEN p[i] ELSE IF i = k + 1 THEN m + 1 ELSE p[i - 1]]
<1>7. ASSUME NEW i \in 1 .. (m + 1)
      PROVE  \/ i <= k /\ i \in 1 .. m /\ i \in 1 .. k /\ q[i] = p[i]
             \/ i = k + 1 /\ q[i] = m + 1
             \/ i > k + 1 /\ i - 1 \in 1 .. m /\ i - 1 \in (k + 1) .. m /\ q[i] = p[i - 1]
  BY <1>5
<1>8. q \in [1 .. (m + 1) -> 1 .. (m + 1)]
  <2> SUFFICES ASSUME NEW i \in 1 .. (m + 1) PROVE q[i] \in 1 .. (m + 1)
    OBVIOUS
  <2>1. \A x \in 1 .. m : x \in 1 .. (m + 1)
    OBVIOUS
  <2>2. m + 1 \in 1 .. (m + 1)
    OBVIOUS
  <2> HIDE DEF q
  <2> QED
    BY <1>2, <1>7, <2>1, <2>2
<1>9. k \in Int /\ m \in Int /\ \A x \in 1 .. m : p[x] # m + 1
  BY <1>2, <1>5
<1> HIDE DEF q, v
<1>10. \A i, j \in 1 .. (m + 1) : q[i] = q[j] => i = j
  <2> SUFFICES ASSUME NEW i \in 1 .. (m + 1), NEW j \in 1 .. (m + 1), q[i] = q[j] PROVE i = j
    OBVIOUS
  <2>1. i \in Int /\ j \in Int
    OBVIOUS
  <2>2. CASE i <= k
    <3>1. i \in 1 .. m /\ q[i] = p[i] /\ p[i] # m + 1
      BY <1>7, <1>9, <2>1, <2>2
    <3>2. \/ j = k + 1 /\ q[j] = m + 1
          \/ j <= k /\ j \in 1 .. m /\ q[j] = p[j]
          \/ j > k + 1 /\ j - 1 \in 1 .. m /\ q[j] = p[j - 1]
      BY <1>7
    <3> QED
      BY <1>1, <1>9, <2>1, <2>2, <3>1, <3>2
  <2>3. CASE i = k + 1
    <3>1. q[i] = m + 1
      BY <1>7, <1>9, <2>1, <2>3
    <3> QED
      BY <1>7, <1>9, <2>1, <2>3, <3>1
  <2>4. CASE i > k + 1
    <3>1. i - 1 \in 1 .. m /\ q[i] = p[i - 1] /\ p[i - 1] # m + 1
      BY <1>7, <1>9, <2>1, <2>4
    <3>2. \/ j = k + 1 /\ q[j] = m + 1
          \/ j <= k /\ j \in 1 .. m /\ q[j] = p[j]
          \/ j > k + 1 /\ j - 1 \in 1 .. m /\ q[j] = p[j - 1]
      BY <1>7
    <3> QED
      BY <1>1, <1>9, <2>1, <2>4, <3>1, <3>2
  <2> QED
    BY <1>9, <2>1, <2>2, <2>3, <2>4
<1>11. q \in Orders(m + 1)
  BY <1>8, <1>10 DEF Orders
<1>12. Rising(s, q, m + 1)
  <2> SUFFICES ASSUME NEW i \in 1 .. (m + 1), NEW j \in 1 .. (m + 1), i < j PROVE s[q[i]] <= s[q[j]]
    BY DEF Rising
  <2>1. v = s[m + 1]
    BY DEF v
  <2>2. \A x, y \in 1 .. m : x < y => s[p[x]] <= s[p[y]]
    BY DEF Rising
  <2>3. i \in Int /\ j \in Int
    OBVIOUS
  <2>4. CASE i <= k
    <3>1. i \in 1 .. m /\ i \in 1 .. k /\ q[i] = p[i]
      BY <1>7, <1>9, <2>3, <2>4
    <3> QED
      BY <1>2, <1>5, <1>6, <1>7, <1>9, <2>1, <2>2, <2>3, <3>1
  <2>5. CASE i = k + 1
    <3>1. q[i] = m + 1
      BY <1>7, <1>9, <2>3, <2>5
    <3>2. j - 1 \in (k + 1) .. m /\ j - 1 \in 1 .. m /\ q[j] = p[j - 1]
      BY <1>7, <1>9, <2>3, <2>5
    <3>3. s[p[j - 1]] > v /\ s[p[j - 1]] \in Nat
      BY <1>2, <1>5, <3>2
    <3> QED
      BY <1>2, <2>1, <3>1, <3>2, <3>3
  <2>6. CASE i > k + 1
    <3>1. i - 1 \in 1 .. m /\ q[i] = p[i - 1]
      BY <1>7, <1>9, <2>3, <2>6
    <3>2. j - 1 \in 1 .. m /\ q[j] = p[j - 1]
      BY <1>7, <1>9, <2>3, <2>6
    <3> QED
      BY <2>2, <2>3, <3>1, <3>2
  <2> QED
    BY <1>9, <2>3, <2>4, <2>5, <2>6
<1> QED
  BY <1>11, <1>12

\* Numbers can be put in order.
LEMMA SortExists ==
  ASSUME NEW n \in Nat, NEW s, \A i \in 1 .. n : s[i] \in Nat
  PROVE  \E p \in Orders(n) : Rising(s, p, n)
<1> DEFINE Can(m) == \E p \in Orders(m) : Rising(s, p, m)
           T == {m \in 0 .. n : ~Can(m)}
<1>1. SUFFICES ASSUME T # {} PROVE FALSE
  OBVIOUS
<1>2. PICK m \in T : \A y \in T : m <= y
  <2>1. T \subseteq Nat
    OBVIOUS
  <2> QED
    BY <1>1, <2>1, LeastNat
<1>3. m \in 0 .. n /\ ~Can(m)
  BY <1>2
<1>4. m # 0
  <2>1. [i \in 1 .. 0 |-> 0] \in Orders(0) /\ Rising(s, [i \in 1 .. 0 |-> 0], 0)
    BY DEF Orders, Rising
  <2> QED
    BY <1>3, <2>1
<1>5. m - 1 \in Nat /\ m - 1 \in 0 .. n /\ m - 1 \notin T /\ (m - 1) + 1 = m
  BY <1>2, <1>3, <1>4
<1>6. PICK p \in Orders(m - 1) : Rising(s, p, m - 1)
  BY <1>5
<1>7. \A i \in 1 .. ((m - 1) + 1) : s[i] \in Nat
  BY <1>3, <1>5
<1>8. \E q \in Orders((m - 1) + 1) : Rising(s, q, (m - 1) + 1)
  BY <1>5, <1>6, <1>7, SortStep
<1> QED
  BY <1>3, <1>5, <1>8

\* Sorted() of a sequence of different numbers is one that rises and has the
\* same elements.
LEMMA SortedIs ==
  ASSUME NEW s \in Seq(Nat), Distinct(s)
  PROVE  /\ Sorted(s) \in Seq(Nat) /\ Len(Sorted(s)) = Len(s)
         /\ \A i, j \in 1 .. Len(s) : i < j => Sorted(s)[i] < Sorted(s)[j]
         /\ \A i \in 1 .. Len(s) : \E k \in 1 .. Len(s) : Sorted(s)[i] = s[k]
         /\ \A k \in 1 .. Len(s) : \E i \in 1 .. Len(s) : Sorted(s)[i] = s[k]
<1> DEFINE n == Len(s)
           p == CHOOSE p \in Orders(n) : \A i, j \in 1 .. n : i < j => s[p[i]] <= s[p[j]]
<1>1. n \in Nat /\ DOMAIN s = 1 .. n /\ \A i \in 1 .. n : s[i] \in Nat
  OBVIOUS
<1>2. \E q \in Orders(n) : \A i, j \in 1 .. n : i < j => s[q[i]] <= s[q[j]]
  BY <1>1, SortExists DEF Rising
<1>3. p \in Orders(n) /\ \A i, j \in 1 .. n : i < j => s[p[i]] <= s[p[j]]
  BY <1>2
<1>4. Sorted(s) = [i \in 1 .. n |-> s[p[i]]]
  BY <1>1 DEF Sorted
<1> HIDE DEF p
<1>5. p \in [1 .. n -> 1 .. n] /\ \A i, j \in 1 .. n : p[i] = p[j] => i = j
  BY <1>3 DEF Orders
<1>6. \A i \in 1 .. n : Sorted(s)[i] = s[p[i]] /\ p[i] \in 1 .. n /\ s[p[i]] \in Nat
  BY <1>1, <1>4, <1>5
<1>7. Sorted(s) \in Seq(Nat) /\ Len(Sorted(s)) = n
  BY <1>1, <1>4, <1>6
<1>8. ASSUME NEW i \in 1 .. n, NEW j \in 1 .. n, i < j PROVE Sorted(s)[i] < Sorted(s)[j]
  <2>1. s[p[i]] # s[p[j]]
    BY <1>1, <1>5, <1>6, <1>8 DEF Distinct
  <2>2. s[p[i]] <= s[p[j]]
    BY <1>3, <1>8
  <2>3. s[p[i]] \in Nat /\ s[p[j]] \in Nat /\ Sorted(s)[i] = s[p[i]] /\ Sorted(s)[j] = s[p[j]]
    BY <1>6
  <2> HIDE DEF n
  <2>4. \A x, y \in Nat : x <= y /\ x # y => x < y
    OBVIOUS
  <2> QED
    BY <2>1, <2>2, <2>3, <2>4
<1>9. \A k \in 1 .. n : \E i \in 1 .. n : Sorted(s)[i] = s[k]
  <2>1. \A k \in 1 .. n : \E i \in 1 .. n : p[i] = k
    BY <1>1, <1>3, OrderOnto
  <2> SUFFICES ASSUME NEW k \in 1 .. n PROVE \E i \in 1 .. n : Sorted(s)[i] = s[k]
    OBVIOUS
  <2>2. PICK i \in 1 .. n : p[i] = k
    BY <2>1
  <2>3. Sorted(s)[i] = s[k]
    BY <1>6, <2>2
  <2> QED
    BY <2>3
<1> QED
  BY <1>6, <1>7, <1>8, <1>9

\* Of two rising sequences with the same elements, neither has the smaller
\* element where they differ first.
LEMMA RisingNotBelow ==
  ASSUME NEW n \in Nat, NEW u \in [1 .. n -> Nat], NEW w \in [1 .. n -> Nat],
         \A i, j \in 1 .. n : i < j => u[i] < u[j], \A i, j \in 1 .. n : i < j => w[i] < w[j],
         \A i \in 1 .. n : \E k \in 1 .. n : u[i] = w[k],
         NEW i \in 1 .. n, \A j \in 1 .. n : j < i => u[j] = w[j]
  PROVE  ~(u[i] < w[i])
<1> SUFFICES ASSUME u[i] < w[i] PROVE FALSE
  OBVIOUS
<1>1. PICK k \in 1 .. n : u[i] = w[k]
  OBVIOUS
<1>2. u[i] \in Nat /\ w[i] \in Nat /\ w[k] \in Nat /\ u[k] \in Nat
  OBVIOUS
<1>3. CASE k < i
  BY <1>1, <1>2, <1>3
<1>4. CASE k = i
  BY <1>1, <1>2, <1>4
<1>5. CASE i < k
  BY <1>1, <1>2, <1>5
<1> QED
  BY <1>3, <1>4, <1>5

\* Two rising sequences of the same numbers are equal: a sorted list of names
\* does not tell in which order the hash table was walked.
LEMMA RisingUnique ==
  ASSUME NEW n \in Nat, NEW u \in [1 .. n -> Nat], NEW w \in [1 .. n -> Nat],
         \A i, j \in 1 .. n : i < j => u[i] < u[j], \A i, j \in 1 .. n : i < j => w[i] < w[j],
         \A i \in 1 .. n : \E k \in 1 .. n : u[i] = w[k],
         \A i \in 1 .. n : \E k \in 1 .. n : w[i] = u[k]
  PROVE  u = w
<1> DEFINE T == {i \in 1 .. n : u[i] # w[i]}
<1>1. SUFFICES ASSUME T # {} PROVE FALSE
  <2>1. ASSUME T = {} PROVE u = w
    <3>1. \A i \in 1 .. n : u[i] = w[i]
      BY <2>1
    <3> QED
      BY <3>1
  <2> QED
    BY <2>1
<1>2. T \subseteq Nat
  OBVIOUS
<1>3. PICK i \in T : \A y \in T : i <= y
  BY <1>1, <1>2, LeastNat
<1>4. i \in 1 .. n /\ \A j \in 1 .. n : j < i => u[j] = w[j]
  BY <1>3
<1>5. \A j \in 1 .. n : j < i => w[j] = u[j]
  BY <1>4
<1>6. ~(u[i] < w[i])
  BY <1>4, RisingNotBelow
<1>7. ~(w[i] < u[i])
  BY <1>4, <1>5, RisingNotBelow
<1>8. u[i] \in Nat /\ w[i] \in Nat /\ u[i] # w[i]
  BY <1>3
<1> QED
  BY <1>6, <1>7, <1>8

-----------------------------------------------------------------------------
(* Striping *)

\* Quotient and remainder.
LEMMA DivMod ==
  ASSUME NEW a \in Nat, NEW b \in Nat \ {0}
  PROVE  a \div b \in Nat /\ a % b \in 0 .. (b - 1) /\ a = (a \div b) * b + (a % b)
OBVIOUS

\* The next multiple is b further.
LEMMA NextMultiple ==
  ASSUME NEW b \in Nat, NEW x \in Nat, NEW y \in Nat, x < y
  PROVE  x * b + b <= y * b
<1>1. PICK d \in Nat : y = x + 1 + d
  <2>1. y - x - 1 \in Nat /\ y = x + 1 + (y - x - 1)
    OBVIOUS
  <2> QED
    BY <2>1
<1>2. y * b = x * b + b + d * b
  BY <1>1
<1>3. d * b \in Nat /\ x * b \in Nat
  BY <1>1
<1> QED
  BY <1>2, <1>3

\* Quotient and remainder are determined.
LEMMA DivUnique ==
  ASSUME NEW b \in Nat \ {0}, NEW x \in Nat, NEW y \in Nat, NEW r \in 0 .. (b - 1), NEW u \in 0 .. (b - 1),
         x * b + r = y * b + u
  PROVE  x = y /\ r = u
<1>1. x * b \in Nat /\ y * b \in Nat
  OBVIOUS
<1>2. ~(x < y)
  <2>1. x < y => x * b + b <= y * b
    BY NextMultiple
  <2> QED
    BY <1>1, <2>1
<1>3. ~(y < x)
  <2>1. y < x => y * b + b <= x * b
    BY NextMultiple
  <2> QED
    BY <1>1, <2>1
<1>4. x = y
  BY <1>2, <1>3
<1> QED
  BY <1>1, <1>4

\* A stripe is n blocks.
LEMMA StripeOf ==
  ASSUME NEW b \in Nat \ {0}, NEW n \in Nat \ {0}, NEW a \in Nat
  PROVE  a \div (b * n) = (a \div b) \div n
<1> DEFINE x == a \div b
           r == a % b
           y == x \div n
           z == x % n
<1>1. x \in Nat /\ r \in 0 .. (b - 1) /\ a = x * b + r
  BY DivMod
<1>2. y \in Nat /\ z \in 0 .. (n - 1) /\ x = y * n + z
  BY <1>1, DivMod
<1>3. b * n \in Nat \ {0}
  <2>1. b * n \in Nat
    OBVIOUS
  <2>2. 0 * b + b <= n * b
    BY NextMultiple
  <2> QED
    BY <2>1, <2>2
<1>4. a \div (b * n) \in Nat /\ a % (b * n) \in 0 .. (b * n - 1)
      /\ a = (a \div (b * n)) * (b * n) + (a % (b * n))
  BY <1>3, DivMod
<1> HIDE DEF x, y, z, r
<1>5. a = y * (b * n) + (z * b + r)
  <2>1. (y * n + z) * b = y * (b * n) + z * b
    BY <1>1, <1>2
  <2> QED
    BY <1>1, <1>2, <2>1
<1>6. z * b + r \in 0 .. (b * n - 1)
  <2>1. z * b + b <= n * b /\ z * b \in Nat /\ n * b = b * n
    BY <1>2, NextMultiple
  <2> QED
    BY <1>1, <1>3, <2>1
<1> DEFINE B == b * n
           q == a \div B
           e == a % B
           f == z * b + r
<1>7. B \in Nat \ {0} /\ q \in Nat /\ e \in 0 .. (B - 1) /\ f \in 0 .. (B - 1) /\ q * B + e = y * B + f
  BY <1>3, <1>4, <1>5, <1>6
<1> HIDE DEF B, q, e, f
<1>8. q = y
  BY <1>2, <1>7, DivUnique
<1> QED
  BY <1>8 DEF x, y, q, B

\* Where address a is, in blocks: y stripes, z blocks and r bytes.
LEMMA AddressOf ==
  ASSUME NEW b \in Nat \ {0}, NEW n \in Nat \ {0}, NEW a \in Nat
  PROVE  \E y \in Nat, z \in 0 .. (n - 1), r \in 0 .. (b - 1) :
           /\ a = (y * n + z) * b + r
           /\ offset_to_qpair(b, n, a) = z
           /\ SpdkIO_offset_to_qpair(b, n, a) = (z + y) % n
           /\ dev_offset(b, n, a) = y * b + r
           /\ SpdkIO_dev_offset(b, n, a) = y * b + r
<1> DEFINE x == a \div b
           r == a % b
           y == x \div n
           z == x % n
<1>1. x \in Nat /\ r \in 0 .. (b - 1) /\ a = x * b + r
  BY DivMod
<1>2. y \in Nat /\ z \in 0 .. (n - 1) /\ x = y * n + z
  BY <1>1, DivMod
<1>3. a \div (b * n) = y
  BY StripeOf
<1>4. a = (y * n + z) * b + r
  BY <1>1, <1>2
<1>5. /\ offset_to_qpair(b, n, a) = z /\ SpdkIO_offset_to_qpair(b, n, a) = (z + y) % n
      /\ dev_offset(b, n, a) = y * b + r /\ SpdkIO_dev_offset(b, n, a) = y * b + r
  BY <1>3 DEF offset_to_qpair, SpdkIO_offset_to_qpair, dev_offset, SpdkIO_dev_offset
<1> HIDE DEF x, y, z, r
<1> QED
  BY <1>1, <1>2, <1>4, <1>5

\* The device a block of a stripe is on tells which block it is.
LEMMA RotateBack ==
  ASSUME NEW n \in Nat \ {0}, NEW y \in Nat, NEW z \in 0 .. (n - 1), NEW w \in 0 .. (n - 1),
         (z + y) % n = (w + y) % n
  PROVE  z = w
<1> DEFINE s == (z + y) \div n
           t == (w + y) \div n
           m == (z + y) % n
<1> z + y \in Nat /\ w + y \in Nat
  OBVIOUS
<1>1. s \in Nat /\ m \in 0 .. (n - 1) /\ z + y = s * n + m
  BY DivMod
<1>2. t \in Nat /\ (w + y) % n \in 0 .. (n - 1) /\ w + y = t * n + ((w + y) % n)
  BY DivMod
<1>3. w + y = t * n + m
  BY <1>2
<1> HIDE DEF s, t, m
<1>4. s * n \in Nat /\ t * n \in Nat
  BY <1>1, <1>2
<1>5. ~(s < t)
  <2>1. s < t => s * n + n <= t * n
    BY <1>1, <1>2, NextMultiple
  <2> QED
    BY <1>1, <1>3, <1>4, <2>1
<1>6. ~(t < s)
  <2>1. t < s => t * n + n <= s * n
    BY <1>1, <1>2, NextMultiple
  <2> QED
    BY <1>1, <1>3, <1>4, <2>1
<1>7. s = t
  BY <1>1, <1>2, <1>5, <1>6
<1> QED
  BY <1>1, <1>3, <1>4, <1>7

\* Two addresses are at one place of one device only if they are one address.
LEMMA PlacesDiffer ==
  ASSUME NEW b \in Nat \ {0}, NEW n \in Nat \ {0}, NEW a \in Nat, NEW c \in Nat,
         \/ /\ offset_to_qpair(b, n, a) = offset_to_qpair(b, n, c)
            /\ dev_offset(b, n, a) = dev_offset(b, n, c)
         \/ /\ SpdkIO_offset_to_qpair(b, n, a) = SpdkIO_offset_to_qpair(b, n, c)
            /\ SpdkIO_dev_offset(b, n, a) = SpdkIO_dev_offset(b, n, c)
  PROVE  a = c
<1>1. PICK y \in Nat, z \in 0 .. (n - 1), r \in 0 .. (b - 1) :
           /\ a = (y * n + z) * b + r
           /\ offset_to_qpair(b, n, a) = z
           /\ SpdkIO_offset_to_qpair(b, n, a) = (z + y) % n
           /\ dev_offset(b, n, a) = y * b + r
           /\ SpdkIO_dev_offset(b, n, a) = y * b + r
  BY AddressOf
<1>2. PICK v \in Nat, w \in 0 .. (n - 1), u \in 0 .. (b - 1) :
           /\ c = (v * n + w) * b + u
           /\ offset_to_qpair(b, n, c) = w
           /\ SpdkIO_offset_to_qpair(b, n, c) = (w + v) % n
           /\ dev_offset(b, n, c) = v * b + u
           /\ SpdkIO_dev_offset(b, n, c) = v * b + u
  BY AddressOf
<1>3. y * b + r = v * b + u
  BY <1>1, <1>2
<1>4. y = v /\ r = u
  BY <1>3, DivUnique
<1>5. z = w
  <2>1. CASE z = w
    BY <2>1
  <2>2. CASE (z + y) % n = (w + v) % n
    BY <1>4, <2>2, RotateBack
  <2> QED
    BY <1>1, <1>2, <2>1, <2>2
<1> QED
  BY <1>1, <1>2, <1>4, <1>5

\* An address below n times k blocks is below k blocks on its device.
LEMMA PlaceFits ==
  ASSUME NEW b \in Nat \ {0}, NEW n \in Nat \ {0}, NEW a \in Nat, NEW k \in Nat, a < n * (k * b)
  PROVE  /\ dev_offset(b, n, a) \in Nat /\ dev_offset(b, n, a) < k * b
         /\ SpdkIO_dev_offset(b, n, a) = dev_offset(b, n, a)
         /\ offset_to_qpair(b, n, a) \in 0 .. (n - 1)
         /\ SpdkIO_offset_to_qpair(b, n, a) \in 0 .. (n - 1)
<1>1. PICK y \in Nat, z \in 0 .. (n - 1), r \in 0 .. (b - 1) :
           /\ a = (y * n + z) * b + r
           /\ offset_to_qpair(b, n, a) = z
           /\ SpdkIO_offset_to_qpair(b, n, a) = (z + y) % n
           /\ dev_offset(b, n, a) = y * b + r
           /\ SpdkIO_dev_offset(b, n, a) = y * b + r
  BY AddressOf
<1>2. y < k
  <2> SUFFICES ASSUME k <= y PROVE FALSE
    OBVIOUS
  <2>1. PICK d \in Nat : y = k + d
    <3>1. y - k \in Nat /\ y = k + (y - k)
      OBVIOUS
    <3> QED
      BY <3>1
  <2>2. (y * n + z) * b = n * (k * b) + (d * n) * b + z * b
    BY <2>1
  <2>3. (d * n) * b \in Nat /\ z * b \in Nat /\ n * (k * b) \in Nat
    OBVIOUS
  <2> QED
    BY <1>1, <2>2, <2>3
<1>3. y * b + b <= k * b
  BY <1>2, NextMultiple
<1>4. y * b \in Nat /\ k * b \in Nat
  OBVIOUS
<1>5. (z + y) % n \in 0 .. (n - 1)
  BY DivMod
<1> QED
  BY <1>1, <1>3, <1>4, <1>5

-----------------------------------------------------------------------------
(* The disk of a world: what every thread of every process makes of the     *)
(* namespaces                                                              *)

NamesOf(R) == [i \in DOMAIN R |-> R[i].name]

\* One namespace at most has a name of N.
OneOf(R, N) == \A i, j \in DOMAIN R : R[i].name \in N /\ R[j].name \in N => i = j

\* What is assumed of the devices and the user: names are different, sizes are
\* multiples of blk_m, a string of the user is in one name at most, and two
\* different strings are not in one name.
SoundFor(w, up) ==
  LET R == register_controllers(w, up)
  IN /\ w.cls \in {"array", "spdk", "trtspdk"}
     /\ R \in Seq(Range(R))
     /\ \A i \in DOMAIN R : R[i].name \in Nat /\ \E k \in Nat : R[i].size = k * Blk
     /\ \A i, j \in DOMAIN R : R[i].name = R[j].name => i = j
     /\ w.user \in Seq(Nat)
     /\ w.cls = "trtspdk" => w.user # <<>>
     /\ \A i \in DOMAIN w.user : OneOf(R, w.has[w.user[i]])
     /\ \A i, j \in DOMAIN w.user : w.user[i] # w.user[j] =>
          \A k \in DOMAIN R : ~(R[k].name \in w.has[w.user[i]] /\ R[k].name \in w.has[w.user[j]])

\* The name TrtSpdkIO::open() chooses
Chosen(w, up) ==
  LET hit == FirstNamed(register_controllers(w, up), w.has[w.user[1]])
  IN IF hit # <<>> THEN hit[1].name ELSE Sorted(NamesOf(register_controllers(w, up)))[1]

\* The names that are looked for, one set for each device of the disk
WantedUser(w) == LET c == Capped(Sorted(w.user)) IN [i \in DOMAIN c |-> w.has[c[i]]]
WantedNames(names) == LET c == Capped(names) IN [i \in DOMAIN c |-> {c[i]}]
Wanted(w, up) ==
  IF w.cls = "array" /\ Repeated(w.user) THEN <<>>
  ELSE IF w.cls = "array" /\ w.user # <<>> THEN WantedUser(w)
  ELSE WantedNames(IF w.cls = "trtspdk" THEN <<Chosen(w, up)>> ELSE Sorted(NamesOf(register_controllers(w, up))))

CollectedIn(R, S) == Collected([i \in DOMAIN S |-> FirstNamed(R, S[i])])
Disk(w, up) == CollectedIn(register_controllers(w, up), Wanted(w, up))

\* A search for one namespace finds it, wherever it is.
LEMMA FirstIs ==
  ASSUME NEW s, NEW n \in Nat, DOMAIN s = 1 .. n, NEW N, NEW k \in 1 .. n, s[k].name \in N, OneOf(s, N)
  PROVE  FirstNamed(s, N) = <<s[k]>>
<1> DEFINE fit == {i \in DOMAIN s : s[i].name \in N}
           first == CHOOSE i \in fit : \A j \in fit : i <= j
<1>1. k \in fit /\ fit \subseteq Nat
  OBVIOUS
<1>2. \E i \in fit : \A j \in fit : i <= j
  BY <1>1, LeastNat
<1>3. first \in fit
  BY <1>2
<1>4. first = k
  BY <1>3 DEF OneOf
<1>5. fit # {}
  BY <1>1
<1> HIDE DEF first
<1> QED
  BY <1>4, <1>5 DEF FirstNamed, first

\* A search that finds nothing.
LEMMA FirstNone ==
  ASSUME NEW s, NEW N, \A i \in DOMAIN s : s[i].name \notin N
  PROVE  FirstNamed(s, N) = <<>>
BY DEF FirstNamed

\* The order of the hash table does not matter for a name there is once.
LEMMA WalkFirst ==
  ASSUME NEW g, NEW R, g.nss = R, R \in Seq(Range(R)), g.order \in Orders(Len(R)), NEW N, OneOf(R, N)
  PROVE  FirstNamed(Walk(g), N) = FirstNamed(R, N)
<1> DEFINE n == Len(R)
           W == Walk(g)
           p == g.order
<1>1. n \in Nat /\ DOMAIN R = 1 .. n
  OBVIOUS
<1>2. p \in [1 .. n -> 1 .. n] /\ \A i, j \in 1 .. n : p[i] = p[j] => i = j
  BY DEF Orders
<1>3. DOMAIN W = 1 .. n /\ \A i \in 1 .. n : W[i] = R[p[i]] /\ p[i] \in 1 .. n
  BY <1>1, <1>2 DEF Walk
<1>4. \A k \in 1 .. n : \E i \in 1 .. n : p[i] = k
  BY <1>1, OrderOnto
<1> HIDE DEF W, p, n
<1>5. OneOf(W, N)
  <2> SUFFICES ASSUME NEW i \in 1 .. n, NEW j \in 1 .. n, W[i].name \in N, W[j].name \in N
               PROVE  i = j
    BY <1>3 DEF OneOf
  <2>1. p[i] = p[j]
    BY <1>1, <1>3 DEF OneOf
  <2> QED
    BY <1>2, <2>1
<1>6. CASE \E k \in 1 .. n : R[k].name \in N
  <2>1. PICK k \in 1 .. n : R[k].name \in N
    BY <1>6
  <2>2. PICK i \in 1 .. n : p[i] = k
    BY <1>4
  <2>3. W[i] = R[k]
    BY <1>3, <2>2
  <2>4. FirstNamed(R, N) = <<R[k]>>
    BY <1>1, <2>1, FirstIs
  <2>5. FirstNamed(W, N) = <<W[i]>>
    BY <1>1, <1>3, <1>5, <2>1, <2>3, FirstIs
  <2> QED
    BY <2>3, <2>4, <2>5 DEF W
<1>7. CASE ~\E k \in 1 .. n : R[k].name \in N
  <2>1. FirstNamed(R, N) = <<>>
    BY <1>1, <1>7, FirstNone
  <2>2. \A i \in DOMAIN W : W[i].name \notin N
    BY <1>3, <1>7
  <2>3. FirstNamed(W, N) = <<>>
    BY <2>2, FirstNone
  <2> QED
    BY <2>1, <2>3 DEF W
<1> QED
  BY <1>6, <1>7

\* Nor does it for the sorted names.
LEMMA WalkSorted ==
  ASSUME NEW g, NEW R, g.nss = R, R \in Seq(Range(R)), g.order \in Orders(Len(R)),
         \A i \in DOMAIN R : R[i].name \in Nat, \A i, j \in DOMAIN R : R[i].name = R[j].name => i = j
  PROVE  /\ Sorted(getNamespaceNames(g)) = Sorted(NamesOf(R))
         /\ getNamespaceNames(g) = <<>> <=> R = <<>>
<1> DEFINE n == Len(R)
           u == getNamespaceNames(g)
           v == NamesOf(R)
           p == g.order
<1>1. n \in Nat /\ DOMAIN R = 1 .. n
  OBVIOUS
<1>2. p \in [1 .. n -> 1 .. n] /\ \A i, j \in 1 .. n : p[i] = p[j] => i = j
  BY DEF Orders
<1>3. u = [i \in 1 .. n |-> R[p[i]].name] /\ v = [i \in 1 .. n |-> R[i].name]
  BY <1>1, <1>2 DEF getNamespaceNames, Walk, NamesOf
<1>4. \A k \in 1 .. n : \E i \in 1 .. n : p[i] = k
  BY <1>1, OrderOnto
<1> HIDE DEF u, v, p, n
<1>5. u \in Seq(Nat) /\ Len(u) = n /\ v \in Seq(Nat) /\ Len(v) = n
  <2>1. \A i \in 1 .. n : R[p[i]].name \in Nat /\ R[i].name \in Nat
    BY <1>1, <1>2
  <2>2. u \in [1 .. n -> Nat] /\ v \in [1 .. n -> Nat]
    BY <1>3, <2>1
  <2> QED
    BY <1>1, <2>2
<1>6. Distinct(u) /\ Distinct(v)
  BY <1>1, <1>2, <1>3 DEF Distinct
<1>7. /\ \A i \in 1 .. n : \E k \in 1 .. n : u[i] = v[k]
      /\ \A i \in 1 .. n : \E k \in 1 .. n : v[i] = u[k]
  <2>1. ASSUME NEW i \in 1 .. n PROVE \E k \in 1 .. n : u[i] = v[k]
    BY <1>2, <1>3
  <2>2. ASSUME NEW i \in 1 .. n PROVE \E k \in 1 .. n : v[i] = u[k]
    <3>1. PICK k \in 1 .. n : p[k] = i
      BY <1>4
    <3> QED
      BY <1>3, <3>1
  <2> QED
    BY <2>1, <2>2
<1>8. /\ Sorted(u) \in Seq(Nat) /\ Len(Sorted(u)) = n
      /\ \A i, j \in 1 .. n : i < j => Sorted(u)[i] < Sorted(u)[j]
      /\ \A i \in 1 .. n : \E k \in 1 .. n : Sorted(u)[i] = u[k]
      /\ \A k \in 1 .. n : \E i \in 1 .. n : Sorted(u)[i] = u[k]
  <2>1. /\ Sorted(u) \in Seq(Nat) /\ Len(Sorted(u)) = Len(u)
        /\ \A i, j \in 1 .. Len(u) : i < j => Sorted(u)[i] < Sorted(u)[j]
        /\ \A i \in 1 .. Len(u) : \E k \in 1 .. Len(u) : Sorted(u)[i] = u[k]
        /\ \A k \in 1 .. Len(u) : \E i \in 1 .. Len(u) : Sorted(u)[i] = u[k]
    BY <1>5, <1>6, SortedIs
  <2>2. Len(u) = n
    BY <1>5
  <2> QED
    BY <2>1, <2>2
<1>9. /\ Sorted(v) \in Seq(Nat) /\ Len(Sorted(v)) = n
      /\ \A i, j \in 1 .. n : i < j => Sorted(v)[i] < Sorted(v)[j]
      /\ \A i \in 1 .. n : \E k \in 1 .. n : Sorted(v)[i] = v[k]
      /\ \A k \in 1 .. n : \E i \in 1 .. n : Sorted(v)[i] = v[k]
  <2>1. /\ Sorted(v) \in Seq(Nat) /\ Len(Sorted(v)) = Len(v)
        /\ \A i, j \in 1 .. Len(v) : i < j => Sorted(v)[i] < Sorted(v)[j]
        /\ \A i \in 1 .. Len(v) : \E k \in 1 .. Len(v) : Sorted(v)[i] = v[k]
        /\ \A k \in 1 .. Len(v) : \E i \in 1 .. Len(v) : Sorted(v)[i] = v[k]
    BY <1>5, <1>6, SortedIs
  <2>2. Len(v) = n
    BY <1>5
  <2> QED
    BY <2>1, <2>2
<1> DEFINE a == Sorted(u)
           b == Sorted(v)
<1>10. a \in [1 .. n -> Nat] /\ b \in [1 .. n -> Nat]
  <2>1. \A s \in Seq(Nat) : s \in [1 .. Len(s) -> Nat]
    OBVIOUS
  <2> QED
    BY <1>8, <1>9, <2>1
<1>11. /\ \A i, j \in 1 .. n : i < j => a[i] < a[j]
       /\ \A i, j \in 1 .. n : i < j => b[i] < b[j]
  BY <1>8, <1>9
<1>12. \A i \in 1 .. n : \E k \in 1 .. n : a[i] = b[k]
  <2> SUFFICES ASSUME NEW i \in 1 .. n PROVE \E k \in 1 .. n : a[i] = b[k]
    OBVIOUS
  <2>1. PICK x \in 1 .. n : a[i] = u[x]
    BY <1>8
  <2>2. PICK y \in 1 .. n : u[x] = v[y]
    BY <1>7
  <2>3. PICK z \in 1 .. n : b[z] = v[y]
    BY <1>9
  <2> QED
    BY <2>1, <2>2, <2>3
<1>13. \A i \in 1 .. n : \E k \in 1 .. n : b[i] = a[k]
  <2> SUFFICES ASSUME NEW i \in 1 .. n PROVE \E k \in 1 .. n : b[i] = a[k]
    OBVIOUS
  <2>1. PICK x \in 1 .. n : b[i] = v[x]
    BY <1>9
  <2>2. PICK y \in 1 .. n : v[x] = u[y]
    BY <1>7
  <2>3. PICK z \in 1 .. n : a[z] = u[y]
    BY <1>8
  <2> QED
    BY <2>1, <2>2, <2>3
<1> HIDE DEF a, b
<1>14. a = b
  BY <1>1, <1>10, <1>11, <1>12, <1>13, RisingUnique
<1>15. u = <<>> <=> R = <<>>
  BY <1>1, <1>5 DEF n
<1> QED
  BY <1>14, <1>15 DEF a, b, u, v

\* Every set of S has one namespace at most, and no namespace is in two.
ApartIn(R, S) ==
  /\ \A i \in DOMAIN S : OneOf(R, S[i])
  /\ \A i, j \in DOMAIN S : i # j => \A k \in DOMAIN R : ~(R[k].name \in S[i] /\ R[k].name \in S[j])

\* The first SdMaxQps names.
LEMMA CappedIs ==
  ASSUME NEW T, NEW s \in Seq(T)
  PROVE  \E m \in 0 .. Len(s) : /\ DOMAIN Capped(s) = 1 .. m /\ \A i \in 1 .. m : Capped(s)[i] = s[i]
                                /\ s # <<>> => m >= 1
<1>1. SdMaxQps \in Nat \ {0}
  BY SpdkDevicesConstants
<1> DEFINE m == IF Len(s) < SdMaxQps THEN Len(s) ELSE SdMaxQps
<1>2. m \in 0 .. Len(s) /\ Len(s) \in Nat /\ (s # <<>> => m >= 1)
  BY <1>1
<1>3. Capped(s) = SubSeq(s, 1, m)
  BY DEF Capped
<1> HIDE DEF m
<1>4. DOMAIN SubSeq(s, 1, m) = 1 .. m /\ \A i \in 1 .. m : SubSeq(s, 1, m)[i] = s[i]
  BY <1>2
<1> QED
  BY <1>2, <1>3, <1>4

\* Different names are in different namespaces.
LEMMA NamesApart ==
  ASSUME NEW R, \A i, j \in DOMAIN R : R[i].name = R[j].name => i = j,
         NEW T, NEW names \in Seq(T), Distinct(names)
  PROVE  ApartIn(R, WantedNames(names)) /\ \E m \in Nat : DOMAIN WantedNames(names) = 1 .. m
<1>1. PICK m \in 0 .. Len(names) : DOMAIN Capped(names) = 1 .. m /\ \A i \in 1 .. m : Capped(names)[i] = names[i]
  BY CappedIs
<1>2. DOMAIN names = 1 .. Len(names) /\ Len(names) \in Nat
  OBVIOUS
<1> DEFINE S == WantedNames(names)
<1>3. DOMAIN S = 1 .. m /\ \A i \in 1 .. m : S[i] = {names[i]} /\ i \in DOMAIN names
  BY <1>1, <1>2 DEF WantedNames
<1> HIDE DEF S
<1>4. \A i \in DOMAIN S : OneOf(R, S[i])
  BY <1>3 DEF OneOf
<1>5. \A i, j \in DOMAIN S : i # j => names[i] # names[j]
  BY <1>3 DEF Distinct
<1>6. \A i, j \in DOMAIN S : i # j => \A k \in DOMAIN R : ~(R[k].name \in S[i] /\ R[k].name \in S[j])
  BY <1>3, <1>5
<1>7. m \in Nat
  BY <1>1, <1>2
<1> QED
  BY <1>3, <1>4, <1>6, <1>7 DEF ApartIn, S

\* So are the strings of the user.
LEMMA UserApart ==
  ASSUME NEW w, NEW up, SoundFor(w, up), ~Repeated(w.user)
  PROVE  ApartIn(register_controllers(w, up), WantedUser(w)) /\ \E m \in Nat : DOMAIN WantedUser(w) = 1 .. m
<1> DEFINE R == register_controllers(w, up)
           u == w.user
           s == Sorted(u)
<1>1. /\ u \in Seq(Nat) /\ \A i \in DOMAIN u : OneOf(R, w.has[u[i]])
      /\ \A i, j \in DOMAIN u : u[i] # u[j] =>
          \A k \in DOMAIN R : ~(R[k].name \in w.has[u[i]] /\ R[k].name \in w.has[u[j]])
  BY DEF SoundFor
<1>2. Distinct(u)
  BY DEF Repeated, Distinct
<1>3. DOMAIN u = 1 .. Len(u) /\ Len(u) \in Nat
  BY <1>1
<1>4. /\ s \in Seq(Nat) /\ Len(s) = Len(u)
      /\ \A i, j \in 1 .. Len(u) : i < j => s[i] < s[j]
      /\ \A i \in 1 .. Len(u) : \E k \in 1 .. Len(u) : s[i] = u[k]
  BY <1>1, <1>2, SortedIs
<1> HIDE DEF R, u, s
<1>5. PICK m \in 0 .. Len(s) : DOMAIN Capped(s) = 1 .. m /\ \A i \in 1 .. m : Capped(s)[i] = s[i]
  BY <1>4, CappedIs
<1> DEFINE S == WantedUser(w)
<1>6. DOMAIN S = 1 .. m /\ \A i \in 1 .. m : S[i] = w.has[s[i]]
  BY <1>5 DEF WantedUser, s, u
<1> HIDE DEF S
<1>7. \A i \in 1 .. m : i \in 1 .. Len(u) /\ s[i] \in Nat /\ \E k \in DOMAIN u : s[i] = u[k]
  <2> s \in Seq(Nat)
    BY <1>4
  <2>1. Len(s) \in Nat /\ DOMAIN s = 1 .. Len(s) /\ \A i \in 1 .. Len(s) : s[i] \in Nat
    OBVIOUS
  <2>2. \A i \in 1 .. m : i \in 1 .. Len(s)
    BY <1>5, <2>1
  <2>3. Len(s) = Len(u) /\ 1 .. Len(u) = DOMAIN u
    BY <1>3, <1>4
  <2>4. \A i \in 1 .. Len(u) : \E k \in DOMAIN u : s[i] = u[k]
    BY <1>4, <2>3
  <2> QED
    BY <2>1, <2>2, <2>3, <2>4
<1>8. \A i, j \in 1 .. m : i # j => s[i] # s[j]
  <2> SUFFICES ASSUME NEW i \in 1 .. m, NEW j \in 1 .. m, i # j PROVE s[i] # s[j]
    OBVIOUS
  <2>1. i \in 1 .. Len(u) /\ j \in 1 .. Len(u) /\ s[i] \in Nat /\ s[j] \in Nat
    BY <1>7
  <2>2. i \in Int /\ j \in Int /\ (i < j \/ j < i)
    BY <1>5
  <2>3. (i < j => s[i] < s[j]) /\ (j < i => s[j] < s[i])
    BY <1>4, <2>1
  <2> QED
    BY <2>1, <2>2, <2>3
<1>9. \A i \in DOMAIN S : OneOf(R, S[i])
  BY <1>1, <1>6, <1>7
<1>10. ASSUME NEW i \in DOMAIN S, NEW j \in DOMAIN S, i # j, NEW k \in DOMAIN R
       PROVE  ~(R[k].name \in S[i] /\ R[k].name \in S[j])
  <2>1. i \in 1 .. m /\ j \in 1 .. m /\ S[i] = w.has[s[i]] /\ S[j] = w.has[s[j]]
    BY <1>6
  <2>2. PICK x \in DOMAIN u, y \in DOMAIN u : s[i] = u[x] /\ s[j] = u[y]
    BY <1>7, <2>1
  <2>3. u[x] # u[y]
    BY <1>8, <1>10, <2>1, <2>2
  <2> QED
    BY <1>1, <2>1, <2>2, <2>3
<1>11. m \in Nat
  BY <1>4, <1>5
<1> QED
  BY <1>6, <1>9, <1>10, <1>11 DEF ApartIn, S, R

\* The devices of a disk are different ones.
LEMMA WantedApart ==
  ASSUME NEW w, NEW up, SoundFor(w, up)
  PROVE  ApartIn(register_controllers(w, up), Wanted(w, up)) /\ \E m \in Nat : DOMAIN Wanted(w, up) = 1 .. m
<1> DEFINE R == register_controllers(w, up)
<1>1. /\ R \in Seq(Range(R)) /\ \A i \in DOMAIN R : R[i].name \in Nat
      /\ \A i, j \in DOMAIN R : R[i].name = R[j].name => i = j
  BY DEF SoundFor
<1>2. CASE w.cls = "array" /\ Repeated(w.user)
  <2>1. Wanted(w, up) = <<>> /\ DOMAIN <<>> = 1 .. 0
    BY <1>2 DEF Wanted
  <2> QED
    BY <2>1 DEF ApartIn
<1>3. CASE w.cls = "array" /\ w.user # <<>> /\ ~Repeated(w.user)
  BY <1>3, UserApart DEF Wanted
<1>4. CASE w.cls = "trtspdk"
  <2>1. Wanted(w, up) = WantedNames(<<Chosen(w, up)>>)
    BY <1>4 DEF Wanted
  <2>2. <<Chosen(w, up)>> \in Seq({Chosen(w, up)}) /\ Distinct(<<Chosen(w, up)>>)
    BY DEF Distinct
  <2> QED
    BY <1>1, <2>1, <2>2, NamesApart
<1>5. CASE w.cls # "trtspdk" /\ ~(w.cls = "array" /\ (Repeated(w.user) \/ w.user # <<>>))
  <2>1. Wanted(w, up) = WantedNames(Sorted(NamesOf(R)))
    BY <1>5 DEF Wanted
  <2>2. NamesOf(R) \in Seq(Nat) /\ Distinct(NamesOf(R))
    <3>1. Len(R) \in Nat /\ DOMAIN R = 1 .. Len(R)
      BY <1>1
    <3>2. NamesOf(R) \in [1 .. Len(R) -> Nat]
      BY <1>1, <3>1 DEF NamesOf
    <3>3. NamesOf(R) \in Seq(Nat)
      BY <3>1, <3>2
    <3> QED
      BY <1>1, <3>3 DEF NamesOf, Distinct
  <2> DEFINE s == Sorted(NamesOf(R))
             n == Len(NamesOf(R))
  <2>3. s \in Seq(Nat) /\ Len(s) = n /\ \A i, j \in 1 .. n : i < j => s[i] < s[j]
    BY <2>2, SortedIs
  <2> HIDE DEF s, n
  <2>4. Distinct(s)
    <3>1. \A i \in 1 .. n : s[i] \in Nat
      BY <2>3
    <3> QED
      BY <2>3, <3>1 DEF Distinct
  <2> QED
    BY <1>1, <2>1, <2>3, <2>4, NamesApart DEF s
<1> QED
  BY <1>2, <1>3, <1>4, <1>5

\* q is a sequence of different namespaces of R.
SomeOf(R, q) ==
  \E n \in Nat : /\ DOMAIN q = 1 .. n
                 /\ \A i \in 1 .. n : \E k \in DOMAIN R : q[i] = R[k]
                 /\ \A i, j \in 1 .. n : i # j => q[i] # q[j]
                 /\ q = [i \in 1 .. n |-> q[i]]

\* What CollectedIn() gives.
LEMMA DiskIs ==
  ASSUME NEW R, R \in Seq(Range(R)), NEW S, NEW m \in Nat, DOMAIN S = 1 .. m, ApartIn(R, S),
         NEW q, q = CollectedIn(R, S).qps
  PROVE  SomeOf(R, q)
<1> DEFINE f == [i \in DOMAIN S |-> FirstNamed(R, S[i])]
<1>1. CASE \E i \in DOMAIN f : f[i] = <<>>
  <2>1. q = <<>>
    BY <1>1 DEF CollectedIn, Collected
  <2>2. DOMAIN <<>> = 1 .. 0 /\ <<>> = [i \in 1 .. 0 |-> 0]
    OBVIOUS
  <2> QED
    BY <2>1, <2>2 DEF SomeOf
<1>2. CASE ~\E i \in DOMAIN f : f[i] = <<>>
  <2>1. q = [i \in DOMAIN f |-> f[i][1]]
    BY <1>2 DEF CollectedIn, Collected
  <2>2. ASSUME NEW i \in 1 .. m PROVE \E k \in DOMAIN R : R[k].name \in S[i] /\ q[i] = R[k]
    <3>1. FirstNamed(R, S[i]) # <<>> /\ q[i] = FirstNamed(R, S[i])[1]
      BY <1>2, <2>1
    <3>2. PICK k \in DOMAIN R : R[k].name \in S[i]
      BY <3>1, FirstNone
    <3>3. Len(R) \in Nat /\ DOMAIN R = 1 .. Len(R)
      OBVIOUS
    <3>4. FirstNamed(R, S[i]) = <<R[k]>>
      BY <3>2, <3>3, FirstIs DEF ApartIn
    <3> QED
      BY <3>1, <3>2, <3>4
  <2>3. ASSUME NEW i \in 1 .. m, NEW j \in 1 .. m, i # j PROVE q[i] # q[j]
    <3>1. PICK k \in DOMAIN R : R[k].name \in S[i] /\ q[i] = R[k]
      BY <2>2
    <3>2. PICK l \in DOMAIN R : R[l].name \in S[j] /\ q[j] = R[l]
      BY <2>2
    <3>3. ~(R[k].name \in S[i] /\ R[k].name \in S[j])
      BY <2>3 DEF ApartIn
    <3> QED
      BY <3>1, <3>2, <3>3
  <2>4. DOMAIN q = 1 .. m /\ q = [i \in 1 .. m |-> q[i]]
    BY <2>1
  <2> QED
    BY <2>2, <2>3, <2>4 DEF SomeOf
<1> QED
  BY <1>1, <1>2

\* What open() leaves in GlobalState__ or SpdkNamespaceStr__
NamesSet(names, w, up) ==
  \/ w.cls = "array" /\ names = Sorted(w.user) /\ ~Repeated(w.user)
  \/ w.cls = "trtspdk" /\ names = <<Chosen(w, up)>>

\* Every thread of every process collects the same queue pairs.
LEMMA SameQpairs ==
  ASSUME NEW g, NEW up, SoundFor(world, up), g.nss = register_controllers(world, up),
         g.order \in Orders(Len(register_controllers(world, up))),
         world.cls = "spdk" \/ NamesSet(g.names, world, up)
  PROVE  QpairsOf(g) = Disk(world, up)
<1> DEFINE R == register_controllers(world, up)
           W == Walk(g)
<1>1. /\ R \in Seq(Range(R)) /\ \A i \in DOMAIN R : R[i].name \in Nat
      /\ \A i, j \in DOMAIN R : R[i].name = R[j].name => i = j
      /\ world.user \in Seq(Nat)
  BY DEF SoundFor
<1>2. Sorted(getNamespaceNames(g)) = Sorted(NamesOf(R))
  BY <1>1, WalkSorted
<1>3. ASSUME NEW N, OneOf(R, N) PROVE FirstNamed(W, N) = FirstNamed(R, N)
  BY <1>1, <1>3, WalkFirst
<1>4. ApartIn(R, Wanted(world, up))
  BY WantedApart
<1>5. ASSUME NEW names PROVE Found(g, names) = [i \in DOMAIN WantedNames(names) |-> FirstNamed(R, WantedNames(names)[i])]
  <2> DEFINE c == Capped(names)
  <2>1. \A x : OneOf(R, {x})
    BY <1>1 DEF OneOf
  <2>2. \A i \in DOMAIN c : getQpair(g, c[i]) = FirstNamed(R, {c[i]})
    BY <1>3, <2>1 DEF getQpair
  <2> QED
    BY <2>2 DEF Found, WantedNames
<1>6. ASSUME NEW names, names = Sorted(world.user), Wanted(world, up) = WantedUser(world)
      PROVE  FoundByPrefix(g, names) = [i \in DOMAIN WantedUser(world) |-> FirstNamed(R, WantedUser(world)[i])]
  <2> DEFINE c == Capped(names)
             S == WantedUser(world)
  <2>1. S = [i \in DOMAIN c |-> world.has[c[i]]]
    BY <1>6 DEF WantedUser
  <2>2. \A i \in DOMAIN S : OneOf(R, S[i])
    BY <1>4, <1>6 DEF ApartIn
  <2> HIDE DEF S
  <2>3. \A i \in DOMAIN c : getQpair_by_prefix(g, c[i]) = FirstNamed(R, S[i])
    BY <1>3, <2>1, <2>2 DEF getQpair_by_prefix
  <2> QED
    BY <2>1, <2>3 DEF FoundByPrefix, S
<1>7. CASE world.cls = "spdk"
  <2>1. Wanted(world, up) = WantedNames(Sorted(NamesOf(R)))
    BY <1>7 DEF Wanted
  <2>2. QpairsOf(g) = SpdkIOMgr_ts_init(g)
    BY <1>7 DEF QpairsOf
  <2> QED
    BY <1>2, <1>5, <2>1, <2>2 DEF SpdkIOMgr_ts_init, Disk, CollectedIn
<1>8. CASE world.cls = "trtspdk"
  <2>1. Wanted(world, up) = WantedNames(<<Chosen(world, up)>>)
    BY <1>8 DEF Wanted
  <2>2. QpairsOf(g) = setThreadQP(g) /\ g.names = <<Chosen(world, up)>>
    BY <1>8 DEF QpairsOf, NamesSet
  <2> QED
    BY <1>5, <2>1, <2>2 DEF setThreadQP, Disk, CollectedIn
<1>9. CASE world.cls = "array"
  <2>1. QpairsOf(g) = ts_init(g) /\ g.names = Sorted(world.user) /\ ~Repeated(world.user)
    BY <1>9 DEF QpairsOf, NamesSet
  <2>2. g.names = <<>> <=> world.user = <<>>
    <3>1. Distinct(world.user)
      BY <2>1 DEF Repeated, Distinct
    <3>2. Sorted(world.user) \in Seq(Nat) /\ Len(Sorted(world.user)) = Len(world.user)
      BY <1>1, <3>1, SortedIs
    <3> QED
      BY <1>1, <2>1, <3>2
  <2>3. CASE world.user = <<>>
    <3>1. Wanted(world, up) = WantedNames(Sorted(NamesOf(R)))
      BY <1>9, <2>1, <2>3 DEF Wanted
    <3>2. ts_init(g) = Collected(Found(g, Sorted(getNamespaceNames(g))))
      BY <2>2, <2>3 DEF ts_init, get_namespaces
    <3> QED
      BY <1>2, <1>5, <2>1, <3>1, <3>2 DEF Disk, CollectedIn
  <2>4. CASE world.user # <<>>
    <3>1. Wanted(world, up) = WantedUser(world)
      BY <1>9, <2>1, <2>4 DEF Wanted
    <3>2. ts_init(g) = Collected(FoundByPrefix(g, g.names))
      BY <2>2, <2>4 DEF ts_init, get_namespaces
    <3> QED
      BY <1>6, <2>1, <3>1, <3>2 DEF Disk, CollectedIn
  <2> QED
    BY <2>3, <2>4
<1>10. world.cls \in {"array", "spdk", "trtspdk"}
  BY DEF SoundFor
<1> QED
  BY <1>7, <1>8, <1>9, <1>10

\* As much of every device as the smallest has, in blocks.
LEMMA SizeIs ==
  ASSUME NEW q, NEW n \in Nat, n >= 1, DOMAIN q = 1 .. n, q = [i \in 1 .. n |-> q[i]],
         \A i \in 1 .. n : \E k \in Nat : q[i].size = k * Blk
  PROVE  \E k \in Nat : /\ ts_get_size(q) = n * (k * Blk)
                        /\ \A i \in 1 .. n : q[i].size \in Nat /\ k * Blk <= q[i].size
<1> DEFINE Z == {x.size : x \in Range(q)}
           m == CHOOSE m \in Z : \A x \in Range(q) : m <= x.size
<1>1. Blk \in Nat
  BY SpdkDevicesConstants
<1>2. Range(q) = {q[i] : i \in 1 .. n}
  BY DEF Range
<1>3. ASSUME NEW i \in 1 .. n PROVE q[i].size \in Nat
  BY <1>1
<1>4. Z \subseteq Nat /\ Z # {}
  <2>1. 1 \in 1 .. n
    OBVIOUS
  <2>2. q[1] \in Range(q)
    BY <1>2, <2>1
  <2>3. q[1].size \in Z
    BY <2>2
  <2>4. \A x \in Range(q) : x.size \in Nat
    BY <1>2, <1>3
  <2> QED
    BY <2>3, <2>4
<1>5. \E x \in Z : \A y \in Z : x <= y
  BY <1>4, LeastNat
<1>6. m \in Z /\ \A x \in Range(q) : m <= x.size
  BY <1>5
<1>7. Len(q) = n /\ q # <<>>
  <2>1. q \in Seq(Range(q))
    BY <1>2
  <2> QED
    BY <2>1
<1>8. ts_get_size(q) = n * m
  BY <1>7 DEF ts_get_size
<1> HIDE DEF m
<1>9. PICK i \in 1 .. n : m = q[i].size
  BY <1>2, <1>6
<1>10. PICK k \in Nat : m = k * Blk
  BY <1>9
<1> QED
  BY <1>2, <1>3, <1>6, <1>8, <1>10

\* A disk of different namespaces gives every address a place of its own.
LEMMA DiskPlaces ==
  ASSUME NEW t, NEW n \in Nat, DOMAIN ts[t].qps = 1 .. n, ts[t].qps = [i \in 1 .. n |-> ts[t].qps[i]],
         ts[t].qps # <<>>, \A i \in 1 .. n : \E k \in Nat : ts[t].qps[i].size = k * Blk,
         \A i, j \in 1 .. n : i # j => ts[t].qps[i] # ts[t].qps[j],
         ts[t].size = ts_get_size(ts[t].qps)
  PROVE  \A a \in 0 .. ts[t].size - 1 :
           /\ Place(t, a).at < Place(t, a).on.size
           /\ \A b \in 0 .. a - 1 : Place(t, a) # Place(t, b)
<1> DEFINE q == ts[t].qps
<1>1. n >= 1 /\ Len(q) = n
  <2>1. q \in Seq(Range(q))
    BY DEF Range
  <2> QED
    BY <2>1
<1>2. Blk \in Nat \ {0}
  BY SpdkDevicesConstants
<1>3. PICK k \in Nat : /\ ts[t].size = n * (k * Blk)
                       /\ \A i \in 1 .. n : q[i].size \in Nat /\ k * Blk <= q[i].size
  BY <1>1, SizeIs
<1> DEFINE dev(a) == IF world.cls = "spdk" THEN SpdkIO_offset_to_qpair(Blk, n, a) ELSE offset_to_qpair(Blk, n, a)
           off(a) == dev_offset(Blk, n, a)
<1>4. ASSUME NEW a \in 0 .. ts[t].size - 1
      PROVE  /\ a \in Nat /\ dev(a) \in 0 .. (n - 1) /\ off(a) \in Nat /\ off(a) < k * Blk
             /\ Place(t, a) = [on |-> q[dev(a) + 1], at |-> off(a)]
             /\ SpdkIO_dev_offset(Blk, n, a) = off(a)
  <2>1. k * Blk \in Nat /\ n * (k * Blk) \in Nat /\ a \in Nat /\ a < n * (k * Blk)
    BY <1>2, <1>3
  <2>2. /\ dev_offset(Blk, n, a) \in Nat /\ dev_offset(Blk, n, a) < k * Blk
        /\ SpdkIO_dev_offset(Blk, n, a) = dev_offset(Blk, n, a)
        /\ offset_to_qpair(Blk, n, a) \in 0 .. (n - 1)
        /\ SpdkIO_offset_to_qpair(Blk, n, a) \in 0 .. (n - 1)
    <3>1. n \in Nat \ {0}
      BY <1>1
    <3> QED
      BY <1>2, <2>1, <3>1, PlaceFits
  <2> QED
    BY <1>1, <2>1, <2>2 DEF Place
<1>5. ASSUME NEW a \in Nat, NEW b \in Nat, a # b, dev(a) = dev(b), off(a) = off(b),
             SpdkIO_dev_offset(Blk, n, a) = off(a), SpdkIO_dev_offset(Blk, n, b) = off(b)
      PROVE  FALSE
  <2>1. n \in Nat \ {0}
    BY <1>1
  <2>2. CASE world.cls = "spdk"
    BY <1>2, <1>5, <2>1, <2>2, PlacesDiffer
  <2>3. CASE world.cls # "spdk"
    BY <1>2, <1>5, <2>1, <2>3, PlacesDiffer
  <2> QED
    BY <2>2, <2>3
<1> HIDE DEF dev, off
<1> SUFFICES ASSUME NEW a \in 0 .. ts[t].size - 1
             PROVE  /\ Place(t, a).at < Place(t, a).on.size
                    /\ \A b \in 0 .. a - 1 : Place(t, a) # Place(t, b)
  OBVIOUS
<1>6. Place(t, a).at = off(a) /\ Place(t, a).on = q[dev(a) + 1] /\ dev(a) + 1 \in 1 .. n /\ dev(a) \in Int
  <2>1. Place(t, a) = [on |-> q[dev(a) + 1], at |-> off(a)] /\ dev(a) \in 0 .. (n - 1)
    BY <1>4
  <2> QED
    BY <2>1
<1>7. Place(t, a).at < Place(t, a).on.size
  <2>1. k * Blk \in Nat /\ q[dev(a) + 1].size \in Nat /\ k * Blk <= q[dev(a) + 1].size
    <3>1. k * Blk \in Nat
      BY <1>2
    <3>2. dev(a) + 1 \in 1 .. n
      BY <1>6
    <3> QED
      BY <1>3, <3>1, <3>2
  <2>2. off(a) \in Nat /\ off(a) < k * Blk
    BY <1>4
  <2>3. Place(t, a).at = off(a) /\ Place(t, a).on = q[dev(a) + 1]
    BY <1>6
  <2>4. off(a) < q[dev(a) + 1].size
    BY <2>1, <2>2
  <2> QED
    BY <2>3, <2>4
<1>8. ASSUME NEW b \in 0 .. a - 1, Place(t, a) = Place(t, b) PROVE FALSE
  <2>1. b \in 0 .. ts[t].size - 1 /\ a # b
    <3>1. n * (k * Blk) \in Nat
      BY <1>2
    <3> QED
      BY <1>3, <3>1
  <2>2. Place(t, b).at = off(b) /\ Place(t, b).on = q[dev(b) + 1] /\ dev(b) + 1 \in 1 .. n /\ dev(b) \in Int
    <3>1. Place(t, b) = [on |-> q[dev(b) + 1], at |-> off(b)] /\ dev(b) \in 0 .. (n - 1)
      BY <1>4, <2>1
    <3> QED
      BY <3>1
  <2>3. dev(a) = dev(b)
    <3>1. q[dev(a) + 1] = q[dev(b) + 1]
      BY <1>6, <1>8, <2>2
    <3>2. dev(a) + 1 = dev(b) + 1
      BY <1>6, <2>2, <3>1
    <3> QED
      BY <1>6, <2>2, <3>2
  <2>4. off(a) = off(b)
    BY <1>6, <1>8, <2>2
  <2> QED
    BY <1>4, <1>5, <2>1, <2>3, <2>4
<1> QED
  BY <1>7, <1>8

-----------------------------------------------------------------------------
(* The inductive invariant of the disk *)

\* What is assumed: that, whatever a process reaches, and that a string of the user
\* is in the name of the same device in every process that reaches one.
WorldSound(w) ==
  /\ \A up \in SUBSET Addresses(w) : SoundFor(w, up)
  /\ w.cls = "trtspdk" =>
       \A u, v \in SUBSET Addresses(w) :
         \A i \in DOMAIN register_controllers(w, u), j \in DOMAIN register_controllers(w, v) :
           (/\ register_controllers(w, u)[i].name \in w.has[w.user[1]]
            /\ register_controllers(w, v)[j].name \in w.has[w.user[1]]) =>
              register_controllers(w, u)[i].dev = register_controllers(w, v)[j].dev

\* What the choice of a process that reaches `up' rests on
BasisOf(w, up) ==
  IF w.cls = "trtspdk" /\ FirstNamed(register_controllers(w, up), w.has[w.user[1]]) # <<>>
  THEN [named |-> TRUE, up |-> {}] ELSE [named |-> FALSE, up |-> up]

\* A process that finds the string of the user uses the device that has it.
LEMMA NamedDisk ==
  ASSUME NEW w, NEW up, SoundFor(w, up), w.cls = "trtspdk",
         NEW k \in DOMAIN register_controllers(w, up),
         register_controllers(w, up)[k].name \in w.has[w.user[1]]
  PROVE  Devices(Disk(w, up).qps) = <<register_controllers(w, up)[k].dev>>
<1> DEFINE R == register_controllers(w, up)
           x == R[k].name
           c == Capped(<<x>>)
<1>1. /\ R \in Seq(Range(R)) /\ \A i, j \in DOMAIN R : R[i].name = R[j].name => i = j
      /\ w.user \in Seq(Nat) /\ w.user # <<>> /\ \A i \in DOMAIN w.user : OneOf(R, w.has[w.user[i]])
  BY DEF SoundFor
<1>2. 1 \in DOMAIN w.user
  BY <1>1
<1>3. Len(R) \in Nat /\ DOMAIN R = 1 .. Len(R)
  BY <1>1
<1>4. FirstNamed(R, w.has[w.user[1]]) = <<R[k]>>
  BY <1>1, <1>2, <1>3, FirstIs
<1>5. Chosen(w, up) = x
  BY <1>4 DEF Chosen
<1>6. Wanted(w, up) = WantedNames(<<x>>)
  BY <1>5 DEF Wanted
<1>7. DOMAIN c = 1 .. 1 /\ c[1] = x
  <2>1. <<x>> \in Seq({x}) /\ Len(<<x>>) = 1 /\ <<x>> # <<>>
    OBVIOUS
  <2>2. PICK m \in 0 .. 1 : DOMAIN c = 1 .. m /\ (\A i \in 1 .. m : c[i] = <<x>>[i]) /\ m >= 1
    BY <2>1, CappedIs
  <2>3. m = 1
    BY <2>2
  <2> QED
    BY <2>2, <2>3
<1>8. FirstNamed(R, {x}) = <<R[k]>>
  <2>1. OneOf(R, {x})
    BY <1>1 DEF OneOf
  <2> QED
    BY <1>3, <2>1, FirstIs
<1> DEFINE f == [i \in DOMAIN Wanted(w, up) |-> FirstNamed(R, Wanted(w, up)[i])]
<1>9. DOMAIN f = 1 .. 1 /\ f[1] = <<R[k]>>
  BY <1>6, <1>7, <1>8 DEF WantedNames
<1>10. Disk(w, up) = Collected(f)
  BY DEF Disk, CollectedIn
<1> HIDE DEF f, R
<1>11. Disk(w, up).qps = [i \in 1 .. 1 |-> R[k]]
  BY <1>9, <1>10 DEF Collected
<1> QED
  BY <1>11 DEF Devices, R

\* Processes whose choices rest on the same use the same devices.
LEMMA BasisDecides ==
  ASSUME NEW w, WorldSound(w), NEW u \in SUBSET Addresses(w), NEW v \in SUBSET Addresses(w),
         BasisOf(w, u) = BasisOf(w, v)
  PROVE  Devices(Disk(w, u).qps) = Devices(Disk(w, v).qps)
<1> DEFINE Named(y) == w.cls = "trtspdk" /\ FirstNamed(register_controllers(w, y), w.has[w.user[1]]) # <<>>
<1>1. SoundFor(w, u) /\ SoundFor(w, v)
  BY DEF WorldSound
<1>2. Named(u) <=> Named(v)
  BY DEF BasisOf
<1>3. CASE ~Named(u)
  BY <1>2, <1>3 DEF BasisOf
<1>4. CASE Named(u)
  <2>1. PICK i \in DOMAIN register_controllers(w, u) : register_controllers(w, u)[i].name \in w.has[w.user[1]]
    BY <1>4, FirstNone
  <2>2. PICK j \in DOMAIN register_controllers(w, v) : register_controllers(w, v)[j].name \in w.has[w.user[1]]
    BY <1>2, <1>4, FirstNone
  <2>3. register_controllers(w, u)[i].dev = register_controllers(w, v)[j].dev
    BY <1>4, <2>1, <2>2 DEF WorldSound
  <2>4. Devices(Disk(w, u).qps) = <<register_controllers(w, u)[i].dev>>
    BY <1>1, <1>4, <2>1, NamedDisk
  <2>5. Devices(Disk(w, v).qps) = <<register_controllers(w, v)[j].dev>>
    BY <1>1, <1>4, <2>2, NamedDisk
  <2> QED
    BY <2>3, <2>4, <2>5
<1> QED
  BY <1>3, <1>4

\* The process g found the namespaces it could reach of world w, in some order,
\* and remembers the names that are to be used there; i are the slots.
GsOK(g, i, w) ==
  /\ g = [st |-> g.st, up |-> g.up, nss |-> g.nss, order |-> g.order, set |-> g.set, names |-> g.names,
          opened |-> g.opened, dead |-> g.dead, run |-> g.run]
  /\ g.st # "none" => /\ g.up \in SUBSET Addresses(w)
                      /\ g.nss = register_controllers(w, g.up)
                      /\ g.order \in Orders(Len(register_controllers(w, g.up)))
  /\ g.set => g.st # "none" /\ NamesSet(g.names, w, g.up)
  /\ w.cls # "spdk" => DOMAIN i.held = {} /\ (g.opened = "ok" => g.set)

\* The state of every thread has its fields.
Fields(T) == T = [t \in SdThreads |-> [st |-> T[t].st, qps |-> T[t].qps, size |-> T[t].size]]

\* What is remembered of the processes so far is the disk of one of them.
LayoutOK(l, w) ==
  \A b \in DOMAIN l : \E u \in SUBSET Addresses(w) : b = BasisOf(w, u) /\ l[b] = Devices(Disk(w, u).qps)

\* The threads T of process g have the queue pairs of its disk, or none; l is
\* the layout of the threads before them.
TsOK(T, l, g, w) ==
  /\ Fields(T)
  /\ \A t \in SdThreads : T[t].st = "ready" => g.st # "none"
  /\ \A t \in SdThreads : T[t].qps # <<>> =>
       /\ g.st # "none"
       /\ T[t].qps = Disk(w, g.up).qps
       /\ T[t].size = ts_get_size(Disk(w, g.up).qps)
       /\ BasisOf(w, g.up) \in DOMAIN l
  /\ LayoutOK(l, w)

DiskInv == WorldSound(world) /\ GsOK(gs, ids, world) /\ TsOK(ts, layout, gs, world)

\* The layout after a thread has got queue pairs q on basis b
Learnt(l, b, q) ==
  IF q = <<>> \/ b \in DOMAIN l THEN l ELSE [x \in DOMAIN l \cup {b} |-> IF x = b THEN Devices(q) ELSE l[x]]

\* The basis of a process is that of what it has reached.
LEMMA BasisIs ==
  ASSUME WorldSound(world), GsOK(gs, ids, world), gs.st # "none", NEW g, g.nss = gs.nss, g.order = gs.order, g.up = gs.up
  PROVE  Basis(g) = BasisOf(world, gs.up)
<1> DEFINE R == register_controllers(world, gs.up)
<1>1. /\ gs.up \in SUBSET Addresses(world) /\ g.nss = R /\ g.order \in Orders(Len(R)) /\ SoundFor(world, gs.up)
  BY DEF GsOK, WorldSound
<1>2. CASE world.cls # "trtspdk"
  BY <1>2 DEF Basis, BasisOf
<1>3. CASE world.cls = "trtspdk"
  <2>1. R \in Seq(Range(R)) /\ world.user \in Seq(Nat) /\ world.user # <<>>
        /\ \A i \in DOMAIN world.user : OneOf(R, world.has[world.user[i]])
    BY <1>1, <1>3 DEF SoundFor
  <2>2. 1 \in DOMAIN world.user
    BY <2>1
  <2>3. getQpair_by_prefix(g, world.user[1]) = FirstNamed(R, world.has[world.user[1]])
    BY <1>1, <2>1, <2>2, WalkFirst DEF getQpair_by_prefix
  <2> QED
    BY <2>3 DEF Basis, BasisOf
<1> QED
  BY <1>2, <1>3

\* Thread t with queue pairs q of size z
With(T, t, q, z) == [T EXCEPT ![t].qps = q, ![t].size = z]

\* It has its fields.
LEMMA ThreadFields ==
  ASSUME NEW T, Fields(T), NEW t \in SdThreads, NEW q, NEW z
  PROVE  With(T, t, q, z) = [T EXCEPT ![t] = [st |-> T[t].st, qps |-> q, size |-> z]]
<1> DEFINE e == T[t]
<1>1. e = [st |-> e.st, qps |-> e.qps, size |-> e.size] /\ DOMAIN T = SdThreads
  BY DEF Fields
<1> HIDE DEF e
<1>2. [[e EXCEPT !.qps = q] EXCEPT !.size = z] = [st |-> e.st, qps |-> q, size |-> z]
  <2> DEFINE d == [st |-> e.st, qps |-> q, size |-> e.size]
  <2>1. [e EXCEPT !.qps = q] = d
    BY <1>1
  <2>2. [d EXCEPT !.size = z] = [st |-> e.st, qps |-> q, size |-> z]
    OBVIOUS
  <2> QED
    BY <2>1, <2>2
<1> DEFINE U == [T EXCEPT ![t].qps = q, ![t].size = z]
<1>3. U = [T EXCEPT ![t] = [[e EXCEPT !.qps = q] EXCEPT !.size = z]]
  BY <1>1 DEF e
<1> QED
  BY <1>2, <1>3 DEF e, With

\* A thread gets the queue pairs of the disk.
LEMMA ThreadGets ==
  ASSUME NEW T, NEW l, NEW g, NEW h, NEW w, TsOK(T, l, g, w), NEW t \in SdThreads, NEW st,
         g.st # "none", h.st = g.st, h.up = g.up, g.up \in SUBSET Addresses(w), NEW q, q = Disk(w, g.up).qps
  PROVE  TsOK([T EXCEPT ![t] = [st |-> st, qps |-> q, size |-> ts_get_size(q)]],
              Learnt(l, BasisOf(w, g.up), q), h, w)
<1> DEFINE U == [T EXCEPT ![t] = [st |-> st, qps |-> q, size |-> ts_get_size(q)]]
           b == BasisOf(w, g.up)
           m == Learnt(l, b, q)
<1>1. T = [x \in SdThreads |-> [st |-> T[x].st, qps |-> T[x].qps, size |-> T[x].size]]
  BY DEF TsOK, Fields
<1>2. /\ U = [x \in SdThreads |-> [st |-> U[x].st, qps |-> U[x].qps, size |-> U[x].size]]
      /\ \A x \in SdThreads : U[x] = IF x = t THEN [st |-> st, qps |-> q, size |-> ts_get_size(q)] ELSE T[x]
  BY <1>1
<1> HIDE DEF U, b
<1>3. /\ \A x \in DOMAIN m : x \in DOMAIN l \/ x = b
      /\ \A x \in DOMAIN l : x \in DOMAIN m /\ m[x] = l[x]
      /\ q # <<>> => b \in DOMAIN m
      /\ b \notin DOMAIN l => (b \in DOMAIN m => m[b] = Devices(q))
  BY DEF Learnt
<1> HIDE DEF m
<1>4. LayoutOK(m, w)
  <2> SUFFICES ASSUME NEW x \in DOMAIN m
               PROVE  \E u \in SUBSET Addresses(w) : x = BasisOf(w, u) /\ m[x] = Devices(Disk(w, u).qps)
    BY DEF LayoutOK
  <2>1. CASE x \in DOMAIN l
    BY <1>3, <2>1 DEF TsOK, LayoutOK
  <2>2. CASE x \notin DOMAIN l
    BY <1>3, <2>2 DEF b
  <2> QED
    BY <2>1, <2>2
<1>5. \A x \in SdThreads : U[x].qps # <<>> => /\ U[x].qps = q /\ U[x].size = ts_get_size(q)
                                              /\ b \in DOMAIN m
  <2> SUFFICES ASSUME NEW x \in SdThreads, U[x].qps # <<>>
               PROVE  U[x].qps = q /\ U[x].size = ts_get_size(q) /\ b \in DOMAIN m
    OBVIOUS
  <2>1. CASE x = t
    <3>1. U[x] = [st |-> st, qps |-> q, size |-> ts_get_size(q)]
      BY <1>2, <2>1
    <3> QED
      BY <1>3, <3>1
  <2>2. CASE x # t
    <3>1. U[x] = T[x]
      BY <1>2, <2>2
    <3>2. T[x].qps = q /\ T[x].size = ts_get_size(q) /\ b \in DOMAIN l
      BY <3>1 DEF TsOK, b
    <3> QED
      BY <1>3, <3>1, <3>2
  <2> QED
    BY <2>1, <2>2
<1>6. Fields(U)
  BY <1>2 DEF Fields
<1> QED
  BY <1>2, <1>4, <1>5, <1>6 DEF TsOK, U, m, b

\* A thread loses its queue pairs, or never had any.
LEMMA ThreadLoses ==
  ASSUME NEW T, NEW l, NEW g, NEW w, TsOK(T, l, g, w), NEW t \in SdThreads, NEW st,
         g.st # "none"
  PROVE  TsOK([T EXCEPT ![t] = [st |-> st, qps |-> <<>>, size |-> 0]], l, g, w)
<1> DEFINE U == [T EXCEPT ![t] = [st |-> st, qps |-> <<>>, size |-> 0]]
<1>1. T = [x \in SdThreads |-> [st |-> T[x].st, qps |-> T[x].qps, size |-> T[x].size]]
  BY DEF TsOK, Fields
<1>2. /\ U = [x \in SdThreads |-> [st |-> U[x].st, qps |-> U[x].qps, size |-> U[x].size]]
      /\ \A x \in SdThreads : U[x] = IF x = t THEN [st |-> st, qps |-> <<>>, size |-> 0] ELSE T[x]
  BY <1>1
<1> HIDE DEF U
<1>3. Fields(U)
  BY <1>2 DEF Fields
<1> QED
  BY <1>2, <1>3 DEF TsOK, U

\* The threads do not see other changes of the process.
LEMMA SameThreads ==
  ASSUME NEW T, NEW l, NEW g, NEW h, NEW w, TsOK(T, l, g, w),
         g.st # "none" => h.st # "none" /\ h.up = g.up
  PROVE  TsOK(T, l, h, w)
BY DEF TsOK

\* What open() makes of the names of the user.
LEMMA NamesOpened ==
  ASSUME DiskInv, gs.st # "none", gs.opened = "no", NEW g,
         \/ world.cls = "array" /\ g = set_namespaces
         \/ world.cls = "trtspdk" /\ g = set_SpdkNamespaceStr
  PROVE  GsOK(g, ids, world) /\ g.st = gs.st /\ g.up = gs.up /\ g.nss = gs.nss /\ g.order = gs.order
<1>1. /\ SoundFor(world, gs.up) /\ GsOK(gs, ids, world) /\ gs.st # "none"
      /\ gs.nss = register_controllers(world, gs.up) /\ gs.order \in Orders(Len(register_controllers(world, gs.up)))
  BY DEF DiskInv, GsOK, WorldSound
<1>2. CASE g = [gs EXCEPT !.opened = "failed"]
  BY <1>1, <1>2 DEF GsOK
<1>3. ASSUME NEW n, g = [gs EXCEPT !.set = TRUE, !.names = n], NamesSet(n, world, gs.up)
      PROVE  GsOK(g, ids, world) /\ g.st = gs.st /\ g.up = gs.up /\ g.nss = gs.nss /\ g.order = gs.order
  BY <1>1, <1>3 DEF GsOK
<1>4. CASE world.cls = "array" /\ g = set_namespaces
  <2>1. CASE Repeated(world.user)
    BY <1>2, <1>4, <2>1 DEF set_namespaces
  <2>2. CASE ~Repeated(world.user)
    <3>1. NamesSet(Sorted(world.user), world, gs.up)
      BY <1>4, <2>2 DEF NamesSet
    <3> QED
      BY <1>3, <1>4, <2>2, <3>1 DEF set_namespaces
  <2> QED
    BY <2>1, <2>2
<1>5. CASE world.cls = "trtspdk" /\ g = set_SpdkNamespaceStr
  <2> DEFINE R == register_controllers(world, gs.up)
             all == getNamespaceNames(gs)
             hit == getQpair_by_prefix(gs, world.user[1])
             n == <<IF hit # <<>> THEN hit[1].name ELSE Sorted(all)[1]>>
  <2>1. /\ R \in Seq(Range(R)) /\ \A i \in DOMAIN R : R[i].name \in Nat
        /\ \A i, j \in DOMAIN R : R[i].name = R[j].name => i = j
        /\ world.user \in Seq(Nat) /\ world.user # <<>>
        /\ \A i \in DOMAIN world.user : OneOf(R, world.has[world.user[i]])
    BY <1>1, <1>5 DEF SoundFor
  <2>2. 1 \in DOMAIN world.user
    BY <2>1
  <2>3. hit = FirstNamed(R, world.has[world.user[1]])
    BY <1>1, <2>1, <2>2, WalkFirst DEF getQpair_by_prefix
  <2>4. Sorted(all) = Sorted(NamesOf(R))
    BY <1>1, <2>1, WalkSorted
  <2>5. n = <<Chosen(world, gs.up)>>
    BY <2>3, <2>4 DEF Chosen
  <2>6. NamesSet(n, world, gs.up)
    BY <1>5, <2>5 DEF NamesSet
  <2>7. g = IF all = <<>> THEN [gs EXCEPT !.opened = "failed"] ELSE [gs EXCEPT !.set = TRUE, !.names = n]
    BY <1>5 DEF set_SpdkNamespaceStr
  <2> HIDE DEF n, all
  <2> QED
    BY <1>2, <1>3, <2>6, <2>7
<1> QED
  BY <1>4, <1>5

\* open() of TrtSpdkArrayIO and TrtSpdkIO.
LEMMA OpenStep ==
  ASSUME DiskInv, NEW t \in SdThreads, ts[t].st = "ready", gs.opened = "no", NEW g,
         \/ world.cls = "array" /\ g = set_namespaces
         \/ world.cls = "trtspdk" /\ g = set_SpdkNamespaceStr,
         Opened(t, g), UNCHANGED <<world, ids>>
  PROVE  DiskInv'
<1>1. gs.st # "none" /\ WorldSound(world) /\ TsOK(ts, layout, gs, world)
  BY DEF DiskInv, TsOK
<1>2. GsOK(g, ids, world) /\ g.st = gs.st /\ g.up = gs.up /\ g.nss = gs.nss /\ g.order = gs.order
  BY <1>1, NamesOpened
<1> DEFINE r == QpairsOf(g)
           f == [g EXCEPT !.opened = "failed"]
           o == [g EXCEPT !.opened = "ok"]
<1>3. /\ GsOK(f, ids, world) /\ f.st = gs.st /\ f.up = gs.up
      /\ g.set => GsOK(o, ids, world) /\ o.st = gs.st /\ o.up = gs.up
  BY <1>2 DEF GsOK
<1>0. SoundFor(world, gs.up) /\ gs.up \in SUBSET Addresses(world) /\ Basis(gs) = BasisOf(world, gs.up)
  <2>1. GsOK(gs, ids, world)
    BY DEF DiskInv
  <2> QED
    BY <1>1, <2>1, BasisIs DEF GsOK, WorldSound
<1>4. CASE ~g.set
  <2>1. gs' = g /\ ts' = ts /\ layout' = layout
    BY <1>4 DEF Opened
  <2>2. TsOK(ts, layout, g, world)
    BY <1>1, <1>2, SameThreads
  <2> QED
    BY <1>1, <1>2, <2>1, <2>2 DEF DiskInv
<1>5. CASE g.set /\ r.fail
  <2>1. gs' = f /\ ts' = ts /\ layout' = layout
    BY <1>5 DEF Opened
  <2>2. TsOK(ts, layout, f, world)
    BY <1>1, <1>3, SameThreads
  <2> QED
    BY <1>1, <1>3, <2>1, <2>2 DEF DiskInv
<1>6. CASE g.set /\ ~r.fail
  <2>1. /\ gs' = o /\ layout' = Known(r.qps)
        /\ ts' = [ts EXCEPT ![t].qps = r.qps, ![t].size = ts_get_size(r.qps)]
    BY <1>6 DEF Opened
  <2>2. r = Disk(world, gs.up)
    BY <1>0, <1>1, <1>2, <1>6, SameQpairs DEF GsOK
  <2>3. ts' = [ts EXCEPT ![t] = [st |-> ts[t].st, qps |-> r.qps, size |-> ts_get_size(r.qps)]]
    <3>1. Fields(ts)
      BY <1>1 DEF TsOK
    <3>2. With(ts, t, r.qps, ts_get_size(r.qps)) = [ts EXCEPT ![t] = [st |-> ts[t].st, qps |-> r.qps, size |-> ts_get_size(r.qps)]]
      BY <3>1, ThreadFields
    <3> QED
      BY <2>1, <3>2 DEF With
  <2>4. layout' = Learnt(layout, BasisOf(world, gs.up), r.qps)
    BY <1>0, <2>1 DEF Known, Learnt
  <2> HIDE DEF r, o
  <2>5. TsOK(ts', layout', o, world)
    <3>1. r.qps = Disk(world, gs.up).qps /\ o.st = gs.st /\ o.up = gs.up
      BY <1>3, <1>6, <2>2
    <3>2. TsOK([ts EXCEPT ![t] = [st |-> ts[t].st, qps |-> r.qps, size |-> ts_get_size(r.qps)]],
               Learnt(layout, BasisOf(world, gs.up), r.qps), o, world)
      BY <1>0, <1>1, <3>1, ThreadGets
    <3> QED
      BY <2>3, <2>4, <3>2
  <2> QED
    BY <1>1, <1>3, <1>6, <2>1, <2>5 DEF DiskInv
<1> QED
  BY <1>4, <1>5, <1>6

\* The first call of another thread.
LEMMA FirstCallStep ==
  ASSUME DiskInv, NEW t \in SdThreads, world.cls # "spdk", SdFirstCall(t)
  PROVE  DiskInv'
<1>1. /\ gs.st # "none" /\ WorldSound(world) /\ TsOK(ts, layout, gs, world) /\ GsOK(gs, ids, world)
      /\ gs.set /\ gs.opened = "ok" /\ UNCHANGED <<world, ids>>
  BY DEF DiskInv, GsOK, SdFirstCall, SdUp
<1>0. SoundFor(world, gs.up) /\ gs.up \in SUBSET Addresses(world) /\ Basis(gs) = BasisOf(world, gs.up)
  BY <1>1, BasisIs DEF GsOK, WorldSound
<1>2. QpairsOf(gs) = Disk(world, gs.up)
  BY <1>0, <1>1, SameQpairs DEF GsOK
<1> DEFINE q == Disk(world, gs.up).qps
<1>3. CASE q = <<>>
  <2>1. gs' = [gs EXCEPT !.dead = TRUE] /\ ts' = ts /\ layout' = layout
    BY <1>2, <1>3 DEF SdFirstCall
  <2>2. GsOK(gs', ids, world) /\ gs'.st = gs.st /\ gs'.up = gs.up
    BY <1>1, <2>1 DEF GsOK
  <2>3. TsOK(ts, layout, gs', world)
    BY <1>1, <2>1, <2>2, SameThreads
  <2> QED
    BY <1>1, <2>1, <2>2, <2>3 DEF DiskInv
<1>4. CASE q # <<>>
  <2>1. /\ gs' = gs /\ layout' = Known(q)
        /\ ts' = [ts EXCEPT ![t].qps = q, ![t].size = ts_get_size(q)]
    BY <1>2, <1>4 DEF SdFirstCall
  <2>2. ts' = [ts EXCEPT ![t] = [st |-> ts[t].st, qps |-> q, size |-> ts_get_size(q)]]
    <3>1. Fields(ts)
      BY <1>1 DEF TsOK
    <3>2. With(ts, t, q, ts_get_size(q)) = [ts EXCEPT ![t] = [st |-> ts[t].st, qps |-> q, size |-> ts_get_size(q)]]
      BY <3>1, ThreadFields
    <3> QED
      BY <2>1, <3>2 DEF With
  <2>3. layout' = Learnt(layout, BasisOf(world, gs.up), q)
    BY <1>0, <2>1 DEF Known, Learnt
  <2>4. q = Disk(world, gs.up).qps
    OBVIOUS
  <2> HIDE DEF q
  <2>5. TsOK(ts', layout', gs, world)
    BY <1>0, <1>1, <2>2, <2>3, <2>4, ThreadGets
  <2> QED
    BY <1>1, <2>1, <2>5 DEF DiskInv
<1> QED
  BY <1>3, <1>4

\* A scheduler of SpdkIOMgr starts.
LEMMA SchedulerStep ==
  ASSUME DiskInv, NEW t \in SdThreads, spdk_io_scheduler_start(t)
  PROVE  DiskInv'
<1>1. /\ gs.st # "none" /\ WorldSound(world) /\ TsOK(ts, layout, gs, world) /\ GsOK(gs, ids, world)
      /\ world.cls = "spdk" /\ UNCHANGED <<world, gs, ids>>
  BY DEF DiskInv, spdk_io_scheduler_start, SdUp
<1>0. SoundFor(world, gs.up) /\ gs.up \in SUBSET Addresses(world) /\ Basis(gs) = BasisOf(world, gs.up)
  BY <1>1, BasisIs DEF GsOK, WorldSound
<1>2. QpairsOf(gs) = Disk(world, gs.up) /\ QpairsOf(gs) = SpdkIOMgr_ts_init(gs)
  <2>1. QpairsOf(gs) = Disk(world, gs.up)
    BY <1>0, <1>1, SameQpairs DEF GsOK
  <2> QED
    BY <1>1, <2>1 DEF QpairsOf
<1> DEFINE q == Disk(world, gs.up).qps
<1>3. /\ ts' = [ts EXCEPT ![t] = [st |-> "ready", qps |-> q, size |-> ts_get_size(q)]]
      /\ layout' = Learnt(layout, BasisOf(world, gs.up), q)
  BY <1>0, <1>2 DEF spdk_io_scheduler_start, SpdkIOMgr_get_size, Known, Learnt
<1>4. q = Disk(world, gs.up).qps
  OBVIOUS
<1> HIDE DEF q
<1>5. TsOK(ts', layout', gs, world)
  BY <1>0, <1>1, <1>3, <1>4, ThreadGets
<1> QED
  BY <1>1, <1>5 DEF DiskInv

\* Steps of a thread that take no queue pairs.
LEMMA ThreadStep ==
  ASSUME DiskInv, NEW t \in SdThreads, SpdkThread_init(t) \/ SpdkThread_close(t) \/ SpdkThread_exit(t)
  PROVE  DiskInv'
<1>1. /\ gs.st # "none" /\ WorldSound(world) /\ TsOK(ts, layout, gs, world) /\ GsOK(gs, ids, world)
      /\ UNCHANGED <<world, gs, ids, layout>>
  BY DEF DiskInv, SpdkThread_init, SpdkThread_close, SpdkThread_exit, SdUp
<1>2. Fields(ts)
  BY <1>1 DEF TsOK
<1>3. CASE SpdkThread_init(t)
  <2>1. ts' = [ts EXCEPT ![t].st = "ready"]
    BY <1>3 DEF SpdkThread_init
  <2>2. ts' = [x \in SdThreads |-> IF x = t THEN [st |-> "ready", qps |-> ts[t].qps, size |-> ts[t].size] ELSE ts[x]]
    BY <1>2, <2>1 DEF Fields
  <2>3. Fields(ts')
    BY <1>2, <2>2 DEF Fields
  <2>4. TsOK(ts', layout, gs, world)
    BY <1>1, <2>2, <2>3 DEF TsOK
  <2> QED
    BY <1>1, <2>4 DEF DiskInv
<1>4. CASE SpdkThread_close(t) \/ SpdkThread_exit(t)
  <2>1. \E st : ts' = [ts EXCEPT ![t] = [st |-> st, qps |-> <<>>, size |-> 0]]
    <3>1. CASE SpdkThread_close(t)
      <4>1. ts' = [ts EXCEPT ![t] = [st |-> ts[t].st, qps |-> <<>>, size |-> 0]]
        <5>1. With(ts, t, <<>>, 0) = [ts EXCEPT ![t] = [st |-> ts[t].st, qps |-> <<>>, size |-> 0]]
          BY <1>2, ThreadFields
        <5> QED
          BY <3>1, <5>1 DEF SpdkThread_close, With
      <4> QED
        BY <4>1
    <3>2. CASE SpdkThread_exit(t)
      <4>1. ts' = [ts EXCEPT ![t] = [st |-> "done", qps |-> <<>>, size |-> 0]]
        <5>1. [NoThread EXCEPT !.st = "done"] = [st |-> "done", qps |-> <<>>, size |-> 0]
          BY DEF NoThread
        <5> QED
          BY <3>2, <5>1 DEF SpdkThread_exit
      <4> QED
        BY <4>1
    <3> QED
      BY <1>4, <3>1, <3>2
  <2>2. TsOK(ts', layout, gs, world)
    <3>1. PICK st : ts' = [ts EXCEPT ![t] = [st |-> st, qps |-> <<>>, size |-> 0]]
      BY <2>1
    <3>2. TsOK([ts EXCEPT ![t] = [st |-> st, qps |-> <<>>, size |-> 0]], layout, gs, world)
      BY <1>1, ThreadLoses
    <3> QED
      BY <3>1, <3>2
  <2> QED
    BY <1>1, <2>2 DEF DiskInv
<1> QED
  BY <1>3, <1>4

\* Users of SpdkIO come and go.
LEMMA UserStep ==
  ASSUME DiskInv, NEW u \in SdUsers,
         SpdkIOThreadState_init(u) \/ SpdkIO_open(u) \/ deregister_user(u)
  PROVE  DiskInv'
<1>1. /\ WorldSound(world) /\ TsOK(ts, layout, gs, world) /\ GsOK(gs, ids, world)
      /\ UNCHANGED <<world, ts, layout>>
  BY DEF DiskInv, SpdkIOThreadState_init, SpdkIO_open, deregister_user
<1>2. world.cls = "spdk"
  BY <1>1 DEF GsOK, SpdkIOThreadState_init, SpdkIO_open, deregister_user
<1>3. \/ gs' = gs \/ gs' = [gs EXCEPT !.dead = TRUE] \/ gs' = [gs EXCEPT !.opened = "failed"]
      \/ gs' = [gs EXCEPT !.opened = "ok"]
  BY DEF SpdkIOThreadState_init, SpdkIO_open, deregister_user
<1>4. GsOK(gs', ids', world) /\ gs'.st = gs.st /\ gs'.up = gs.up
  BY <1>1, <1>2, <1>3 DEF GsOK
<1>5. TsOK(ts, layout, gs', world)
  BY <1>1, <1>4, SameThreads
<1> QED
  BY <1>1, <1>4, <1>5 DEF DiskInv

\* A process begins, and finds the namespaces in some order.
LEMMA ProcessStep ==
  ASSUME DiskInv, SpdkGlobalState_init \/ SdRestart
  PROVE  DiskInv'
<1>1. WorldSound(world) /\ TsOK(ts, layout, gs, world) /\ GsOK(gs, ids, world) /\ world' = world
  BY DEF DiskInv, SpdkGlobalState_init, SdRestart
<1>2. CASE SpdkGlobalState_init
  <2>1. /\ UNCHANGED <<ts, ids, layout>> /\ gs.st = "none"
        /\ \E up \in SUBSET Addresses(world) : \E p \in Orders(Len(register_controllers(world, up))) :
             gs' = [gs EXCEPT !.st = "init", !.up = up, !.nss = register_controllers(world, up), !.order = p]
    BY <1>2 DEF SpdkGlobalState_init
  <2>2. GsOK(gs', ids, world) /\ gs'.st = "init"
    <3>1. PICK up \in SUBSET Addresses(world) : \E p \in Orders(Len(register_controllers(world, up))) :
             gs' = [gs EXCEPT !.st = "init", !.up = up, !.nss = register_controllers(world, up), !.order = p]
      BY <2>1
    <3>2. PICK p \in Orders(Len(register_controllers(world, up))) :
             gs' = [gs EXCEPT !.st = "init", !.up = up, !.nss = register_controllers(world, up), !.order = p]
      BY <3>1
    <3>3. ~gs.set
      BY <1>1, <2>1 DEF GsOK
    <3>4. gs' = [st |-> "init", up |-> up, nss |-> register_controllers(world, up), order |-> p, set |-> gs.set,
                 names |-> gs.names, opened |-> gs.opened, dead |-> gs.dead, run |-> gs.run]
      BY <1>1, <3>2 DEF GsOK
    <3> QED
      BY <1>1, <3>3, <3>4 DEF GsOK
  <2>3. TsOK(ts, layout, gs', world)
    BY <1>1, <2>1, <2>2, SameThreads
  <2> QED
    BY <1>1, <2>1, <2>2, <2>3 DEF DiskInv
<1>3. CASE SdRestart
  <2>1. gs' = NewProcess(gs.run + 1) /\ ts' = [t \in SdThreads |-> NoThread] /\ ids' = NewIds /\ layout' = layout
    BY <1>3 DEF SdRestart
  <2>2. GsOK(gs', ids', world)
    BY <2>1 DEF GsOK, NewProcess, NewIds
  <2>3. TsOK(ts', layout, gs', world)
    BY <1>1, <2>1 DEF TsOK, NoThread, Fields
  <2> QED
    BY <1>1, <2>1, <2>2, <2>3 DEF DiskInv
<1> QED
  BY <1>2, <1>3

\* Every step keeps the disk.
LEMMA NextDiskInv == DiskInv /\ [SdNext]_sdVars => DiskInv'
<1> SUFFICES ASSUME DiskInv, [SdNext]_sdVars PROVE DiskInv'
  OBVIOUS
<1>1. CASE UNCHANGED sdVars
  BY <1>1 DEF DiskInv, sdVars
<1>2. CASE SpdkGlobalState_init \/ SdRestart
  BY <1>2, ProcessStep
<1>3. ASSUME NEW t \in SdThreads, SpdkThread_init(t) \/ SpdkThread_close(t) \/ SpdkThread_exit(t)
      PROVE  DiskInv'
  BY <1>3, ThreadStep
<1>4. ASSUME NEW t \in SdThreads, initThreadState_if_needed(t) \/ setThreadQP_if_needed(t)
      PROVE  DiskInv'
  BY <1>4, FirstCallStep DEF initThreadState_if_needed, setThreadQP_if_needed
<1>5. ASSUME NEW t \in SdThreads, TrtSpdkArrayIO_open(t) PROVE DiskInv'
  BY <1>5, OpenStep DEF TrtSpdkArrayIO_open
<1>6. ASSUME NEW t \in SdThreads, TrtSpdkIO_open(t) PROVE DiskInv'
  BY <1>6, OpenStep DEF TrtSpdkIO_open
<1>7. ASSUME NEW t \in SdThreads, spdk_io_scheduler_start(t) PROVE DiskInv'
  BY <1>7, SchedulerStep
<1>8. ASSUME NEW u \in SdUsers, SpdkIOThreadState_init(u) \/ SpdkIO_open(u) \/ deregister_user(u)
      PROVE  DiskInv'
  BY <1>8, UserStep
<1> QED
  BY <1>1, <1>2, <1>3, <1>4, <1>5, <1>6, <1>7, <1>8 DEF SdNext

\* The invariant is about the right disk: every thread sees the layout, and
\* the addresses of the stripes are places of their own.
LEMMA DiskInvSame == DiskInv => SameDisk
<1> SUFFICES ASSUME DiskInv, NEW t \in SdThreads, ts[t].qps # <<>>
             PROVE  /\ Basis(gs) \in DOMAIN layout /\ Devices(ts[t].qps) = layout[Basis(gs)]
                    /\ \A a \in 0 .. ts[t].size - 1 :
                         /\ Place(t, a).at < Place(t, a).on.size
                         /\ \A b \in 0 .. a - 1 : Place(t, a) # Place(t, b)
  BY DEF SameDisk
<1> DEFINE R == register_controllers(world, gs.up)
           q == Disk(world, gs.up).qps
<1>0. /\ WorldSound(world) /\ GsOK(gs, ids, world) /\ gs.st # "none" /\ LayoutOK(layout, world)
      /\ BasisOf(world, gs.up) \in DOMAIN layout
  BY DEF DiskInv, TsOK
<1>1. SoundFor(world, gs.up) /\ gs.up \in SUBSET Addresses(world) /\ ts[t].qps = q /\ ts[t].size = ts_get_size(q)
  BY <1>0 DEF DiskInv, TsOK, GsOK, WorldSound
<1>9. Basis(gs) \in DOMAIN layout /\ layout[Basis(gs)] = Devices(q)
  <2>1. Basis(gs) = BasisOf(world, gs.up)
    BY <1>0, BasisIs
  <2>2. PICK u \in SUBSET Addresses(world) : /\ BasisOf(world, gs.up) = BasisOf(world, u)
                                            /\ layout[BasisOf(world, gs.up)] = Devices(Disk(world, u).qps)
    BY <1>0 DEF LayoutOK
  <2>3. Devices(Disk(world, u).qps) = Devices(q)
    BY <1>0, <1>1, <2>2, BasisDecides
  <2> QED
    BY <1>0, <2>1, <2>2, <2>3
<1>2. R \in Seq(Range(R)) /\ \A i \in DOMAIN R : \E k \in Nat : R[i].size = k * Blk
  BY <1>1 DEF SoundFor
<1>3. PICK m \in Nat : DOMAIN Wanted(world, gs.up) = 1 .. m
  BY <1>1, WantedApart
<1>4. ApartIn(R, Wanted(world, gs.up))
  BY <1>1, WantedApart
<1>5. SomeOf(R, q)
  <2>1. q = CollectedIn(R, Wanted(world, gs.up)).qps
    BY DEF Disk
  <2> DEFINE S == Wanted(world, gs.up)
  <2>2. DOMAIN S = 1 .. m /\ ApartIn(R, S) /\ q = CollectedIn(R, S).qps
    BY <1>3, <1>4, <2>1
  <2> HIDE DEF q, R, S
  <2> QED
    BY <1>2, <2>2, DiskIs
<1>6. PICK n \in Nat : /\ DOMAIN q = 1 .. n
                       /\ \A i \in 1 .. n : \E k \in DOMAIN R : q[i] = R[k]
                       /\ \A i, j \in 1 .. n : i # j => q[i] # q[j]
                       /\ q = [i \in 1 .. n |-> q[i]]
  BY <1>5 DEF SomeOf
<1> HIDE DEF q
<1>7. \A i \in 1 .. n : \E k \in Nat : q[i].size = k * Blk
  BY <1>2, <1>6
<1>8. \A a \in 0 .. ts[t].size - 1 :
           /\ Place(t, a).at < Place(t, a).on.size
           /\ \A b \in 0 .. a - 1 : Place(t, a) # Place(t, b)
  <2> DEFINE p == ts[t].qps
  <2>1. /\ DOMAIN p = 1 .. n /\ p = [i \in 1 .. n |-> p[i]] /\ p # <<>>
        /\ \A i \in 1 .. n : \E k \in Nat : p[i].size = k * Blk
        /\ \A i, j \in 1 .. n : i # j => p[i] # p[j]
        /\ ts[t].size = ts_get_size(p)
    BY <1>1, <1>6, <1>7
  <2> QED
    BY <2>1, DiskPlaces
<1> QED
  BY <1>1, <1>8, <1>9

\* Where names are different, a string of the user is in one of them, the same
\* one in every process that reaches it, two strings are not in the same one,
\* and sizes are multiples of blk_m, the namespaces of a store are one disk:
\* every address has a place of its own, on a device that is large enough, and
\* it is the same place for every thread of the process and of the processes
\* before it that found the string of the user too (TrtSpdkIO), or reached the
\* same targets; for any number of threads, devices and executions, any size of
\* a stripe and whatever order the hash tables are walked in.  Nothing is said of
\* a process that reaches less and falls back to another name.
THEOREM OneDisk == WorldSound(world) /\ SdSpec => []SameDisk
<1>1. WorldSound(world) /\ SdInit => DiskInv
  BY DEF SdInit, DiskInv, GsOK, TsOK, LayoutOK, Fields, NewProcess, NewIds, NoThread
<1> QED
  BY <1>1, NextDiskInv, DiskInvSame, PTL DEF SdSpec
=============================================================================
