--------------------------- MODULE MapLocksProofs ---------------------------
(***************************************************************************)
(* Operations that hold their map locks never meet in a slot, for any      *)
(* table size, number of locks, bucket size and displacement that are      *)
(* powers of two as in the code.  The loop of restore() asks a lock bucket *)
(* to be HopBucketSize * (1 + MaxDisplace) slots long, which would not be  *)
(* enough: an operation's first lock may begin a bucket before its home.   *)
(* That a bucket more is always there follows from the powers of two.      *)
(***************************************************************************)
EXTENDS MapLocks, NumberLemmas

-----------------------------------------------------------------------------
(* Powers of two *)

\* A factor of a product divides it.
LEMMA FactorDivides ==
  ASSUME NEW d \in Nat, NEW k \in Nat, d >= 1
  PROVE  Divides(d, d * k)
<1>1. d * k \in Nat /\ k <= d * k
  <2>1. d * k = k + (d - 1) * k
    OBVIOUS
  <2>2. (d - 1) * k >= 0
    OBVIOUS
  <2> QED
    BY <2>1, <2>2
<1> QED
  BY <1>1 DEF Divides

\* What divides a factor divides the product.
LEMMA DividesProduct ==
  ASSUME NEW d \in Nat, NEW x \in Nat, NEW y \in Nat, d >= 1, Divides(d, x)
  PROVE  Divides(d, y * x)
<1>1. PICK k \in 0..x : x = d * k
  BY DEF Divides
<1>2. y * x = d * (y * k) /\ y * k \in Nat
  BY <1>1
<1> QED
  BY <1>2, FactorDivides

\* A factor of a power of two is a power of two.
LEMMA FactorOfPower ==
  ASSUME NEW x \in Nat, NEW y \in Nat, is_power_of_two(y * x)
  PROVE  is_power_of_two(x)
<1>1. x > 0 /\ y > 0
  BY DEF is_power_of_two
<1>2. ASSUME NEW d \in 1..x, Divides(d, x) PROVE d = 1 \/ Divides(2, d)
  <2>1. Divides(d, y * x)
    BY <1>2, DividesProduct
  <2>2. d <= y * x /\ y * x \in Nat
    <3>1. y * x = x + (y - 1) * x /\ (y - 1) * x >= 0
      BY <1>1
    <3> QED
      BY <3>1
  <2> QED
    BY <2>1, <2>2 DEF is_power_of_two
<1> QED
  BY <1>1, <1>2 DEF is_power_of_two

\* A power of two is 1, or twice a power of two.
LEMMA HalfOfPower ==
  ASSUME NEW x \in Nat, is_power_of_two(x), x # 1
  PROVE  \E h \in Nat : x = 2 * h /\ h > 0 /\ is_power_of_two(h)
<1>1. Divides(x, x)
  <2>1. x >= 1 /\ x = x * 1
    BY DEF is_power_of_two
  <2> QED
    BY <2>1, FactorDivides
<1>2. Divides(2, x)
  BY <1>1 DEF is_power_of_two
<1>3. PICK h \in 0..x : x = 2 * h
  BY <1>2 DEF Divides
<1>4. is_power_of_two(h)
  BY <1>3, FactorOfPower
<1> QED
  BY <1>3, <1>4 DEF is_power_of_two

\* The smaller of two powers of two divides the larger.
LEMMA PowersDivide ==
  ASSUME NEW x \in Nat, NEW y \in Nat, is_power_of_two(x), is_power_of_two(y), x <= y
  PROVE  Divides(x, y)
<1> DEFINE Bad(u, v) == is_power_of_two(u) /\ is_power_of_two(v) /\ u <= v /\ ~Divides(u, v)
           T == {u \in Nat : \E v \in Nat : Bad(u, v)}
<1>1. SUFFICES T = {}
  OBVIOUS
<1>2. SUFFICES ASSUME T # {} PROVE FALSE
  OBVIOUS
<1>3. PICK u \in T : \A w \in T : u <= w
  <2>1. T \subseteq Nat
    OBVIOUS
  <2> HIDE DEF T
  <2> QED
    BY <1>2, <2>1, LeastNat
<1>4. PICK v \in Nat : Bad(u, v)
  OBVIOUS
<1>5. u # 1
  <2>1. v = 1 * v
    OBVIOUS
  <2>2. Divides(1, v)
    BY <2>1, FactorDivides
  <2> QED
    BY <1>4, <2>2
<1>6. PICK a \in Nat : u = 2 * a /\ a > 0 /\ is_power_of_two(a)
  BY <1>4, <1>5, HalfOfPower
<1>7. PICK b \in Nat : v = 2 * b /\ b > 0 /\ is_power_of_two(b)
  BY <1>4, <1>6, HalfOfPower
<1>8. Divides(a, b)
  <2>1. a \notin T
    BY <1>3, <1>6
  <2>2. ~Bad(a, b)
    BY <2>1
  <2> QED
    BY <1>4, <1>6, <1>7, <2>2
<1>9. PICK k \in 0..b : b = a * k
  BY <1>8 DEF Divides
<1>10. v = u * k
  BY <1>6, <1>7, <1>9
<1>11. Divides(u, v)
  <2>1. u \in Nat /\ u >= 1 /\ k \in Nat
    BY <1>6, <1>9
  <2>2. Divides(u, u * k)
    BY <2>1, FactorDivides
  <2> QED
    BY <1>10, <2>2
<1> QED
  BY <1>4, <1>11

\* round_down_pow2() finds a power of two.
LEMMA RoundDown ==
  ASSUME NEW x \in Nat, x >= 1
  PROVE  round_down_pow2(x) \in 1..x /\ is_power_of_two(round_down_pow2(x))
<1> DEFINE T == {d \in Nat : \E p \in 1..x : is_power_of_two(p) /\ d = x - p}
<1>1. x - 1 \in T
  <2>1. is_power_of_two(1)
    BY DEF is_power_of_two
  <2> QED
    BY <2>1
<1>2. PICK d \in T : \A w \in T : d <= w
  <2>1. T \subseteq Nat
    OBVIOUS
  <2> HIDE DEF T
  <2> QED
    BY <1>1, <2>1, LeastNat
<1>3. PICK p \in 1..x : is_power_of_two(p) /\ d = x - p
  OBVIOUS
<1>4. ASSUME NEW q \in 1..x, is_power_of_two(q) PROVE q <= p
  <2>1. x - q \in T
    BY <1>4
  <2>2. d <= x - q
    BY <1>2, <2>1
  <2> QED
    BY <1>3, <2>2
<1>5. \E r \in 1..x : is_power_of_two(r) /\ \A q \in 1..x : is_power_of_two(q) => q <= r
  BY <1>3, <1>4
<1> QED
  BY <1>5 DEF round_down_pow2

-----------------------------------------------------------------------------
(* The size of the lock buckets *)

\* The slots a hash selects are a power of two.
LEMMA Homes ==
  /\ HopBucketSize \in Nat /\ MaxDisplace \in Nat /\ HopBucketSize >= 2 /\ MaxDisplace >= 2
  /\ HomeNr \in Nat /\ HomeNr >= 1 /\ is_power_of_two(HomeNr)
  /\ entry_nr_m \in Nat /\ entry_nr_m = HomeNr + HopBucketSize
<1>1. RegionEntries - HopBucketSize \in Nat /\ RegionEntries - HopBucketSize >= 1
  BY MapLocksAssumption
<1>2. HomeNr \in 1..(RegionEntries - HopBucketSize) /\ is_power_of_two(HomeNr)
  BY <1>1, RoundDown DEF HomeNr
<1> QED
  BY <1>1, <1>2, MapLocksAssumption DEF entry_nr_m

\* What a rounded up division gives.
LEMMA RoundedUp ==
  ASSUME NEW n \in Nat, NEW l \in Nat, l >= 1
  PROVE  /\ udiv_round_up(n, l) \in Nat
         /\ n <= l * udiv_round_up(n, l)
         /\ l * udiv_round_up(n, l) <= n + l - 1
<1> DEFINE e == udiv_round_up(n, l)
           m == n + l - 1
<1>1. m \in Nat
  OBVIOUS
<1>2. m \div l \in Nat /\ m = l * (m \div l) + (m % l) /\ m % l \in 0..(l - 1)
  <2> HIDE DEF m
  <2> QED
    BY <1>1
<1> QED
  BY <1>2 DEF udiv_round_up

\* A lock bucket that passes the loop's test is a bucket longer than the test
\* asks for: the slots of a lock bucket and those of a displacement are both
\* powers of two, up to the tail of the table.
LEMMA LockBucketSize ==
  ASSUME NEW l \in Nat, is_power_of_two(l), l # 1,
         NEW e, e = udiv_round_up(entry_nr_m, l),
         HopBucketSize * (1 + MaxDisplace) <= e
  PROVE  /\ e \in Nat
         /\ entry_nr_m <= l * e
         /\ HopBucketSize * (MaxDisplace + 2) <= e
<1> DEFINE B == HopBucketSize
           P == HomeNr
           C == HopBucketSize * MaxDisplace
<1>0. /\ B \in Nat /\ B >= 2 /\ MaxDisplace \in Nat /\ MaxDisplace >= 2
      /\ P \in Nat /\ is_power_of_two(P) /\ entry_nr_m = P + B /\ l >= 2
      /\ C \in Nat /\ C >= 2 * B /\ is_power_of_two(C)
  <2>1. HopBucketSize * MaxDisplace = 2 * HopBucketSize + HopBucketSize * (MaxDisplace - 2)
    BY Homes
  <2>2. HopBucketSize * (MaxDisplace - 2) >= 0
    BY Homes
  <2>3. l >= 2
    BY DEF is_power_of_two
  <2> QED
    BY <2>1, <2>2, <2>3, Homes, MapLocksAssumption
<1>1. e \in Nat /\ P + B <= l * e /\ l * e <= P + B + l - 1
  <2>1. entry_nr_m \in Nat /\ l >= 1
    BY <1>0, Homes
  <2>2. /\ e \in Nat
        /\ entry_nr_m <= l * e
        /\ l * e <= entry_nr_m + l - 1
    BY <2>1, RoundedUp
  <2> QED
    BY <1>0, <2>2
<1>2. C + B <= e
  BY <1>0
<1> HIDE DEF B, P, C
<1>3. l <= P
  <2> SUFFICES ASSUME P < l PROVE FALSE
    BY <1>0
  <2>1. l * (e - 2) <= B - 2
    <3>1. l * (e - 2) = l * e - 2 * l
      BY <1>0, <1>1
    <3> QED
      BY <1>0, <1>1, <3>1
  <2>2. l * (e - 2) >= 2 * (e - 2)
    <3>1. l * (e - 2) = 2 * (e - 2) + (l - 2) * (e - 2)
      BY <1>0, <1>1
    <3>2. (l - 2) * (e - 2) >= 0
      BY <1>0, <1>1, <1>2
    <3>3. (l - 2) * (e - 2) \in Int /\ l * (e - 2) \in Int
      BY <1>0, <1>1
    <3> QED
      BY <1>0, <1>1, <3>1, <3>2, <3>3
  <2>3. l * (e - 2) \in Int
    BY <1>0, <1>1
  <2> QED
    BY <1>0, <1>1, <1>2, <2>1, <2>2, <2>3
<1>4. PICK q \in Nat : P = l * q
  <2>1. Divides(l, P)
    BY <1>0, <1>3, PowersDivide
  <2> QED
    BY <1>0, <2>1 DEF Divides
<1>5. is_power_of_two(q)
  BY <1>0, <1>4, FactorOfPower
<1>6. q > C
  <2> SUFFICES ASSUME q <= C PROVE FALSE
    BY <1>0, <1>4
  <2>1. l * (e - 1 - q) <= B - 1
    <3>1. l * (e - 1 - q) = l * e - l - l * q
      BY <1>0, <1>1, <1>4
    <3>2. l * e \in Int /\ l * q \in Int /\ l * (e - 1 - q) \in Int
      BY <1>0, <1>1, <1>4
    <3> QED
      BY <1>0, <1>1, <1>4, <3>1, <3>2
  <2>2. l * (e - 1 - q) >= 2 * (e - 1 - q)
    <3>1. l * (e - 1 - q) = 2 * (e - 1 - q) + (l - 2) * (e - 1 - q)
      BY <1>0, <1>1, <1>4
    <3>2. e - 1 - q >= 0
      BY <1>0, <1>1, <1>2, <1>4
    <3>3. (l - 2) * (e - 1 - q) >= 0
      BY <1>0, <1>1, <1>4, <3>2
    <3>4. (l - 2) * (e - 1 - q) \in Int /\ l * (e - 1 - q) \in Int
      BY <1>0, <1>1, <1>4
    <3> QED
      BY <1>0, <1>1, <1>4, <3>1, <3>3, <3>4
  <2>3. l * (e - 1 - q) \in Int
    BY <1>0, <1>1, <1>4
  <2> QED
    BY <1>0, <1>1, <1>2, <1>4, <2>1, <2>2, <2>3
<1>7. q >= 2 * C
  <2>1. Divides(C, q)
    BY <1>0, <1>4, <1>5, <1>6, PowersDivide
  <2>2. PICK k \in Nat : q = C * k
    BY <1>4, <2>1 DEF Divides
  <2>3. k >= 2
    <3>1. k # 0 /\ k # 1
      BY <1>0, <1>6, <2>2
    <3> QED
      BY <3>1
  <2>4. C * k = 2 * C + C * (k - 2)
    BY <1>0
  <2>5. C * (k - 2) >= 0 /\ C * (k - 2) \in Int
    BY <1>0, <2>3
  <2> QED
    BY <1>0, <2>2, <2>4, <2>5
<1>8. e > q
  <2> SUFFICES ASSUME e <= q PROVE FALSE
    BY <1>1, <1>4
  <2>1. l * q = l * e + l * (q - e)
    BY <1>0, <1>1, <1>4
  <2>2. l * (q - e) >= 0
    BY <1>0, <1>1, <1>4
  <2>3. l * q \in Int /\ l * e \in Int /\ l * (q - e) \in Int
    BY <1>0, <1>1, <1>4
  <2> QED
    BY <1>0, <1>1, <1>4, <2>1, <2>2, <2>3
<1>9. HopBucketSize * (MaxDisplace + 2) = C + 2 * B
  BY <1>0 DEF B, C
<1> QED
  BY <1>0, <1>1, <1>4, <1>7, <1>8, <1>9

-----------------------------------------------------------------------------
(* The locks of an operation *)

\* The number and the size of the lock buckets, during and after restore()
GoodSize ==
  /\ lock_nr_m \in 1..RestoreLockNr
  /\ is_power_of_two(lock_nr_m)
  /\ entry_per_lock_nr_m \in Nat
  /\ entry_per_lock_nr_m # 0 =>
       /\ entry_nr_m <= lock_nr_m * entry_per_lock_nr_m
       /\ \/ lock_nr_m = 1 /\ entry_per_lock_nr_m = entry_nr_m
          \/ HopBucketSize * (MaxDisplace + 2) <= entry_per_lock_nr_m

\* Where the first lock bucket lies: it begins at the home slot or before it,
\* and unless it is the first of the table a whole bucket before it; the home
\* slot is less than a bucket past its end.
LEMMA FirstLock ==
  ASSUME GoodSize, entry_per_lock_nr_m # 0, NEW first \in 0..(HomeNr - 1)
  PROVE  /\ Slb(first) \in Nat
         /\ Slb(first) * entry_per_lock_nr_m <= first
         /\ Slb(first) # 0 => Slb(first) * entry_per_lock_nr_m <= first - HopBucketSize
         /\ first <= (Slb(first) + 1) * entry_per_lock_nr_m + HopBucketSize - 1
<1> DEFINE E == entry_per_lock_nr_m
           B == HopBucketSize
           s == Slb(first)
<1>1. /\ E \in Nat /\ E >= 1 /\ E > B /\ B \in Nat /\ B >= 2
      /\ first \in Nat
  <2>1. HopBucketSize * (MaxDisplace + 2) = 2 * HopBucketSize + HopBucketSize * MaxDisplace
    BY Homes
  <2>2. HopBucketSize * MaxDisplace \in Nat
    BY Homes
  <2>3. HopBucketSize * (MaxDisplace + 2) > HopBucketSize
    BY <2>1, <2>2, Homes
  <2>4. entry_nr_m > HopBucketSize
    BY Homes
  <2> QED
    BY <2>3, <2>4, Homes DEF GoodSize
<1>2. CASE B <= first
  <2>1. PICK m \in Nat : m = first - B
    BY <1>1, <1>2
  <2>2. s = m \div E
    BY <1>2, <2>1 DEF Slb
  <2> HIDE DEF s, E, B
  <2>3. m \div E \in Nat /\ m = E * (m \div E) + (m % E) /\ m % E \in 0..(E - 1)
    BY <1>1
  <2>4. s \in Nat /\ s * E <= m /\ m <= s * E + E - 1
    BY <1>1, <2>2, <2>3
  <2>5. (s + 1) * E = s * E + E /\ s * E \in Nat
    BY <1>1, <2>4
  <2> QED
    BY <1>1, <2>1, <2>4, <2>5 DEF s, E, B
<1>3. CASE first < B
  <2>1. s = first \div E
    BY <1>1, <1>3 DEF Slb
  <2> HIDE DEF s, E, B
  <2>2. s = 0
    BY <1>1, <1>3, <2>1
  <2>3. s * E = 0 /\ (s + 1) * E = E
    BY <1>1, <2>2
  <2> QED
    BY <1>1, <1>3, <2>2, <2>3 DEF s, E, B
<1> QED
  BY <1>1, <1>2, <1>3

\* A lock bucket that begins before the end of the table has a lock.
LEMMA LockExists ==
  ASSUME GoodSize, entry_per_lock_nr_m # 0, NEW l \in Nat,
         l * entry_per_lock_nr_m < entry_nr_m
  PROVE  l < lock_nr_m
<1> DEFINE E == entry_per_lock_nr_m
           L == lock_nr_m
<1>1. E \in Nat /\ L \in Nat /\ l * E < L * E
  <2>1. E \in Nat /\ L \in Nat /\ entry_nr_m <= L * E /\ entry_nr_m \in Nat
    BY Homes, MapLocksAssumption DEF GoodSize
  <2>2. l * E \in Nat /\ L * E \in Nat
    BY <2>1
  <2> QED
    BY <2>1, <2>2
<1> HIDE DEF E, L
<1> SUFFICES ASSUME L <= l PROVE FALSE
  BY <1>1 DEF L
<1>2. l * E = L * E + (l - L) * E
  BY <1>1
<1>3. (l - L) * E >= 0 /\ (l - L) * E \in Int /\ L * E \in Int
  BY <1>1
<1> QED
  BY <1>1, <1>2, <1>3

\* The assertions of lock_common() hold.
LEMMA Asserts ==
  ASSUME GoodSize, entry_per_lock_nr_m # 0, NEW first \in 0..(HomeNr - 1)
  PROVE  LockAsserts(first)
<1> DEFINE E == entry_per_lock_nr_m
           s == Slb(first)
           W == HopBucketSize * (MaxDisplace + 1)
<1>1. /\ E \in Nat /\ s \in Nat /\ s * E \in Nat /\ (s + 1) * E = s * E + E
      /\ (s + 2) * E = s * E + E + E
      /\ W \in Nat /\ HopBucketSize * (MaxDisplace + 2) = W + HopBucketSize
      /\ LastLocked(first) \in Int
      /\ LastLocked(first) <= first + W /\ LastLocked(first) <= HomeNr - 1
  <2>1. E \in Nat /\ s \in Nat
    BY FirstLock DEF GoodSize
  <2> HIDE DEF E, s
  <2>2. s * E \in Nat /\ (s + 1) * E = s * E + E /\ (s + 2) * E = s * E + E + E
    BY <2>1
  <2>3. W \in Nat /\ HopBucketSize * (MaxDisplace + 2) = W + HopBucketSize
    BY Homes
  <2> HIDE DEF W
  <2>4. /\ LastLocked(first) \in Int
        /\ LastLocked(first) <= first + W /\ LastLocked(first) <= HomeNr - 1
    BY <2>3, Homes DEF LastLocked, W
  <2> QED
    BY <2>1, <2>2, <2>3, <2>4
<1>2. s * E <= first /\ first <= s * E + E + HopBucketSize - 1
  BY <1>1, FirstLock
<1> HIDE DEF W
<1>3. s < lock_nr_m
  <2>1. s * E < entry_nr_m
    BY <1>1, <1>2, Homes
  <2> QED
    BY <1>1, <2>1, LockExists
<1>4. ASSUME TwoLocks(first)
      PROVE  s + 1 < lock_nr_m /\ LastLocked(first) <= (s + 2) * E
  <2>1. (s + 1) * E <= LastLocked(first)
    BY <1>4 DEF TwoLocks
  <2>2. s + 1 < lock_nr_m
    <3>1. (s + 1) * E < entry_nr_m /\ s + 1 \in Nat
      BY <1>1, <2>1, Homes
    <3> QED
      BY <3>1, LockExists
  <2>3. HopBucketSize * (MaxDisplace + 2) <= E
    BY <1>1, <2>2 DEF GoodSize
  <2> HIDE DEF E, s
  <2>4. LastLocked(first) <= (s + 2) * E
    BY <1>1, <1>2, <2>3, Homes
  <2> QED
    BY <2>2, <2>4
<1> QED
  BY <1>2, <1>3, <1>4 DEF LockAsserts

\* An operation stays within a bucket before its home slot and the slots it
\* asks the locks for.
LEMMA TouchedBounds ==
  ASSUME NEW first \in 0..(HomeNr - 1), NEW x \in Touched(first)
  PROVE  /\ x \in Int
         /\ first + 2 - HopBucketSize <= x
         /\ x < first + HopBucketSize * (MaxDisplace + 1)
<1> DEFINE C == HopBucketSize * MaxDisplace
<1>1. C \in Nat /\ C >= HopBucketSize /\ HopBucketSize * (MaxDisplace + 1) = C + HopBucketSize
  <2>1. C = HopBucketSize + HopBucketSize * (MaxDisplace - 1)
    BY Homes
  <2>2. HopBucketSize * (MaxDisplace - 1) >= 0 /\ HopBucketSize * (MaxDisplace - 1) \in Int
    BY Homes
  <2> QED
    BY <2>1, <2>2, Homes
<1>2. ShiftEnd(first) \in Int /\ ShiftEnd(first) <= first + C
  <2> HIDE DEF C
  <2> QED
    BY <1>1, Homes DEF ShiftEnd, C
<1> HIDE DEF C
<1>3. CASE x \in Bucket(first)
  BY <1>1, <1>3, Homes DEF Bucket
<1>4. CASE x \in (first + HopBucketSize)..(ShiftEnd(first) - 1)
  BY <1>1, <1>2, <1>4, Homes
<1>5. CASE \E c \in ShiftedHomes(first) : x \in Bucket(c)
  <2>1. PICK c \in ShiftedHomes(first) : x \in Bucket(c)
    BY <1>5
  <2>2. /\ c \in 0..(HomeNr - 1)
        /\ \E p \in (first + 1)..(ShiftEnd(first) - 2) : p \in Bucket(c)
    BY <2>1 DEF ShiftedHomes
  <2>3. PICK p \in (first + 1)..(ShiftEnd(first) - 2) : p \in Bucket(c)
    BY <2>2
  <2> QED
    BY <1>1, <1>2, <2>1, <2>2, <2>3, Homes DEF Bucket
<1> QED
  BY <1>3, <1>4, <1>5 DEF Touched

\* Operations whose locks differ work on different slots; the one whose first
\* lock is earlier is named first.
LEMMA DisjointInOrder ==
  ASSUME GoodSize, entry_per_lock_nr_m # 0,
         NEW f1 \in 0..(HomeNr - 1), NEW f2 \in 0..(HomeNr - 1),
         Slb(f1) < Slb(f2),
         ~(TwoLocks(f1) /\ Slb(f2) = Slb(f1) + 1)
  PROVE  Touched(f1) \cap Touched(f2) = {}
<1> DEFINE E == entry_per_lock_nr_m
           B == HopBucketSize
           W == HopBucketSize * (MaxDisplace + 1)
           s1 == Slb(f1)
           s2 == Slb(f2)
<1>1. SUFFICES ASSUME NEW x \in Touched(f1), NEW y \in Touched(f2), x = y
               PROVE  FALSE
  OBVIOUS
<1>2. /\ x \in Int /\ x < f1 + W /\ f2 + 2 - B <= x
      /\ f1 \in Nat /\ f2 \in Nat /\ f2 <= HomeNr - 1 /\ HomeNr \in Nat
      /\ E \in Nat /\ B \in Nat /\ B >= 2 /\ W \in Nat
      /\ HopBucketSize * (MaxDisplace + 2) = W + B
  BY <1>1, TouchedBounds, Homes DEF GoodSize
<1>3. /\ s1 \in Nat /\ s2 \in Nat /\ s1 < s2
      /\ f1 <= (s1 + 1) * E + B - 1
      /\ s2 * E <= f2 - B
  BY FirstLock
<1>4. s2 < lock_nr_m
  BY Asserts DEF LockAsserts
<1>5. W + B <= E
  BY <1>2, <1>3, <1>4 DEF GoodSize
<1>6. LastLocked(f1) = IF f1 + W <= HomeNr - 1 THEN f1 + W ELSE HomeNr - 1
  BY Homes DEF LastLocked
<1>7. ASSUME NEW n \in Nat, n <= s2 PROVE n * E <= f2 - B /\ n * E \in Nat
  <2> HIDE DEF s1, s2, E, B, W
  <2>1. s2 * E = n * E + (s2 - n) * E
    BY <1>2, <1>3
  <2>2. n * E \in Nat /\ (s2 - n) * E \in Int /\ (s2 - n) * E >= 0 /\ s2 * E \in Nat
    BY <1>2, <1>3, <1>7
  <2> QED
    BY <1>2, <1>3, <2>1, <2>2
<1>8. CASE ~TwoLocks(f1)
  <2>1. LastLocked(f1) < (s1 + 1) * E
    <3>1. LastLocked(f1) \in Int /\ (s1 + 1) * E \in Int
      BY <1>2, <1>3, <1>6
    <3> QED
      BY <1>8, <3>1 DEF TwoLocks
  <2>2. s1 + 1 \in Nat /\ s1 + 1 <= s2
    BY <1>3
  <2>3. (s1 + 1) * E <= f2 - B /\ (s1 + 1) * E \in Nat
    BY <1>7, <2>2
  <2> HIDE DEF s1, s2, E, B, W
  <2> QED
    BY <1>2, <1>6, <2>1, <2>3
<1>9. CASE TwoLocks(f1)
  <2>1. s1 + 2 \in Nat /\ s1 + 2 <= s2
    BY <1>3, <1>9
  <2>2. (s1 + 2) * E <= f2 - B /\ (s1 + 2) * E \in Nat
    BY <1>7, <2>1
  <2> HIDE DEF s1, s2, E, B, W
  <2>3. (s1 + 2) * E = (s1 + 1) * E + E /\ (s1 + 1) * E \in Nat
    BY <1>2, <1>3
  <2> QED
    BY <1>2, <1>3, <1>5, <2>2, <2>3
<1> QED
  BY <1>8, <1>9

\* The lock buckets of an operation on a home slot
LocksOf(first) == {Slb(first)} \cup (IF TwoLocks(first) THEN {Slb(first) + 1} ELSE {})

\* Operations that share no lock share no slot.
LEMMA Disjoint ==
  ASSUME GoodSize, entry_per_lock_nr_m # 0,
         NEW f1 \in 0..(HomeNr - 1), NEW f2 \in 0..(HomeNr - 1),
         LocksOf(f1) \cap LocksOf(f2) = {}
  PROVE  Touched(f1) \cap Touched(f2) = {}
<1>1. Slb(f1) \in Nat /\ Slb(f2) \in Nat
  BY FirstLock
<1>2. /\ Slb(f1) # Slb(f2)
      /\ ~(TwoLocks(f1) /\ Slb(f2) = Slb(f1) + 1)
      /\ ~(TwoLocks(f2) /\ Slb(f1) = Slb(f2) + 1)
  BY DEF LocksOf
<1>3. CASE Slb(f1) < Slb(f2)
  BY <1>2, <1>3, DisjointInOrder
<1>4. CASE Slb(f2) < Slb(f1)
  BY <1>2, <1>4, DisjointInOrder
<1> QED
  BY <1>1, <1>2, <1>3, <1>4

-----------------------------------------------------------------------------
(* The inductive invariant *)

\* Who holds which lock: the two locks are held from the step that takes them
\* to the step that drops them.
HoldsFirst(o) == mpc[o] \in {"sl2", "inside", "unlock2", "unlock1"}
HoldsSecond(o) == mpc[o] = "unlock2" \/ (mpc[o] = "inside" /\ NeedsTwo(o))

Holders ==
  \A o \in MapOps :
    /\ mpc[o] # "idle" => entry_per_lock_nr_m # 0
    /\ mpc[o] \in {"sl2", "unlock2"} => NeedsTwo(o)
    /\ HoldsFirst(o) => mapLocks[Sl1(o)] = o
    /\ HoldsSecond(o) => mapLocks[Sl2(o)] = o

MapInv == MapTypeOK /\ GoodSize /\ Holders

\* The home slot of a hash
LEMMA HomeOfHash ==
  ASSUME NEW h \in Nat
  PROVE  hash_to_hb(h) \in 0..(HomeNr - 1)
BY Homes DEF hash_to_hb

\* The locks of an operation are among the locks of the table.
LEMMA LockInTable ==
  ASSUME MapInv, NEW o \in MapOps, entry_per_lock_nr_m # 0
  PROVE  /\ Sl1(o) \in LockIds
         /\ NeedsTwo(o) => Sl2(o) \in LockIds
         /\ Sl1(o) \in Nat /\ Sl2(o) = Sl1(o) + 1
<1> DEFINE f == hash_to_hb(mhash[o])
<1>1. f \in 0..(HomeNr - 1)
  BY HomeOfHash DEF MapInv, MapTypeOK
<1>2. GoodSize /\ lock_nr_m \in 1..RestoreLockNr /\ RestoreLockNr \in Nat
  BY MapLocksAssumption DEF MapInv, GoodSize
<1> HIDE DEF f
<1>3. LockAsserts(f)
  BY <1>1, <1>2, Asserts
<1>4. Slb(f) \in Nat
  BY <1>1, <1>2, FirstLock
<1> QED
  BY <1>2, <1>3, <1>4 DEF LockAsserts, LockIds, Sl1, Sl2, NeedsTwo, f

\* restore() starts with a power of two and no lock bucket.
LEMMA InitMapInv == MapInit => MapInv
<1> SUFFICES ASSUME MapInit PROVE MapInv
  OBVIOUS
<1>1. RestoreLockNr \in 1..RestoreLockNr /\ is_power_of_two(RestoreLockNr)
  BY MapLocksAssumption DEF is_power_of_two
<1>2. MapTypeOK
  BY <1>1 DEF MapInit, MapTypeOK, MapPc
<1>3. GoodSize
  BY <1>1 DEF MapInit, GoodSize
<1>4. Holders
  BY DEF MapInit, Holders, HoldsFirst, HoldsSecond
<1> QED
  BY <1>2, <1>3, <1>4 DEF MapInv

\* A round of the loop of restore() keeps the invariant; when it ends, a lock
\* bucket is large enough.
LEMMA RestoreStep ==
  ASSUME MapInv, restore
  PROVE  MapInv'
<1> DEFINE e == IF lock_nr_m = 1 THEN entry_nr_m ELSE udiv_round_up(entry_nr_m, lock_nr_m)
<1>1. /\ entry_per_lock_nr_m = 0 /\ UNCHANGED <<mapLocks, mpc, mhash>>
      /\ IF lock_nr_m = 1 \/ HopBucketSize * (1 + MaxDisplace) <= e
           THEN entry_per_lock_nr_m' = e /\ UNCHANGED lock_nr_m
           ELSE lock_nr_m' = lock_nr_m \div 2 /\ UNCHANGED entry_per_lock_nr_m
  BY DEF restore
<1>2. \A o \in MapOps : mpc[o] = "idle"
  BY <1>1 DEF MapInv, Holders
<1>3. /\ lock_nr_m \in 1..RestoreLockNr /\ lock_nr_m \in Nat /\ is_power_of_two(lock_nr_m)
      /\ RestoreLockNr \in Nat
  BY MapLocksAssumption DEF MapInv, GoodSize
<1>4. GoodSize' /\ entry_per_lock_nr_m' \in Nat
  <2>1. CASE lock_nr_m = 1
    <3>1. entry_per_lock_nr_m' = entry_nr_m /\ lock_nr_m' = 1 /\ lock_nr_m' = lock_nr_m
      BY <1>1, <2>1
    <3>2. entry_nr_m <= 1 * entry_nr_m /\ entry_nr_m \in Nat
      BY Homes
    <3>3. entry_nr_m' = entry_nr_m
      BY DEF entry_nr_m, HomeNr
    <3> QED
      BY <1>3, <3>1, <3>2, <3>3 DEF GoodSize
  <2>2. CASE lock_nr_m # 1 /\ HopBucketSize * (1 + MaxDisplace) <= e
    <3>1. entry_per_lock_nr_m' = e /\ lock_nr_m' = lock_nr_m /\ e = udiv_round_up(entry_nr_m, lock_nr_m)
      BY <1>1, <2>2
    <3> HIDE DEF e
    <3>2. /\ e \in Nat /\ entry_nr_m <= lock_nr_m * e
          /\ HopBucketSize * (MaxDisplace + 2) <= e
      BY <1>3, <2>2, <3>1, LockBucketSize
    <3> QED
      BY <1>3, <3>1, <3>2 DEF GoodSize
  <2>3. CASE lock_nr_m # 1 /\ ~(HopBucketSize * (1 + MaxDisplace) <= e)
    <3>1. lock_nr_m' = lock_nr_m \div 2 /\ entry_per_lock_nr_m' = 0
      BY <1>1, <2>3
    <3>2. PICK h \in Nat : lock_nr_m = 2 * h /\ h > 0 /\ is_power_of_two(h)
      BY <1>3, <2>3, HalfOfPower
    <3>3. lock_nr_m' = h
      BY <3>1, <3>2
    <3>4. h \in 1..RestoreLockNr
      BY <1>3, <3>2
    <3> QED
      BY <3>1, <3>2, <3>3, <3>4 DEF GoodSize
  <2> QED
    BY <2>1, <2>2, <2>3
<1>5. MapTypeOK'
  BY <1>1, <1>4 DEF MapInv, MapTypeOK, GoodSize
<1>6. Holders'
  BY <1>1, <1>2 DEF Holders, HoldsFirst, HoldsSecond
<1> QED
  BY <1>4, <1>5, <1>6 DEF MapInv

\* While the lock buckets stay, an operation whose hash stays keeps its locks.
LEMMA LocksStay ==
  ASSUME UNCHANGED <<lock_nr_m, entry_per_lock_nr_m>>,
         NEW o \in MapOps, mhash'[o] = mhash[o]
  PROVE  /\ Sl1(o)' = Sl1(o) /\ Sl2(o)' = Sl2(o) /\ (NeedsTwo(o)' <=> NeedsTwo(o))
BY DEF Sl1, Sl2, NeedsTwo, Slb, TwoLocks, LastLocked, hash_to_hb, HomeNr, entry_nr_m

\* The steps of an operation keep the invariant.
LEMMA OperationStep ==
  ASSUME MapInv, NEW o \in MapOps,
         \/ \E h \in Hashes : MapLock(o, h)
         \/ TakeFirst(o) \/ TakeSecond(o) \/ MapUnlock(o) \/ DropSecond(o) \/ DropFirst(o)
  PROVE  MapInv'
<1>1. /\ UNCHANGED <<lock_nr_m, entry_per_lock_nr_m>>
      /\ mpc' = [mpc EXCEPT ![o] = mpc'[o]] /\ mpc'[o] \in MapPc
      /\ mhash' = [mhash EXCEPT ![o] = mhash'[o]] /\ mhash'[o] \in Nat
  <2> USE MapLocksAssumption DEF MapInv, MapTypeOK
  <2>1. CASE \E h \in Hashes : MapLock(o, h)
    BY <2>1 DEF MapLock, MapGoes, MapPc
  <2>2. CASE TakeFirst(o)
    BY <2>2 DEF TakeFirst, MapGoes, MapPc
  <2>3. CASE TakeSecond(o)
    BY <2>3 DEF TakeSecond, MapGoes, MapPc
  <2>4. CASE MapUnlock(o)
    BY <2>4 DEF MapUnlock, MapGoes, MapPc
  <2>5. CASE DropSecond(o)
    BY <2>5 DEF DropSecond, MapGoes, MapPc
  <2>6. CASE DropFirst(o)
    BY <2>6 DEF DropFirst, MapGoes, MapPc
  <2> QED
    BY <2>1, <2>2, <2>3, <2>4, <2>5, <2>6
<1>2. GoodSize'
  BY <1>1 DEF MapInv, GoodSize, entry_nr_m, HomeNr
<1>3. entry_per_lock_nr_m # 0
  BY DEF MapInv, Holders, MapLock, TakeFirst, TakeSecond, MapUnlock, DropSecond, DropFirst, MapGoes
<1>4. MapTypeOK'
  <2>1. mapLocks' \in [LockIds -> MapOps \cup {NoOp}]
    BY DEF MapInv, MapTypeOK, MapLock, TakeFirst, TakeSecond, MapUnlock, DropSecond, DropFirst
  <2> QED
    BY <1>1, <2>1 DEF MapInv, MapTypeOK
<1>5. ASSUME NEW p \in MapOps, p # o
      PROVE  /\ mpc'[p] = mpc[p] /\ mhash'[p] = mhash[p]
             /\ Sl1(p)' = Sl1(p) /\ Sl2(p)' = Sl2(p) /\ (NeedsTwo(p)' <=> NeedsTwo(p))
             /\ Sl1(p) \in LockIds /\ (NeedsTwo(p) => Sl2(p) \in LockIds)
  <2>1. mpc'[p] = mpc[p] /\ mhash'[p] = mhash[p]
    BY <1>1, <1>5 DEF MapInv, MapTypeOK
  <2> QED
    BY <1>1, <1>3, <2>1, LocksStay, LockInTable
<1>6. ASSUME NEW p \in MapOps, p # o, NEW i \in LockIds, mapLocks[i] = p
      PROVE  mapLocks'[i] = p
  <2>1. mapLocks \in [LockIds -> MapOps \cup {NoOp}] /\ p # NoOp
    BY MapLocksAssumption DEF MapInv, MapTypeOK
  <2>2. CASE UNCHANGED mapLocks
    BY <1>6, <2>2
  <2>3. CASE TakeFirst(o)
    BY <1>6, <2>1, <2>3 DEF TakeFirst
  <2>4. CASE TakeSecond(o)
    BY <1>6, <2>1, <2>4 DEF TakeSecond
  <2>5. CASE DropSecond(o)
    <3>1. mapLocks[Sl2(o)] = o
      BY <2>5 DEF DropSecond, MapGoes, MapInv, Holders, HoldsSecond
    <3> QED
      BY <1>6, <2>1, <2>5, <3>1 DEF DropSecond
  <2>6. CASE DropFirst(o)
    <3>1. mapLocks[Sl1(o)] = o
      BY <2>6 DEF DropFirst, MapGoes, MapInv, Holders, HoldsFirst
    <3> QED
      BY <1>6, <2>1, <2>6, <3>1 DEF DropFirst
  <2> QED
    BY <2>2, <2>3, <2>4, <2>5, <2>6 DEF MapLock, MapUnlock
<1>7. ASSUME NEW p \in MapOps
      PROVE  /\ mpc'[p] # "idle" => entry_per_lock_nr_m' # 0
             /\ mpc'[p] \in {"sl2", "unlock2"} => NeedsTwo(p)'
             /\ HoldsFirst(p)' => mapLocks'[Sl1(p)'] = p
             /\ HoldsSecond(p)' => mapLocks'[Sl2(p)'] = p
  <2>1. CASE p # o
    <3>1. /\ mpc[p] \in {"sl2", "unlock2"} => NeedsTwo(p)
          /\ HoldsFirst(p) => mapLocks[Sl1(p)] = p
          /\ HoldsSecond(p) => mapLocks[Sl2(p)] = p
      BY DEF MapInv, Holders
    <3>2. (HoldsFirst(p)' <=> HoldsFirst(p)) /\ (HoldsSecond(p)' <=> HoldsSecond(p))
      BY <1>5, <2>1 DEF HoldsFirst, HoldsSecond
    <3>3. HoldsSecond(p) => NeedsTwo(p)
      BY <3>1 DEF HoldsSecond
    <3> QED
      BY <1>1, <1>3, <1>5, <1>6, <2>1, <3>1, <3>2, <3>3
  <2>2. CASE p = o
    <3>1. /\ Sl1(o) \in LockIds /\ (NeedsTwo(o) => Sl2(o) \in LockIds)
          /\ Sl1(o) \in Nat /\ Sl2(o) = Sl1(o) + 1
      BY <1>3, LockInTable
    <3>2. mapLocks \in [LockIds -> MapOps \cup {NoOp}] /\ mpc \in [MapOps -> MapPc]
      BY DEF MapInv, MapTypeOK
    <3>3. /\ mpc[o] \in {"sl2", "unlock2"} => NeedsTwo(o)
          /\ HoldsFirst(o) => mapLocks[Sl1(o)] = o
          /\ HoldsSecond(o) => mapLocks[Sl2(o)] = o
      BY DEF MapInv, Holders
    <3>4. CASE \E h \in Hashes : MapLock(o, h)
      BY <1>1, <1>3, <2>2, <3>2, <3>4 DEF MapLock, MapGoes, HoldsFirst, HoldsSecond
    <3>5. CASE DropFirst(o)
      BY <1>1, <1>3, <2>2, <3>2, <3>5 DEF DropFirst, MapGoes, HoldsFirst, HoldsSecond
    <3>6. CASE mhash' = mhash
      <4>1. Sl1(o)' = Sl1(o) /\ Sl2(o)' = Sl2(o) /\ (NeedsTwo(o)' <=> NeedsTwo(o))
        BY <1>1, <3>6, LocksStay
      <4>2. CASE TakeFirst(o)
        BY <1>1, <1>3, <2>2, <3>1, <3>2, <4>1, <4>2 DEF TakeFirst, MapGoes, HoldsFirst, HoldsSecond
      <4>3. CASE TakeSecond(o)
        BY <1>1, <1>3, <2>2, <3>1, <3>2, <3>3, <4>1, <4>3 DEF TakeSecond, MapGoes, HoldsFirst, HoldsSecond
      <4>4. CASE MapUnlock(o)
        BY <1>1, <1>3, <2>2, <3>1, <3>2, <3>3, <4>1, <4>4 DEF MapUnlock, MapGoes, HoldsFirst, HoldsSecond
      <4>5. CASE DropSecond(o)
        BY <1>1, <1>3, <2>2, <3>1, <3>2, <3>3, <4>1, <4>5 DEF DropSecond, MapGoes, HoldsFirst, HoldsSecond
      <4> QED
        BY <3>4, <3>5, <4>2, <4>3, <4>4, <4>5
    <3> QED
      BY <3>4, <3>5, <3>6 DEF TakeFirst, TakeSecond, MapUnlock, DropSecond
  <2> QED
    BY <2>1, <2>2
<1>8. Holders'
  BY <1>7 DEF Holders
<1> QED
  BY <1>2, <1>4, <1>8 DEF MapInv

\* The invariant is inductive.
LEMMA NextMapInv == MapInv /\ [MapNext]_mvars => MapInv'
<1> SUFFICES ASSUME MapInv, [MapNext]_mvars PROVE MapInv'
  OBVIOUS
<1>1. CASE restore
  BY <1>1, RestoreStep
<1>2. CASE \E o \in MapOps : \/ \E h \in Hashes : MapLock(o, h)
                             \/ TakeFirst(o) \/ TakeSecond(o) \/ MapUnlock(o)
                             \/ DropSecond(o) \/ DropFirst(o)
  BY <1>2, OperationStep
<1>3. CASE UNCHANGED mvars
  BY <1>3 DEF mvars, MapInv, MapTypeOK, GoodSize, Holders, HoldsFirst, HoldsSecond,
    Sl1, Sl2, NeedsTwo, Slb, TwoLocks, LastLocked, hash_to_hb, HomeNr, entry_nr_m
<1> QED
  BY <1>1, <1>2, <1>3 DEF MapNext

\* What the invariant says of the slots.
LEMMA InvSlotsLocked == MapInv => SlotsLocked
<1> SUFFICES ASSUME MapInv PROVE SlotsLocked
  OBVIOUS
<1>1. GoodSize /\ \A o \in MapOps : hash_to_hb(mhash[o]) \in 0..(HomeNr - 1)
  BY HomeOfHash DEF MapInv, MapTypeOK
<1>2. ASSUME NEW o \in MapOps, mpc[o] # "idle" PROVE LockAsserts(hash_to_hb(mhash[o]))
  BY <1>1, <1>2, Asserts DEF MapInv, Holders
<1>3. ASSUME NEW p \in MapOps, NEW q \in MapOps, p # q, mpc[p] = "inside", mpc[q] = "inside"
      PROVE  Touched(hash_to_hb(mhash[p])) \cap Touched(hash_to_hb(mhash[q])) = {}
  <2> DEFINE f == hash_to_hb(mhash[p])
             g == hash_to_hb(mhash[q])
  <2>1. entry_per_lock_nr_m # 0
    BY <1>3 DEF MapInv, Holders
  <2>2. ASSUME NEW r \in MapOps, mpc[r] = "inside", NEW i \in LocksOf(hash_to_hb(mhash[r]))
        PROVE  mapLocks[i] = r
    BY <2>2 DEF LocksOf, MapInv, Holders, HoldsFirst, HoldsSecond, Sl1, Sl2, NeedsTwo
  <2>3. LocksOf(f) \cap LocksOf(g) = {}
    BY <1>3, <2>2
  <2>4. f \in 0..(HomeNr - 1) /\ g \in 0..(HomeNr - 1)
    BY <1>1
  <2> HIDE DEF f, g
  <2>5. Touched(f) \cap Touched(g) = {}
    BY <1>1, <2>1, <2>3, <2>4, Disjoint
  <2> QED
    BY <2>5 DEF f, g
<1> QED
  BY <1>2, <1>3 DEF SlotsLocked

-----------------------------------------------------------------------------
(* Theorems *)

\* The variables of the map locks keep their types: restore() ends with at
\* least one lock, and the locks taken are locks of the table.
THEOREM MapTypeCorrect == MapSpec => []MapTypeOK
<1>1. MapInv => MapTypeOK
  BY DEF MapInv
<1> QED
  BY <1>1, InitMapInv, NextMapInv, PTL DEF MapSpec

\* Two operations that hold their locks never meet in a slot, and the
\* assertions of lock_common() hold, for every region size, every number of
\* locks and every bucket size and displacement that are powers of two.
THEOREM OperationsApart == MapSpec => []SlotsLocked
BY InitMapInv, NextMapInv, InvSlotsLocked, PTL DEF MapSpec
=============================================================================
