------------------------------ MODULE MapLocks ------------------------------
(***************************************************************************)
(* The locks of one hash table (uDepotMap).  A table is cut into lock      *)
(* buckets of entry_per_lock_nr_m slots.  An operation on a hash takes the *)
(* lock of the lock bucket its search may begin in and, when the search    *)
(* may leave it, the next one; it then reads and writes its own bucket,    *)
(* the slots a displacement looks at, and the buckets of the entries that  *)
(* are displaced.  restore() halves the number of locks until a lock       *)
(* bucket is large enough.                                                 *)
(***************************************************************************)
EXTENDS Integers

CONSTANTS
  MapOps,          \* operations of the store that use the table
  Hashes,          \* the hashes of their keys
  RegionEntries,   \* entries the region of the table has room for
  RestoreLockNr,   \* the lock_nr passed to restore(): 8192 / tables
  HopBucketSize,   \* _UDEPOT_HOP_SCOTCH_BUCKET_SIZE
  MaxDisplace,     \* _UDEPOT_HOP_MAX_BUCKET_DISPLACE
  NoOp             \* nobody holds the lock

\* d divides x
Divides(d, x) == \E k \in 0..x : x = d * k

\* A power of two has no odd divisor but 1
is_power_of_two(x) == x > 0 /\ \A d \in 1..x : Divides(d, x) => d = 1 \/ Divides(2, d)

\* The defined sizes (8192 / tables, 32 and 64) are powers of two, and the
\* region has room for more than a bucket
ASSUME MapLocksAssumption ==
  /\ HopBucketSize \in Nat /\ MaxDisplace \in Nat /\ RegionEntries \in Nat /\ RestoreLockNr \in Nat
  /\ HopBucketSize >= 2 /\ MaxDisplace >= 2
  /\ is_power_of_two(HopBucketSize * MaxDisplace)
  /\ is_power_of_two(RestoreLockNr)
  /\ RegionEntries > HopBucketSize
  /\ Hashes \subseteq Nat
  /\ NoOp \notin MapOps

VARIABLES
  lock_nr_m,            \* locks in use
  entry_per_lock_nr_m,  \* slots per lock; 0 until restore() has found it
  mapLocks,             \* locks_m: who holds each lock
  mpc,                  \* where each operation is
  mhash                 \* the hash each operation works on; 0 while it is idle

mvars == <<lock_nr_m, entry_per_lock_nr_m, mapLocks, mpc, mhash>>

MapPc == {"idle", "sl1", "sl2", "inside", "unlock2", "unlock1"}
LockIds == 0..RestoreLockNr

-----------------------------------------------------------------------------
(* restore() *)

\* round_down_pow2(): the largest power of two up to x
round_down_pow2(x) ==
  CHOOSE p \in 1..x : is_power_of_two(p) /\ \A q \in 1..x : is_power_of_two(q) => q <= p

\* Slots a hash can select, and all slots
HomeNr == round_down_pow2(RegionEntries - HopBucketSize)
entry_nr_m == HomeNr + HopBucketSize

udiv_round_up(x, y) == (x + y - 1) \div y

\* A round of the loop that looks for the number of locks
restore ==
  /\ entry_per_lock_nr_m = 0
  /\ \E e \in {IF lock_nr_m = 1 THEN entry_nr_m ELSE udiv_round_up(entry_nr_m, lock_nr_m)} :
       IF lock_nr_m = 1 \/ HopBucketSize * (1 + MaxDisplace) <= e
         THEN entry_per_lock_nr_m' = e /\ UNCHANGED lock_nr_m
         ELSE lock_nr_m' = lock_nr_m \div 2 /\ UNCHANGED entry_per_lock_nr_m
  /\ UNCHANGED <<mapLocks, mpc, mhash>>

-----------------------------------------------------------------------------
(* lock_common(): which locks the operation on a home slot takes *)

hash_to_hb(h) == h % HomeNr

\* The last slot the operation asks the locks for
LastLocked(first) ==
  IF first + HopBucketSize * (MaxDisplace + 1) <= entry_nr_m - HopBucketSize - 1
    THEN first + HopBucketSize * (MaxDisplace + 1) ELSE entry_nr_m - HopBucketSize - 1

\* Defect: the entries of earlier buckets that lie in this one are forgotten
Slb_NoBack(first) == first \div entry_per_lock_nr_m

\* The first lock bucket: an entry found in this bucket may have its home up
\* to a bucket earlier
Slb(first) ==
  IF HopBucketSize <= first THEN (first - HopBucketSize) \div entry_per_lock_nr_m
                            ELSE first \div entry_per_lock_nr_m

TwoLocks(first) == (Slb(first) + 1) * entry_per_lock_nr_m <= LastLocked(first)

Sl1(o) == Slb(hash_to_hb(mhash[o]))
Sl2(o) == Sl1(o) + 1
NeedsTwo(o) == TwoLocks(hash_to_hb(mhash[o]))

-----------------------------------------------------------------------------
(* What an operation may read and write with the locks held *)

Bucket(first) == first .. (first + HopBucketSize - 1)

\* try_shift(): the end of the search for a free slot
ShiftEnd(first) ==
  IF first + HopBucketSize * MaxDisplace <= entry_nr_m - HopBucketSize - 1
    THEN first + HopBucketSize * MaxDisplace ELSE entry_nr_m - HopBucketSize - 1

\* Homes of the entries try_shift() may displace: the entries lie between the
\* bucket and the free slot it found
ShiftedHomes(first) ==
  {c \in 0..(HomeNr - 1) : \E p \in (first + 1)..(ShiftEnd(first) - 2) : p \in Bucket(c)}

Touched(first) ==
  Bucket(first) \cup ((first + HopBucketSize)..(ShiftEnd(first) - 1))
    \cup UNION {Bucket(c) : c \in ShiftedHomes(first)}

-----------------------------------------------------------------------------
(* lock(h), the work in the table, unlock(h) *)

MapInit ==
  /\ lock_nr_m = RestoreLockNr
  /\ entry_per_lock_nr_m = 0
  /\ mapLocks = [l \in LockIds |-> NoOp]
  /\ mpc = [o \in MapOps |-> "idle"]
  /\ mhash = [o \in MapOps |-> 0]

MapGoes(o, from, to) == mpc[o] = from /\ mpc' = [mpc EXCEPT ![o] = to]

MapLock(o, h) ==
  /\ entry_per_lock_nr_m # 0
  /\ MapGoes(o, "idle", "sl1")
  /\ mhash' = [mhash EXCEPT ![o] = h]
  /\ UNCHANGED <<lock_nr_m, entry_per_lock_nr_m, mapLocks>>

TakeFirst(o) ==
  /\ MapGoes(o, "sl1", IF NeedsTwo(o) THEN "sl2" ELSE "inside")
  /\ mapLocks[Sl1(o)] = NoOp
  /\ mapLocks' = [mapLocks EXCEPT ![Sl1(o)] = o]
  /\ UNCHANGED <<lock_nr_m, entry_per_lock_nr_m, mhash>>

TakeSecond(o) ==
  /\ MapGoes(o, "sl2", "inside")
  /\ mapLocks[Sl2(o)] = NoOp
  /\ mapLocks' = [mapLocks EXCEPT ![Sl2(o)] = o]
  /\ UNCHANGED <<lock_nr_m, entry_per_lock_nr_m, mhash>>

MapUnlock(o) ==
  /\ MapGoes(o, "inside", IF NeedsTwo(o) THEN "unlock2" ELSE "unlock1")
  /\ UNCHANGED <<lock_nr_m, entry_per_lock_nr_m, mapLocks, mhash>>

DropSecond(o) ==
  /\ MapGoes(o, "unlock2", "unlock1")
  /\ mapLocks' = [mapLocks EXCEPT ![Sl2(o)] = NoOp]
  /\ UNCHANGED <<lock_nr_m, entry_per_lock_nr_m, mhash>>

DropFirst(o) ==
  /\ MapGoes(o, "unlock1", "idle")
  /\ mapLocks' = [mapLocks EXCEPT ![Sl1(o)] = NoOp]
  /\ mhash' = [mhash EXCEPT ![o] = 0]
  /\ UNCHANGED <<lock_nr_m, entry_per_lock_nr_m>>

MapNext ==
  \/ restore
  \/ \E o \in MapOps : \/ \E h \in Hashes : MapLock(o, h)
                       \/ TakeFirst(o) \/ TakeSecond(o) \/ MapUnlock(o)
                       \/ DropSecond(o) \/ DropFirst(o)

MapSpec == MapInit /\ [][MapNext]_mvars

-----------------------------------------------------------------------------
(* Properties *)

\* The types of the variables
MapTypeOK ==
  /\ lock_nr_m \in 1..RestoreLockNr
  /\ entry_per_lock_nr_m \in Nat
  /\ mapLocks \in [LockIds -> MapOps \cup {NoOp}]
  /\ mpc \in [MapOps -> MapPc]
  /\ mhash \in [MapOps -> Nat]

\* The assertions of lock_common(): both locks exist, the first begins at or
\* before the home slot, and two reach as far as the operation asks.
LockAsserts(first) ==
  /\ Slb(first) < lock_nr_m
  /\ Slb(first) * entry_per_lock_nr_m <= first
  /\ TwoLocks(first) => /\ Slb(first) + 1 < lock_nr_m
                        /\ LastLocked(first) <= (Slb(first) + 2) * entry_per_lock_nr_m

\* Two operations with their locks held never meet in a slot, whatever is
\* displaced, and the assertions of lock_common() hold: restore() made the lock
\* buckets large enough for two locks to cover an operation.
SlotsLocked ==
  /\ \A o1, o2 \in MapOps : o1 # o2 /\ mpc[o1] = "inside" /\ mpc[o2] = "inside" =>
       Touched(hash_to_hb(mhash[o1])) \cap Touched(hash_to_hb(mhash[o2])) = {}
  /\ \A o \in MapOps : mpc[o] # "idle" => LockAsserts(hash_to_hb(mhash[o]))
=============================================================================
