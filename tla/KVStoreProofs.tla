--------------------------- MODULE KVStoreProofs ---------------------------
(***************************************************************************)
(* What the store's clients, its table and the allocator agree on: no      *)
(* segment is freed or taken again under a record the table names, and the *)
(* allocator's counts of valid grains are exact, for any number of         *)
(* clients, keys, segments and streams.                                    *)
(*                                                                         *)
(* The argument: every used grain is held, by an entry of the table or by  *)
(* a put under way, and by one of them only.  A step hands a grain over    *)
(* (allocation, the update of the table, relocation) or gives one up       *)
(* (invalidation), and each part of it is a lemma on segments of which the *)
(* grains H are held, those of C by puts.  The table's part is that an     *)
(* entry stays in the bucket of its record's key through every shift, so   *)
(* that the collector finds the entry of every record that needs it.       *)
(*                                                                         *)
(* Deletes are left out: try_shift() moves tombstones out of their bucket, *)
(* and a delete that tries again keeps its grain, so that neither theorem  *)
(* holds with them.                                                        *)
(***************************************************************************)
EXTENDS KVStore, NumberLemmas, FiniteSetTheorems

-----------------------------------------------------------------------------
(* The hash table *)

\* The entry e in slot s is where the table puts an entry of key k.
AtHome(e, s, k) ==
  /\ k \in Keys
  /\ ~Deleted(e)
  /\ s \in Bucket(Hash[k])
  /\ e.bucket_offset = s - hash_to_hb(Hash[k])
  /\ e.key_tag = hash_to_keytag(Hash[k])

\* Every entry of table t is at home for the key of the record it names, in
\* the log r, and no two name one record.
GoodTable(t, r) ==
  /\ t \in Tables
  /\ \A s \in Slots : Used(t[s]) => AtHome(t[s], s, r[t[s].pba].key)
  /\ \A s, u \in Slots : Used(t[s]) /\ t[s].pba = t[u].pba => s = u

\* The grains that entries name
GrainsOf(t) == {t[s].pba : s \in {x \in Slots : Used(t[x])}}

\* No entry has an unused slot between its home and itself: a search, which
\* ends at the first unused slot, comes to it.
PackedTable(t) ==
  \A s \in Slots : Used(t[s]) => \A p \in s - t[s].bucket_offset .. s - 1 : Used(t[p])

\* The same but for slot f
Plugged(t, f) ==
  \A s \in Slots : Used(t[s]) => \A p \in s - t[s].bucket_offset .. s - 1 : Used(t[p]) \/ p = f

\* The bucket of every hash lies in the table.
LEMMA Homes ==
  ASSUME NEW h \in Nat
  PROVE  hash_to_hb(h) \in 0 .. HomesNr - 1 /\ Bucket(h) \subseteq Slots
<1>1. hash_to_hb(h) \in 0 .. HomesNr - 1
  BY HopscotchAssumption DEF hash_to_hb
<1> QED
  BY <1>1, HopscotchAssumption DEF Bucket, Slots, EntryNr

\* The home of a fingerprint is its lower part.
LEMMA ModHome ==
  ASSUME NEW H \in Nat, H > 0, NEW a \in Nat, NEW b \in 0 .. H - 1
  PROVE  (a * H + b) % H = b
<1> DEFINE x == a * H + b
           q == x \div H
           r == x % H
<1>1. x \in Nat
  OBVIOUS
<1>2. q \in Int /\ r \in 0 .. H - 1 /\ x = H * q + r
  BY <1>1
<1>3. H * (q - a) = b - r
  BY <1>2
<1>4. q - a = 0
  <2>1. CASE q - a >= 1
    <3>1. H * (q - a) >= H
      BY <2>1, <1>2
    <3> QED
      BY <3>1, <1>2, <1>3
  <2>2. CASE q - a <= -1
    <3>1. H * (q - a) <= -H
      BY <2>2, <1>2
    <3> QED
      BY <3>1, <1>2, <1>3
  <2> QED
    BY <1>2, <2>1, <2>2
<1> QED
  BY <1>2, <1>3, <1>4

\* The fingerprint of an entry at home leads to its bucket.
LEMMA KeyfpHome ==
  ASSUME NEW t \in Tables, NEW s \in Slots, NEW k, AtHome(t[s], s, k)
  PROVE  /\ hash_to_hb(entry_keyfp(t, s)) = hash_to_hb(Hash[k])
         /\ entry_keyfp(t, s) % HomesNr = hash_to_hb(Hash[k])
         /\ Bucket(entry_keyfp(t, s)) = Bucket(Hash[k])
<1>1. Hash[k] \in Nat /\ HomesNr \in Nat /\ HomesNr > 0
  BY KVAssumption, HopscotchAssumption DEF AtHome
<1>2. hash_to_hb(Hash[k]) \in 0 .. HomesNr - 1
  BY <1>1, Homes
<1>3. t[s].key_tag \in Nat
  BY HopscotchAssumption DEF Tables, HashEntry
<1>4. s \in Int
  BY DEF Slots
<1>5. entry_keyfp(t, s) = t[s].key_tag * HomesNr + hash_to_hb(Hash[k])
  BY <1>1, <1>2, <1>3, <1>4 DEF AtHome, entry_keyfp
<1>6. entry_keyfp(t, s) % HomesNr = hash_to_hb(Hash[k])
  BY <1>1, <1>2, <1>3, <1>5, ModHome
<1> QED
  BY <1>6 DEF hash_to_hb, Bucket

\* A slot that is free in a table without tombstones is unused.
LEMMA FreeUnused ==
  ASSUME NEW t, NEW r, GoodTable(t, r), NEW s \in Slots
  PROVE  Free(t[s]) <=> ~Used(t[s])
BY DEF GoodTable, AtHome, Free

\* What lies between an entry and its home are slots.
LEMMA BeforeSlots ==
  ASSUME NEW t, NEW r, GoodTable(t, r), NEW s \in Slots, Used(t[s]),
         NEW p \in s - t[s].bucket_offset .. s - 1
  PROVE  p \in Slots
<1> DEFINE h == Hash[r[t[s].pba].key]
<1>1. AtHome(t[s], s, r[t[s].pba].key) /\ h \in Nat
  BY KVAssumption DEF GoodTable, AtHome
<1>2. hash_to_hb(h) \in Nat /\ s \in Nat
  BY <1>1, Homes, HopscotchAssumption DEF Slots, EntryNr
<1>3. s - t[s].bucket_offset \in Nat
  BY <1>1, <1>2 DEF AtHome
<1> QED
  BY <1>2, <1>3, HopscotchAssumption DEF Slots, EntryNr

\* MinOr() of slots
LEMMA MinOrSlot ==
  ASSUME NEW S, S \subseteq Slots
  PROVE  /\ S = {} => MinOr(S) = NoSlot
         /\ S # {} => MinOr(S) \in S
         /\ MinOr(S) # NoSlot => MinOr(S) \in S
<1>1. S \subseteq Nat
  BY HopscotchAssumption DEF Slots, EntryNr
<1>2. S # {} => Min(S) \in S
  BY <1>1, MinOfNat
<1> QED
  BY <1>2 DEF MinOr

\* A hop: the entry in slot c goes to a free slot of its own bucket.
LEMMA ShiftOne ==
  ASSUME NEW t, NEW r, GoodTable(t, r), NEW c \in Slots, NEW v \in Slots,
         Used(t[c]), ~Used(t[v]), v \in Bucket(entry_keyfp(t, c))
  PROVE  LET u == try_shift_one(t, c, v)
         IN /\ GoodTable(u, r)
            /\ GrainsOf(u) = GrainsOf(t)
            /\ ~Used(u[c])
            /\ \A x \in Slots : x # c /\ Used(t[x]) => Used(u[x])
            /\ Used(u[v]) /\ v - u[v].bucket_offset = c - t[c].bucket_offset
            /\ \A x \in Slots : x # c /\ x # v => u[x] = t[x]
<1> DEFINE u == try_shift_one(t, c, v)
           k == r[t[c].pba].key
           moved == [t[c] EXCEPT !.bucket_offset = v - hash_to_hb(Hash[k])]
<1>1. t \in Tables /\ AtHome(t[c], c, k)
  BY DEF GoodTable
<1>2. /\ entry_keyfp(t, c) % HomesNr = hash_to_hb(Hash[k])
      /\ v \in Bucket(Hash[k])
  BY <1>1, KeyfpHome
<1>3. u = [t EXCEPT ![v] = moved, ![c] = t[v]]
  BY <1>2 DEF try_shift_one
<1>4. c # v
  OBVIOUS
<1>5. /\ u \in [Slots -> HashEntry] \/ moved \notin HashEntry
      /\ DOMAIN u = Slots
      /\ u[v] = moved /\ u[c] = t[v]
      /\ \A x \in Slots : x # c /\ x # v => u[x] = t[x]
  BY <1>1, <1>3, <1>4 DEF Tables
<1>6. /\ moved \in HashEntry
      /\ moved.bucket_offset = v - hash_to_hb(Hash[k])
      /\ moved.key_tag = t[c].key_tag /\ moved.kv_size = t[c].kv_size /\ moved.pba = t[c].pba
  <2>1. t[c] \in HashEntry
    BY <1>1 DEF Tables
  <2>2. v - hash_to_hb(Hash[k]) \in 0 .. OffRange - 1
    <3>1. hash_to_hb(Hash[k]) \in Int
      BY <1>1, Homes, KVAssumption, HopscotchAssumption DEF AtHome
    <3> QED
      BY <1>2, <3>1, HopscotchAssumption DEF Bucket, OffRange
  <2> QED
    BY <2>1, <2>2 DEF HashEntry
<1> HIDE DEF u, moved
<1>7. u \in Tables
  BY <1>5, <1>6 DEF Tables
<1>8. ~Used(u[c]) /\ Used(u[v]) /\ u[v].pba = t[c].pba
  BY <1>5, <1>6 DEF Used
<1>9. ASSUME NEW s \in Slots, Used(u[s]) PROVE AtHome(u[s], s, r[u[s].pba].key)
  <2>1. CASE s = v
    BY <1>1, <1>2, <1>5, <1>6, <2>1 DEF AtHome, Deleted
  <2>2. CASE s # v
    <3>1. u[s] = t[s]
      BY <1>5, <1>8, <1>9, <2>2
    <3> QED
      BY <3>1, <1>9 DEF GoodTable
  <2> QED
    BY <2>1, <2>2
<1>10. ASSUME NEW s \in Slots, NEW y \in Slots, Used(u[s]), u[s].pba = u[y].pba PROVE s = y
  <2>1. s # c /\ y # c
    BY <1>8, <1>10 DEF Used
  <2>2. CASE s = v
    BY <2>1, <2>2, <1>5, <1>8, <1>10 DEF GoodTable, Used
  <2>3. CASE y = v
    BY <2>1, <2>3, <1>5, <1>8, <1>10 DEF GoodTable, Used
  <2>4. CASE s # v /\ y # v
    BY <2>1, <2>4, <1>5, <1>10 DEF GoodTable
  <2> QED
    BY <2>2, <2>3, <2>4
<1>11. GoodTable(u, r)
  BY <1>7, <1>9, <1>10 DEF GoodTable
<1>12. GrainsOf(u) = GrainsOf(t)
  <2>1. ASSUME NEW s \in Slots, Used(u[s]) PROVE u[s].pba \in GrainsOf(t)
    <3>1. CASE s = v
      BY <3>1, <1>8 DEF GrainsOf
    <3>2. CASE s # v
      BY <3>2, <2>1, <1>5, <1>8 DEF GrainsOf
    <3> QED
      BY <3>1, <3>2
  <2>2. ASSUME NEW s \in Slots, Used(t[s]) PROVE t[s].pba \in GrainsOf(u)
    <3>1. CASE s = c
      BY <3>1, <1>8 DEF GrainsOf
    <3>2. CASE s # c
      <4>1. s # v
        BY <2>2
      <4> QED
        BY <3>2, <4>1, <2>2, <1>5 DEF GrainsOf
    <3> QED
      BY <3>1, <3>2
  <2> QED
    BY <2>1, <2>2 DEF GrainsOf
<1>13. \A x \in Slots : x # c /\ Used(t[x]) => Used(u[x])
  BY <1>5, <1>8
<1>14. v - u[v].bucket_offset = c - t[c].bucket_offset
  <2>1. hash_to_hb(Hash[k]) \in Int /\ c \in Int /\ v \in Int
    BY <1>1, Homes, KVAssumption, HopscotchAssumption DEF AtHome, Slots
  <2> QED
    BY <1>1, <1>5, <1>6, <2>1 DEF AtHome
<1> QED
  BY <1>5, <1>8, <1>11, <1>12, <1>13, <1>14 DEF u

\* In a table that is packed but for slot f, an entry in front of f has no other
\* unused slot in its bucket up to f, and leaves the only one when it moves.
LEMMA ShiftPlugs ==
  ASSUME NEW t, NEW r, GoodTable(t, r), NEW c \in Slots, NEW f \in Slots, c < f, Used(t[c]), ~Used(t[f]),
         \A p \in c .. f - 1 : Used(t[p]), Plugged(t, f),
         NEW v, v = next_free(t, entry_keyfp(t, c)), v # NoSlot
  PROVE  Plugged(try_shift_one(t, c, v), c)
<1> DEFINE k == r[t[c].pba].key
           home == hash_to_hb(Hash[k])
           B == Bucket(entry_keyfp(t, c))
           F == {s \in B : Free(t[s])}
           u == try_shift_one(t, c, v)
<1>1. t \in Tables /\ AtHome(t[c], c, k) /\ k \in Keys /\ Hash[k] \in Nat
  BY KVAssumption DEF GoodTable, AtHome
<1>2. B = Bucket(Hash[k]) /\ B \subseteq Slots
  BY <1>1, KeyfpHome, Homes
<1>3. home \in Nat /\ BucketSize \in Nat /\ Slots \subseteq Nat
  BY <1>1, Homes, HopscotchAssumption DEF Slots, EntryNr
<1>4. c \in Nat /\ f \in Nat /\ t[c].bucket_offset = c - home /\ home <= c
  BY <1>1, <1>3 DEF AtHome, Bucket
<1>5. B = home .. home + BucketSize - 1
  BY <1>2 DEF Bucket
<1> HIDE DEF B, home
<1>6. \A p \in home .. f - 1 : Used(t[p])
  <2> SUFFICES ASSUME NEW p \in home .. f - 1 PROVE Used(t[p])
    OBVIOUS
  <2>1. CASE p >= c
    BY <1>3, <1>4, <2>1
  <2>2. CASE p < c
    <3>1. p \in c - t[c].bucket_offset .. c - 1 /\ p # f
      BY <1>3, <1>4, <2>2
    <3> QED
      BY <3>1 DEF Plugged
  <2> QED
    BY <1>3, <1>4, <2>1, <2>2
<1>7. \A p \in F : p \in Slots /\ ~Used(t[p]) /\ p >= f
  <2> SUFFICES ASSUME NEW p \in F PROVE p \in Slots /\ ~Used(t[p]) /\ p >= f
    OBVIOUS
  <2>1. p \in Slots /\ ~Used(t[p])
    BY <1>2, FreeUnused
  <2>2. p >= home /\ p \in Nat
    BY <1>3, <1>5, <2>1
  <2> QED
    BY <1>3, <1>4, <1>6, <2>1, <2>2
<1>8. v = MinOr(F) /\ v \in F
  <2>1. v = MinOr(F) /\ F \subseteq Slots
    BY <1>2 DEF next_free, B
  <2> HIDE DEF F
  <2> QED
    BY <2>1, MinOrSlot
<1>9. v = f
  <2>1. v \in B /\ v >= f /\ v \in Nat
    BY <1>3, <1>7, <1>8
  <2>2. f \in B
    BY <1>3, <1>4, <1>5, <2>1
  <2>3. f \in F
    BY <2>2, FreeUnused
  <2>4. F \subseteq Nat
    BY <1>2, <1>3
  <2> HIDE DEF F
  <2>5. v = Min(F) /\ \A p \in F : v <= p
    BY <1>8, <2>3, <2>4, MinOfNat DEF MinOr
  <2> QED
    BY <1>4, <2>1, <2>3, <2>5
<1>10. /\ ~Used(u[c]) /\ Used(u[f]) /\ f - u[f].bucket_offset = c - t[c].bucket_offset
       /\ \A x \in Slots : x # c /\ Used(t[x]) => Used(u[x])
       /\ \A x \in Slots : x # c /\ x # f => u[x] = t[x]
  <2>1. f \in Bucket(entry_keyfp(t, c))
    BY <1>8, <1>9 DEF B
  <2> QED
    BY <1>9, <2>1, ShiftOne
<1> HIDE DEF u
<1>11. ASSUME NEW s \in Slots, Used(u[s]), NEW p \in s - u[s].bucket_offset .. s - 1, p # c
       PROVE  Used(u[p])
  <2>1. CASE s = f
    <3>1. p \in home .. f - 1
      <4>1. f - u[f].bucket_offset = home
        BY <1>3, <1>4, <1>10
      <4> QED
        BY <1>11, <2>1, <4>1
    <3>2. p \in Slots
      BY <1>3, <1>4, <3>1, HopscotchAssumption DEF Slots, EntryNr
    <3> QED
      BY <1>6, <1>10, <1>11, <3>1, <3>2
  <2>2. CASE s # f
    <3>1. s # c /\ u[s] = t[s]
      BY <1>10, <1>11, <2>2
    <3>2. Used(t[p]) \/ p = f
      BY <1>11, <3>1 DEF Plugged
    <3>3. p \in Slots
      BY <1>11, <3>1, BeforeSlots
    <3> QED
      BY <1>10, <1>11, <3>2, <3>3
  <2> QED
    BY <2>1, <2>2
<1> QED
  BY <1>11 DEF Plugged, u

\* The states of a displacement that began with table t in the bucket of first
HopOK(st, first, t, r) ==
  /\ GoodTable(st.table, r)
  /\ GrainsOf(st.table) = GrainsOf(t)
  /\ st.free \in Slots /\ st.free >= first
  /\ ~Used(st.table[st.free])
  /\ \A p \in first .. st.free - 1 : Used(st.table[p])
  /\ st.rc = "0" => st.free - first < BucketSize
  /\ PackedTable(t) => Plugged(st.table, st.free)

\* One hop of a displacement keeps what a search has kept so far.
LEMMA HopKeeps ==
  ASSUME NEW st, NEW first \in Nat, NEW t, NEW r, HopOK(st, first, t, r),
         st = [table |-> st.table, free |-> st.free, rc |-> st.rc]
  PROVE  /\ HopOK(Hop(st, first), first, t, r)
         /\ Hop(st, first) = [table |-> Hop(st, first).table, free |-> Hop(st, first).free,
                              rc |-> Hop(st, first).rc]
<1> DEFINE near == {p \in st.free - BucketSize + 1 .. st.free - 1 : p >= first}
           can == Shiftable(st.table, near)
           c == Min(can)
           v == next_free(st.table, entry_keyfp(st.table, c))
<1>1. st.free \in Nat /\ st.free \in Slots /\ BucketSize \in Nat
  BY HopscotchAssumption DEF HopOK, Slots, EntryNr
<1>2. near \subseteq first .. st.free - 1 /\ near \subseteq Slots /\ near \subseteq Nat
  BY <1>1, HopscotchAssumption DEF Slots, EntryNr
<1>3. can \subseteq near
  BY DEF Shiftable
<1>4. CASE can = {}
  <2>1. Hop(st, first) = [st EXCEPT !.rc = "ENOSPC"]
    BY <1>4 DEF Hop
  <2>2. Hop(st, first) = [table |-> st.table, free |-> st.free, rc |-> "ENOSPC"]
    BY <2>1
  <2> QED
    BY <2>2 DEF HopOK
<1>5. CASE can # {}
  <2>1. c \in can
    BY <1>2, <1>3, <1>5, MinOfNat
  <2> DEFINE u == try_shift_one(st.table, c, v)
             rc == IF c - first < BucketSize THEN "0" ELSE "going"
  <2>2. Hop(st, first) = [table |-> u, free |-> c, rc |-> rc]
    BY <1>5 DEF Hop
  <2>3. c \in Slots /\ c \in first .. st.free - 1 /\ v # NoSlot
    BY <1>2, <1>3, <2>1 DEF Shiftable
  <2> HIDE DEF can
  <2>4. Used(st.table[c])
    BY <2>3 DEF HopOK
  <2>5. GoodTable(st.table, r)
    BY DEF HopOK
  <2> DEFINE k == r[st.table[c].pba].key
             B == Bucket(entry_keyfp(st.table, c))
  <2>6. st.table \in Tables /\ AtHome(st.table[c], c, k)
    BY <2>3, <2>4, <2>5 DEF GoodTable
  <2>7. B = Bucket(Hash[k])
    BY <2>3, <2>6, KeyfpHome
  <2>8. B \subseteq Slots
    BY <2>6, <2>7, Homes, KVAssumption DEF AtHome
  <2>9. v \in B /\ v \in Slots /\ Free(st.table[v])
    BY <2>3, <2>8, MinOrSlot DEF next_free
  <2>10. ~Used(st.table[v])
    BY <2>5, <2>9, FreeUnused
  <2> HIDE DEF c, v
  <2>11. /\ GoodTable(u, r)
         /\ GrainsOf(u) = GrainsOf(st.table)
         /\ ~Used(u[c])
         /\ \A x \in Slots : x # c /\ Used(st.table[x]) => Used(u[x])
    BY <2>3, <2>4, <2>5, <2>9, <2>10, ShiftOne
  <2> HIDE DEF u
  <2>12. \A p \in first .. c - 1 : Used(u[p])
    <3> SUFFICES ASSUME NEW p \in first .. c - 1 PROVE Used(u[p])
      OBVIOUS
    <3>1. p \in first .. st.free - 1 /\ p # c /\ p \in Slots
      BY <1>1, <2>3, HopscotchAssumption DEF Slots, EntryNr
    <3> QED
      BY <3>1, <2>11 DEF HopOK
  <2>13. c >= first /\ (rc = "0" => c - first < BucketSize)
    BY <2>3
  <2>14. PackedTable(t) => Plugged(u, c)
    <3> SUFFICES ASSUME PackedTable(t) PROVE Plugged(u, c)
      OBVIOUS
    <3>1. \A p \in c .. st.free - 1 : Used(st.table[p])
      BY <1>1, <2>3 DEF HopOK
    <3>2. Plugged(st.table, st.free) /\ ~Used(st.table[st.free]) /\ c < st.free
      BY <1>1, <2>3 DEF HopOK
    <3>3. v = next_free(st.table, entry_keyfp(st.table, c))
      BY DEF v
    <3> QED
      BY <1>1, <2>3, <2>4, <2>5, <3>1, <3>2, <3>3, ShiftPlugs DEF u
  <2> QED
    BY <2>2, <2>3, <2>11, <2>12, <2>13, <2>14 DEF HopOK
<1> QED
  BY <1>4, <1>5

\* One step of the recursion of try_shift()
HopStep(st, first) == IF st.rc = "going" THEN Hop(st, first) ELSE st

HopsFrom(f, N, s0, first) ==
  [n \in 0 .. N |-> IF n = 0 THEN s0 ELSE HopStep(f[n - 1], first)]

\* The recursion defines a function.
LEMMA HopsDefined ==
  ASSUME NEW N \in Nat, NEW first, NEW s0
  PROVE  \E f : f = HopsFrom(f, N, s0, first)
<1> USE DEF HopsFrom
<1> DEFINE Def(m) == \E f : f = HopsFrom(f, m, s0, first)
           T == {m \in Nat : ~Def(m)}
<1>1. SUFFICES ASSUME T # {} PROVE FALSE
  <2>1. CASE N \in T
    BY <2>1
  <2>2. CASE N \notin T
    <3>1. Def(N)
      BY <2>2
    <3> QED
      BY <3>1
  <2> QED
    BY <2>1, <2>2
<1>2. PICK m \in T : \A k \in T : m <= k
  <2>1. T \subseteq Nat
    OBVIOUS
  <2> HIDE DEF T
  <2> QED
    BY <1>1, <2>1, LeastNat
<1>3. m \in Nat /\ ~Def(m)
  OBVIOUS
<1>4. m # 0
  <2> DEFINE g == [n \in 0 .. 0 |-> s0]
  <2>1. g = [n \in 0 .. 0 |-> IF n = 0 THEN s0 ELSE HopStep(g[n - 1], first)]
    OBVIOUS
  <2>2. Def(0)
    BY <2>1
  <2> QED
    BY <1>3, <2>2
<1>5. Def(m - 1)
  <2>1. m - 1 \in Nat /\ ~(m <= m - 1)
    BY <1>3, <1>4
  <2>2. m - 1 \notin T
    <3> HIDE DEF T
    <3> QED
      BY <1>2, <2>1
  <2> QED
    BY <2>1, <2>2
<1>6. PICK f : f = [n \in 0 .. m - 1 |-> IF n = 0 THEN s0 ELSE HopStep(f[n - 1], first)]
  BY <1>5
<1> DEFINE g == [n \in 0 .. m |-> IF n = m THEN HopStep(f[m - 1], first) ELSE f[n]]
<1>7. ASSUME NEW n \in 0 .. m
      PROVE  g[n] = IF n = 0 THEN s0 ELSE HopStep(g[n - 1], first)
  <2>1. CASE n = m
    <3>1. n # 0 /\ n - 1 \in 0 .. m /\ n - 1 # m
      BY <1>3, <1>4, <2>1
    <3>2. g[n] = HopStep(f[m - 1], first) /\ g[n - 1] = f[n - 1]
      BY <2>1, <3>1
    <3> QED
      BY <2>1, <3>1, <3>2
  <2>2. CASE n # m
    <3>1. n \in 0 .. m - 1
      BY <1>3, <2>2
    <3>2. f[n] = IF n = 0 THEN s0 ELSE HopStep(f[n - 1], first)
      BY <1>6, <3>1
    <3>3. g[n] = f[n]
      BY <2>2
    <3>4. n # 0 => g[n - 1] = f[n - 1]
      <4>1. n # 0 => n - 1 \in 0 .. m /\ n - 1 # m
        BY <1>3, <3>1
      <4> QED
        BY <4>1
    <3> QED
      BY <3>2, <3>3, <3>4
  <2> QED
    BY <2>1, <2>2
<1>8. Def(m)
  <2>1. DOMAIN g = 0 .. m /\ g = [n \in 0 .. m |-> g[n]]
    OBVIOUS
  <2> HIDE DEF g
  <2>2. g = [n \in 0 .. m |-> IF n = 0 THEN s0 ELSE HopStep(g[n - 1], first)]
    BY <1>7, <2>1
  <2> QED
    BY <2>2
<1> QED
  BY <1>3, <1>8

\* try_shift() in a full bucket: the entries stay at home and name the same
\* records, whether it makes room or not.
LEMMA ShiftKeeps ==
  ASSUME NEW t, NEW r, GoodTable(t, r), NEW h \in Nat, \A p \in Bucket(h) : Used(t[p])
  PROVE  LET sh == try_shift(t, h)
         IN /\ GoodTable(sh.table, r)
            /\ GrainsOf(sh.table) = GrainsOf(t)
            /\ sh.rc = "0" => sh.free \in Bucket(h) /\ ~Used(sh.table[sh.free])
            /\ sh.rc = "0" => \A p \in hash_to_hb(h) .. sh.free - 1 : Used(sh.table[p])
            /\ sh.rc = "0" /\ PackedTable(t) => Plugged(sh.table, sh.free)
<1> DEFINE first == hash_to_hb(h)
           last == Min({first + BucketSize * MaxDisplace, HomesNr - 1})
           room == {p \in first + BucketSize .. last - 1 : Free(t[p])}
           s0 == [table |-> t, free |-> Min(room), rc |-> "going"]
           hops == CHOOSE f : f = HopsFrom(f, EntryNr, s0, first)
<1>1. /\ first \in Nat /\ EntryNr \in Nat /\ BucketSize \in Nat /\ BucketSize > 0
      /\ HomesNr \in Nat /\ HomesNr > 0 /\ first <= HomesNr - 1 /\ MaxDisplace \in Nat
      /\ Slots = 0 .. EntryNr - 1 /\ EntryNr = HomesNr + BucketSize
  BY Homes, HopscotchAssumption DEF EntryNr, Slots
<1>2. try_shift(t, h) = IF room = {} THEN [table |-> t, free |-> NoSlot, rc |-> "ENOSPC"]
                                     ELSE hops[EntryNr]
  BY DEF try_shift, HopStep, HopsFrom
<1>3. CASE room = {}
  BY <1>2, <1>3
<1>4. CASE room # {}
  <2>1. last <= HomesNr - 1 /\ last \in Nat
    <3>1. BucketSize * MaxDisplace \in Nat
      BY <1>1
    <3>2. {first + BucketSize * MaxDisplace, HomesNr - 1} \subseteq Nat
      BY <1>1, <3>1
    <3> QED
      BY <3>2, MinOfNat
  <2> HIDE DEF last
  <2>2. room \subseteq Slots /\ room \subseteq Nat
    BY <1>1, <2>1
  <2>3. Min(room) \in room /\ \A p \in room : Min(room) <= p
    BY <1>4, <2>2, MinOfNat
  <2> DEFINE m == Min(room)
  <2>4. /\ m \in Slots /\ m >= first + BucketSize /\ m \in first + BucketSize .. last - 1
        /\ ~Used(t[m])
    BY <2>2, <2>3, <1>1, <2>1, FreeUnused
  <2>5. \A p \in first .. m - 1 : Used(t[p])
    <3> SUFFICES ASSUME NEW p \in first .. m - 1 PROVE Used(t[p])
      OBVIOUS
    <3> HIDE DEF m
    <3>1. CASE p < first + BucketSize
      <4>1. p \in Bucket(h)
        BY <1>1, <2>4, <3>1 DEF Bucket
      <4> QED
        BY <4>1
    <3>2. CASE p >= first + BucketSize
      <4>1. p \in first + BucketSize .. last - 1 /\ p \in Slots /\ ~(m <= p)
        BY <1>1, <2>1, <2>4, <3>2
      <4>2. p \notin room
        BY <2>3, <4>1 DEF m
      <4>3. ~Free(t[p])
        BY <4>1, <4>2
      <4> QED
        BY <4>1, <4>3, FreeUnused
    <3> QED
      BY <1>1, <2>4, <3>1, <3>2
  <2>6. HopOK(s0, first, t, r) /\ s0 = [table |-> s0.table, free |-> s0.free, rc |-> s0.rc]
    <3>1. /\ s0.table = t /\ s0.free = m /\ s0.rc = "going"
          /\ s0 = [table |-> s0.table, free |-> s0.free, rc |-> s0.rc]
      OBVIOUS
    <3> HIDE DEF m, s0
    <3>2. m >= first /\ (PackedTable(t) => Plugged(t, m))
      BY <1>1, <2>4 DEF PackedTable, Plugged
    <3> QED
      BY <2>4, <2>5, <3>1, <3>2 DEF HopOK
  <2> HIDE DEF s0, first, m, room
  <2>7. hops = HopsFrom(hops, EntryNr, s0, first)
    <3>1. \E f : f = HopsFrom(f, EntryNr, s0, first)
      BY <1>1, HopsDefined
    <3> QED
      BY <3>1
  <2>8. hops[0] = s0 /\ \A n \in 0 .. EntryNr : n # 0 => hops[n] = HopStep(hops[n - 1], first)
    <3> HIDE DEF hops
    <3>1. 0 \in 0 .. EntryNr
      BY <1>1
    <3> QED
      BY <2>7, <3>1 DEF HopsFrom
  <2> HIDE DEF hops
  <2> DEFINE Rec3(st) == st = [table |-> st.table, free |-> st.free, rc |-> st.rc]
             OK(n) == HopOK(hops[n], first, t, r) /\ Rec3(hops[n])
             T == {n \in 0 .. EntryNr : ~OK(n)}
  <2>9. T = {}
    <3> SUFFICES ASSUME T # {} PROVE FALSE
      OBVIOUS
    <3>1. T \subseteq Nat
      OBVIOUS
    <3>2. PICK n \in T : \A y \in T : n <= y
      <4> HIDE DEF T
      <4> QED
        BY <3>1, LeastNat
    <3>3. n \in 0 .. EntryNr /\ ~OK(n)
      OBVIOUS
    <3>4. n # 0
      BY <2>6, <2>8, <3>3
    <3>5. n - 1 \in 0 .. EntryNr /\ OK(n - 1)
      <4>1. n - 1 \in 0 .. EntryNr /\ ~(n <= n - 1)
        BY <1>1, <3>3, <3>4
      <4>2. n - 1 \notin T
        <5> HIDE DEF T
        <5> QED
          BY <3>2, <4>1
      <4> QED
        BY <4>1, <4>2
    <3>6. hops[n] = HopStep(hops[n - 1], first)
      BY <2>8, <3>3, <3>4
    <3>7. OK(n)
      <4> DEFINE st == hops[n - 1]
      <4>1. HopOK(st, first, t, r) /\ Rec3(st)
        BY <3>5
      <4> HIDE DEF st
      <4>2. HopOK(Hop(st, first), first, t, r) /\ Rec3(Hop(st, first))
        BY <1>1, <4>1, HopKeeps
      <4>3. HopOK(HopStep(st, first), first, t, r) /\ Rec3(HopStep(st, first))
        BY <4>1, <4>2 DEF HopStep
      <4> QED
        BY <3>6, <4>3 DEF st
    <3> QED
      BY <3>3, <3>7
  <2>10. HopOK(hops[EntryNr], first, t, r)
    <3>1. EntryNr \in 0 .. EntryNr /\ EntryNr \notin T
      <4> HIDE DEF T
      <4> QED
        BY <1>1, <2>9
    <3>2. OK(EntryNr)
      <4> HIDE DEF OK
      <4> QED
        BY <3>1
    <3> HIDE DEF T
    <3> QED
      BY <3>2, Zenon
  <2> DEFINE sh == hops[EntryNr]
  <2>11. try_shift(t, h) = sh
    BY <1>2, <1>4
  <2> HIDE DEF sh
  <2>12. sh.rc = "0" => sh.free \in Bucket(h)
    BY <1>1, <2>10 DEF HopOK, Bucket, sh, first
  <2>13. \A p \in hash_to_hb(h) .. sh.free - 1 : Used(sh.table[p])
    BY <2>10 DEF HopOK, sh, first
  <2> QED
    BY <2>10, <2>11, <2>12, <2>13 DEF HopOK, sh
<1> QED
  BY <1>3, <1>4

-----------------------------------------------------------------------------
(* Lookups in a table without tombstones *)

\* A key is inserted into an unused slot of its bucket.
LEMMA InsertSlot ==
  ASSUME GoodTable(table, rec), NEW k \in Keys, NEW visited, lookup_put(k, visited)[1] = "ENODATA"
  PROVE  LET s == lookup_put(k, visited)[2]
         IN s \in Bucket(Hash[k]) /\ ~Used(table[s]) /\ \A p \in hash_to_hb(Hash[k]) .. s - 1 : Used(table[p])
<1> DEFINE h == Hash[k]
           holes == {s \in Bucket(h) : ~Used(table[s])}
           tombs == {s \in Bucket(h) : Used(table[s]) /\ Deleted(table[s])}
           found == Matches(table, h, {s \in Bucket(h) : \A o \in holes : s < o})
           fresh == {s \in Bucket(h) : Free(table[s])}
<1>1. h \in Nat /\ Bucket(h) \subseteq Slots /\ Bucket(h) \subseteq Nat
  BY Homes, KVAssumption, HopscotchAssumption DEF Slots, EntryNr
<1>2. tombs = {}
  BY <1>1 DEF GoodTable, AtHome
<1> DEFINE Place(s) == s \in Bucket(h) /\ ~Used(table[s]) /\ \A p \in hash_to_hb(h) .. s - 1 : Used(table[p])
<1>3. holes # {} => Place(Min(holes))
  <2> SUFFICES ASSUME holes # {} PROVE Place(Min(holes))
    OBVIOUS
  <2>1. Min(holes) \in holes /\ \A o \in holes : Min(holes) <= o
    BY <1>1, MinOfNat
  <2>2. ASSUME NEW p \in hash_to_hb(h) .. Min(holes) - 1 PROVE Used(table[p])
    <3>1. hash_to_hb(h) \in Nat /\ BucketSize \in Nat
      BY <1>1, Homes, HopscotchAssumption
    <3>2. Min(holes) \in Bucket(h) /\ Min(holes) \in Nat
      BY <1>1, <2>1
    <3>3. p \in Bucket(h) /\ ~(Min(holes) <= p)
      BY <2>2, <3>1, <3>2 DEF Bucket
    <3> HIDE DEF holes
    <3>4. p \notin holes
      BY <2>1, <3>3
    <3> QED
      BY <3>3, <3>4 DEF holes
  <2> QED
    BY <2>1, <2>2
<1>4. fresh = holes
  BY <1>1, FreeUnused
<1>5. next_free(table, h) # NoSlot => Place(next_free(table, h))
  BY <1>3, <1>4 DEF next_free, MinOr
<1> HIDE DEF Place
<1>6. Place(lookup_put(k, visited)[2])
  <2>1. CASE found = {} /\ holes # {}
    <3>1. lookup(table, h) = <<"ENODATA", Min(holes)>>
      BY <2>1 DEF lookup
    <3>2. lookup_put(k, visited) = <<"ENODATA", Min(holes)>>
      BY <3>1 DEF lookup_put, lookup_common
    <3> QED
      BY <1>3, <2>1, <3>2
  <2>2. CASE found # {}
    <3>1. lookup(table, h) = <<"0", Min(found)>>
      BY <2>2 DEF lookup
    <3>2. lookup_common(k, visited)[1] \in {"0", "assert_visited"}
      BY <3>1 DEF lookup_common
    <3>3. lookup_common(k, visited) = <<"0", NoSlot>>
      BY <3>2 DEF lookup_put
    <3>4. lookup_put(k, visited)[2] = next_free(table, h) /\ next_free(table, h) # NoSlot
      BY <3>3 DEF lookup_put
    <3> QED
      BY <1>5, <3>4
  <2>3. CASE found = {} /\ holes = {}
    <3>1. lookup(table, h) = <<"ENOSPC", NoSlot>>
      BY <1>2, <2>3 DEF lookup
    <3>2. lookup_put(k, visited) = <<"ENOSPC", NoSlot>>
      BY <3>1 DEF lookup_put, lookup_common
    <3> QED
      BY <3>2
  <2> QED
    BY <2>1, <2>2, <2>3
<1> QED
  BY <1>6 DEF Place

\* Room is made only in a bucket that is full.
LEMMA FullBucket ==
  ASSUME GoodTable(table, rec), NEW k \in Keys, NEW visited, lookup_put(k, visited)[1] = "ENOSPC"
  PROVE  \A p \in Bucket(Hash[k]) : Used(table[p])
<1> DEFINE h == Hash[k]
           holes == {s \in Bucket(h) : ~Used(table[s])}
           found == Matches(table, h, {s \in Bucket(h) : \A o \in holes : s < o})
           fresh == {s \in Bucket(h) : Free(table[s])}
<1>1. h \in Nat /\ Bucket(h) \subseteq Slots
  BY Homes, KVAssumption
<1>2. CASE found = {} /\ holes # {}
  <2>1. lookup(table, h) = <<"ENODATA", Min(holes)>>
    BY <1>2 DEF lookup
  <2>2. lookup_put(k, visited) = <<"ENODATA", Min(holes)>>
    BY <2>1 DEF lookup_put, lookup_common
  <2> QED
    BY <2>2
<1>3. CASE found # {}
  <2>1. lookup(table, h) = <<"0", Min(found)>>
    BY <1>3 DEF lookup
  <2>2. next_free(table, h) = NoSlot
    <3>1. lookup_common(k, visited)[1] \in {"0", "assert_visited"}
      BY <2>1 DEF lookup_common
    <3>2. lookup_common(k, visited) = <<"0", NoSlot>>
      BY <3>1 DEF lookup_put
    <3> QED
      BY <3>2 DEF lookup_put
  <2>3. fresh \subseteq Slots /\ next_free(table, h) = MinOr(fresh)
    BY <1>1 DEF next_free
  <2>4. NoSlot \notin Slots
    BY DEF NoSlot, Slots
  <2>5. fresh = {}
    <3> HIDE DEF fresh
    <3> QED
      BY <2>2, <2>3, <2>4, MinOrSlot
  <2>6. \A p \in Bucket(h) : ~Free(table[p])
    BY <2>5
  <2> QED
    BY <1>1, <2>6, FreeUnused
<1>4. CASE holes = {}
  BY <1>4
<1> QED
  BY <1>2, <1>3, <1>4

\* A slot that is read is a live entry of the table.
LEMMA ReadSlot ==
  ASSUME GoodTable(table, rec), NEW k \in Keys, NEW visited,
         NEW s, s # NoSlot, lookup_common(k, visited) = <<"0", s>>
  PROVE  s \in Slots /\ Used(table[s])
<1> DEFINE h == Hash[k]
           holes == {x \in Bucket(h) : ~Used(table[x])}
           found == Matches(table, h, {x \in Bucket(h) : \A o \in holes : x < o})
           off == offered(table, h)
           new == {x \in off : table[x].pba \notin visited}
<1>1. h \in Nat /\ Bucket(h) \subseteq Slots /\ Bucket(h) \subseteq Nat
  BY Homes, KVAssumption, HopscotchAssumption DEF Slots, EntryNr
<1>2. lookup(table, h)[1] = "0"
  BY DEF lookup_common
<1>3. found # {} /\ lookup(table, h) = <<"0", Min(found)>>
  BY <1>2 DEF lookup
<1>4. found \subseteq Bucket(h) /\ \A x \in found : Used(table[x])
  BY DEF Matches, Live
<1>5. Min(found) \in found
  BY <1>1, <1>3, <1>4, MinOfNat
<1>6. off \subseteq Slots /\ \A x \in off : Used(table[x])
  <2>1. off = {Min(found)} \cup Matches(table, h, {x \in Bucket(h) : x > Min(found)})
    BY <1>3 DEF offered
  <2> QED
    BY <1>1, <1>4, <1>5, <2>1 DEF Matches, Live
<1>7. s = MinOr(new)
  BY <1>2 DEF lookup_common
<1>8. s \in new
  BY <1>6, <1>7, MinOrSlot
<1> QED
  BY <1>6, <1>8

-----------------------------------------------------------------------------
(* Segments *)

\* A segment, whatever its counts
SegRec == [state : SegStates, ts : Nat, nr3 : 0 .. SegSize, nr4 : Nat, valid : Nat]

\* Grains of segment s among those of G
InSeg(G, s) == {g \in G : g[1] = s}
At(g, s) == IF g[1] = s THEN 1 ELSE 0

\* A grain is a segment and an offset in it.
LEMMA GrainParts ==
  ASSUME NEW g \in Grains
  PROVE  g[1] \in Segs /\ g[2] \in 0 .. SegSize - 1 /\ g = <<g[1], g[2]>>
BY DEF Grains

\* A segment has finitely many grains.
LEMMA InSegFinite ==
  ASSUME NEW G, G \subseteq Grains, NEW s
  PROVE  IsFiniteSet(InSeg(G, s)) /\ Cardinality(InSeg(G, s)) \in Nat
<1>1. IsFiniteSet(0 .. SegSize - 1)
  BY SegmentsAssumption, FS_Interval
<1>2. IsFiniteSet(Grains)
  BY <1>1, SegmentsAssumption, FS_Product DEF Grains
<1>3. InSeg(G, s) \subseteq Grains
  BY DEF InSeg
<1>4. IsFiniteSet(InSeg(G, s))
  BY <1>2, <1>3, FS_Subset
<1> QED
  BY <1>4, FS_CardinalityType

\* A grain more counts in its own segment and in no other.
LEMMA CountAdd ==
  ASSUME NEW G, G \subseteq Grains, NEW g \in Grains, g \notin G, NEW s
  PROVE  Cardinality(InSeg(G \cup {g}, s)) = Cardinality(InSeg(G, s)) + At(g, s)
<1>1. IsFiniteSet(InSeg(G, s)) /\ Cardinality(InSeg(G, s)) \in Nat
  BY InSegFinite
<1>2. CASE g[1] = s
  <2>1. InSeg(G \cup {g}, s) = InSeg(G, s) \cup {g} /\ g \notin InSeg(G, s)
    BY <1>2 DEF InSeg
  <2>2. Cardinality(InSeg(G, s) \cup {g}) = Cardinality(InSeg(G, s)) + 1
    BY <1>1, <2>1, FS_AddElement
  <2> QED
    BY <1>2, <2>1, <2>2 DEF At
<1>3. CASE g[1] # s
  <2>1. InSeg(G \cup {g}, s) = InSeg(G, s)
    BY <1>3 DEF InSeg
  <2> QED
    BY <1>1, <1>3, <2>1 DEF At
<1> QED
  BY <1>2, <1>3

\* A grain less counts in its own segment and in no other.
LEMMA CountDel ==
  ASSUME NEW G, G \subseteq Grains, NEW g \in G, NEW s
  PROVE  Cardinality(InSeg(G \ {g}, s)) = Cardinality(InSeg(G, s)) - At(g, s)
<1>1. G \ {g} \subseteq Grains /\ g \in Grains /\ g \notin G \ {g} /\ (G \ {g}) \cup {g} = G
  OBVIOUS
<1>2. Cardinality(InSeg(G, s)) = Cardinality(InSeg(G \ {g}, s)) + At(g, s)
  BY <1>1, CountAdd
<1>3. Cardinality(InSeg(G \ {g}, s)) \in Nat
  BY <1>1, InSegFinite
<1> QED
  BY <1>2, <1>3 DEF At

\* A count of 0 means that no grain of the set is in the segment.
LEMMA CountZero ==
  ASSUME NEW G, G \subseteq Grains, NEW s, Cardinality(InSeg(G, s)) = 0, NEW g \in G
  PROVE  g[1] # s
<1>1. InSeg(G, s) = {}
  BY InSegFinite, FS_EmptySet
<1> QED
  BY <1>1 DEF InSeg

\* A grain of the set is counted in its segment.
LEMMA CountMember ==
  ASSUME NEW G, G \subseteq Grains, NEW g \in G
  PROVE  Cardinality(InSeg(G, g[1])) >= 1
<1>1. Cardinality(InSeg(G, g[1])) # 0
  BY CountZero
<1> QED
  BY <1>1, InSegFinite

\* The operators on segments, field by field
SameBut(new, old, s) ==
  /\ new \in [Segs -> SegRec]
  /\ \A x \in Segs : x # s => new[x] = old[x]

\* A segment x that n of its grains leave
Put4Seg(x, n) == [x EXCEPT !.nr4 = @ - n, !.state = IF x.nr4 = n THEN "done" ELSE @]

\* What release_grains() changes: the segment alone, as Put4Seg says.
LEMMA Put4Is ==
  ASSUME NEW sg \in [Segs -> SegRec], NEW s \in Segs, NEW n \in Nat, n <= sg[s].nr4
  PROVE  /\ SameBut(Put4(sg, s, n), sg, s)
         /\ Put4(sg, s, n)[s] = Put4Seg(sg[s], n)
<1> DEFINE u == [sg[s] EXCEPT !.nr4 = @ - n, !.state = IF sg[s].nr4 = n THEN "done" ELSE @]
<1>1. sg[s] \in SegRec
  OBVIOUS
<1>2. sg[s].nr4 - n \in Nat /\ sg[s].state \in SegStates /\ "done" \in SegStates
  BY <1>1 DEF SegRec, SegStates
<1>3. u \in SegRec
  BY <1>1, <1>2 DEF SegRec
<1>4. Put4(sg, s, n) = [sg EXCEPT ![s] = u]
  BY DEF Put4
<1> HIDE DEF u
<1>5. SameBut(Put4(sg, s, n), sg, s) /\ Put4(sg, s, n)[s] = u
  BY <1>3, <1>4 DEF SameBut
<1> QED
  BY <1>5 DEF u, Put4Seg

\* What invalidating a grain changes: the valid count, and the state of an
\* eligible segment that loses its last grain.
LEMMA InvalidatedIs ==
  ASSUME NEW sg \in [Segs -> SegRec], NEW g \in Grains, sg[g[1]].valid >= 1
  PROVE  /\ SameBut(Invalidated(sg, g), sg, g[1])
         /\ Invalidated(sg, g)[g[1]] =
              [sg[g[1]] EXCEPT !.valid = @ - 1,
                               !.state = IF @ = "gc" /\ sg[g[1]].valid = 1 THEN "free" ELSE @]
<1> DEFINE s == g[1]
           u == [sg[s] EXCEPT !.valid = @ - 1,
                              !.state = IF @ = "gc" /\ sg[s].valid = 1 THEN "free" ELSE @]
<1>1. s \in Segs /\ sg[s] \in SegRec
  BY GrainParts
<1>2. sg[s].valid - 1 \in Nat /\ sg[s].state \in SegStates /\ "free" \in SegStates
  BY <1>1 DEF SegRec, SegStates
<1>3. u \in SegRec
  BY <1>1, <1>2 DEF SegRec
<1>4. Invalidated(sg, g) = [sg EXCEPT ![s] = u]
  BY DEF Invalidated
<1> HIDE DEF u
<1>5. SameBut(Invalidated(sg, g), sg, s) /\ Invalidated(sg, g)[s] = u
  BY <1>1, <1>3, <1>4 DEF SameBut
<1> QED
  BY <1>5 DEF u

\* What the collector changes when it invalidates a grain it has moved.
LEMMA RelocInvalidatedIs ==
  ASSUME NEW sg \in [Segs -> SegRec], NEW g \in Grains, sg[g[1]].valid >= 1
  PROVE  /\ SameBut(RelocInvalidated(sg, g), sg, g[1])
         /\ RelocInvalidated(sg, g)[g[1]] = [sg[g[1]] EXCEPT !.valid = @ - 1]
<1> DEFINE s == g[1]
           u == [sg[s] EXCEPT !.valid = @ - 1]
<1>1. s \in Segs /\ sg[s] \in SegRec
  BY GrainParts
<1>2. sg[s].valid - 1 \in Nat
  BY <1>1 DEF SegRec
<1>3. u \in SegRec
  BY <1>1, <1>2 DEF SegRec
<1>4. RelocInvalidated(sg, g) = [sg EXCEPT ![s] = u]
  BY DEF RelocInvalidated
<1> HIDE DEF u
<1>5. SameBut(RelocInvalidated(sg, g), sg, s) /\ RelocInvalidated(sg, g)[s] = u
  BY <1>1, <1>3, <1>4 DEF SameBut
<1> QED
  BY <1>5 DEF u

\* What handing out a grain changes: the number handed out of its segment.
LEMMA AllocatedIs ==
  ASSUME NEW sg \in [Segs -> SegRec], NEW g \in Grains
  PROVE  /\ SameBut(Allocated(sg, g), sg, g[1])
         /\ Allocated(sg, g)[g[1]] = [sg[g[1]] EXCEPT !.nr3 = g[2] + 1]
<1> DEFINE s == g[1]
           u == [sg[s] EXCEPT !.nr3 = g[2] + 1]
<1>1. s \in Segs /\ sg[s] \in SegRec /\ g[2] + 1 \in 0 .. SegSize
  BY GrainParts, SegmentsAssumption
<1>3. u \in SegRec
  BY <1>1 DEF SegRec
<1>4. Allocated(sg, g) = [sg EXCEPT ![s] = u]
  BY DEF Allocated
<1> HIDE DEF u
<1>5. SameBut(Allocated(sg, g), sg, s) /\ Allocated(sg, g)[s] = u
  BY <1>1, <1>3, <1>4 DEF SameBut
<1> QED
  BY <1>5 DEF u

\* Grains of segment s that its stream has still to hand out
Rest(sg, stg, s) == IF \E st \in Streams : stg[st] = s THEN SegSize - sg[s].nr3 ELSE 0

\* A segment x of which h grains are held, c of them by puts under way, with
\* r grains to hand out
SegOK(x, h, c, r) ==
  /\ x.state = "free" => h = 0 /\ c = 0 /\ r = 0
  /\ x.state = "taken" => h = 0 /\ c = 0 /\ x.nr3 = 0 /\ x.valid = r /\ x.nr4 = r /\ r > 0
  /\ x.state = "alloc" => x.valid = h + r /\ x.nr4 = c + r /\ x.nr4 > 0
  /\ x.state \in {"done", "gc", "reloc"} => x.valid = h /\ c = 0 /\ r = 0

Staging(sg, stg) ==
  \A st \in Streams : stg[st] # NoSeg =>
    /\ sg[stg[st]].state \in {"taken", "alloc"}
    /\ sg[stg[st]].nr3 < SegSize
    /\ \A st2 \in Streams : stg[st2] = stg[st] => st2 = st

\* The segments and the staged ones, when the grains H are held, those of C by
\* puts under way
SegInv(sg, stg, H, C) ==
  /\ sg \in [Segs -> SegRec]
  /\ stg \in [Streams -> Segs \cup {NoSeg}]
  /\ H \subseteq Grains /\ C \subseteq Grains
  /\ \A s \in Segs : SegOK(sg[s], Cardinality(InSeg(H, s)), Cardinality(InSeg(C, s)), Rest(sg, stg, s))
  /\ \A g \in H : g[2] < sg[g[1]].nr3
  /\ Staging(sg, stg)

\* What no release or invalidation of a grain changes
Frame(new, old) ==
  \A s \in Segs : new[s].nr3 = old[s].nr3 /\ (old[s].state = "reloc" => new[s].state = "reloc")

\* The grains not handed out: those behind nr3 of a staged segment, and none of
\* any other.
LEMMA RestType ==
  ASSUME NEW sg, NEW stg, NEW H, NEW C, SegInv(sg, stg, H, C), NEW s \in Segs
  PROVE  /\ Rest(sg, stg, s) \in Nat
         /\ \A st \in Streams : stg[st] = s => Rest(sg, stg, s) > 0 /\ Rest(sg, stg, s) = SegSize - sg[s].nr3
         /\ (\A st \in Streams : stg[st] # s) => Rest(sg, stg, s) = 0
         /\ Cardinality(InSeg(H, s)) \in Nat /\ Cardinality(InSeg(C, s)) \in Nat
<1>1. sg[s] \in SegRec /\ SegSize \in Nat /\ s # NoSeg
  BY SegmentsAssumption DEF SegInv
<1>2. sg[s].nr3 \in 0 .. SegSize
  BY <1>1 DEF SegRec
<1>3. \A st \in Streams : stg[st] = s => sg[s].nr3 < SegSize
  BY <1>1 DEF SegInv, Staging
<1>4. Cardinality(InSeg(H, s)) \in Nat /\ Cardinality(InSeg(C, s)) \in Nat
  BY InSegFinite DEF SegInv
<1> QED
  BY <1>1, <1>2, <1>3, <1>4 DEF Rest

\* A held grain is given up, by its entry or its put.
LEMMA SegInvalidate ==
  ASSUME NEW sg, NEW stg, NEW H, NEW C, SegInv(sg, stg, H, C), NEW g \in H
  PROVE  /\ SegInv(Invalidated(sg, g), stg, H \ {g}, C)
         /\ Frame(Invalidated(sg, g), sg)
<1> DEFINE s == g[1]
           new == Invalidated(sg, g)
           h(x) == Cardinality(InSeg(H, x))
           c(x) == Cardinality(InSeg(C, x))
           r(x) == Rest(sg, stg, x)
<1>1. g \in Grains /\ s \in Segs /\ sg \in [Segs -> SegRec] /\ sg[s] \in SegRec
  BY GrainParts DEF SegInv
<1>2. h(s) >= 1
  BY CountMember DEF SegInv
<1>3. \A x \in Segs : h(x) \in Nat /\ c(x) \in Nat /\ r(x) \in Nat
  BY RestType
<1>4. SegOK(sg[s], h(s), c(s), r(s))
  BY <1>1 DEF SegInv
<1>5. /\ sg[s].state \in SegStates /\ sg[s].valid \in Nat /\ sg[s].nr4 \in Nat
      /\ sg[s].state \notin {"free", "taken"} /\ sg[s].valid = h(s) + r(s)
  <2>1. sg[s].state \in SegStates /\ sg[s].valid \in Nat /\ sg[s].nr4 \in Nat
    BY <1>1 DEF SegRec
  <2> HIDE DEF h, c, r
  <2> QED
    BY <1>1, <1>2, <1>3, <1>4, <2>1 DEF SegOK, SegStates
<1>6. sg[s].valid >= 1
  <2> HIDE DEF h, c, r
  <2> QED
    BY <1>1, <1>2, <1>3, <1>5
<1>7. /\ SameBut(new, sg, s)
      /\ new[s] = [sg[s] EXCEPT !.valid = @ - 1,
                                !.state = IF @ = "gc" /\ sg[s].valid = 1 THEN "free" ELSE @]
  BY <1>1, <1>6, InvalidatedIs
<1>8. /\ new[s].valid = sg[s].valid - 1 /\ new[s].nr3 = sg[s].nr3 /\ new[s].nr4 = sg[s].nr4
      /\ new[s].state = IF sg[s].state = "gc" /\ sg[s].valid = 1 THEN "free" ELSE sg[s].state
  BY <1>1, <1>7 DEF SegRec
<1> HIDE DEF new
<1>9. new \in [Segs -> SegRec] /\ \A x \in Segs : x # s => new[x] = sg[x]
  BY <1>7 DEF SameBut
<1>10. \A x \in Segs : Rest(new, stg, x) = r(x)
  BY <1>8, <1>9 DEF Rest
<1>11. \A x \in Segs : Cardinality(InSeg(H \ {g}, x)) = h(x) - At(g, x)
  BY CountDel DEF SegInv
<1>12. ASSUME NEW x \in Segs
       PROVE  SegOK(new[x], Cardinality(InSeg(H \ {g}, x)), c(x), Rest(new, stg, x))
  <2>1. SegOK(sg[x], h(x), c(x), r(x)) /\ h(x) \in Nat /\ c(x) \in Nat /\ r(x) \in Nat
    BY <1>3 DEF SegInv
  <2>2. Rest(new, stg, x) = r(x) /\ Cardinality(InSeg(H \ {g}, x)) = h(x) - At(g, x)
    BY <1>10, <1>11
  <2> HIDE DEF h, c, r
  <2>3. CASE x = s
    <3>1. At(g, x) = 1
      BY <2>3 DEF At
    <3>2. CASE sg[s].state = "alloc"
      BY <2>1, <2>2, <2>3, <3>1, <3>2, <1>2, <1>5, <1>8 DEF SegOK
    <3>3. CASE sg[s].state \in {"done", "gc", "reloc"}
      BY <2>1, <2>2, <2>3, <3>1, <3>3, <1>2, <1>5, <1>8 DEF SegOK
    <3> QED
      BY <3>2, <3>3, <1>5 DEF SegStates
  <2>4. CASE x # s
    <3>1. At(g, x) = 0 /\ new[x] = sg[x]
      BY <2>4, <1>9 DEF At
    <3> QED
      BY <2>1, <2>2, <3>1
  <2> QED
    BY <2>3, <2>4
<1>13. Staging(new, stg)
  <2>1. \A x \in Segs : new[x].nr3 = sg[x].nr3
    BY <1>8, <1>9
  <2>2. \A x \in Segs : sg[x].state \in {"taken", "alloc"} => new[x].state \in {"taken", "alloc"}
    BY <1>8, <1>9
  <2>3. \A st \in Streams : stg[st] # NoSeg => stg[st] \in Segs
    BY DEF SegInv
  <2> QED
    BY <2>1, <2>2, <2>3 DEF SegInv, Staging
<1>14. \A x \in H \ {g} : x[2] < new[x[1]].nr3
  <2>1. \A x \in Segs : new[x].nr3 = sg[x].nr3
    BY <1>8, <1>9
  <2>2. \A x \in H : x[1] \in Segs
    BY GrainParts DEF SegInv
  <2> QED
    BY <2>1, <2>2 DEF SegInv
<1>15. SegInv(new, stg, H \ {g}, C)
  BY <1>9, <1>12, <1>13, <1>14 DEF SegInv
<1>16. Frame(new, sg)
  BY <1>8, <1>9 DEF Frame
<1> QED
  BY <1>15, <1>16 DEF new

\* One segment s changes, and with it what is held of it.
OneChanges(sg, stg, H, C, s, new, stg2, G, D) ==
  /\ SameBut(new, sg, s)
  /\ stg2 \in [Streams -> Segs \cup {NoSeg}]
  /\ G \subseteq Grains /\ D \subseteq Grains
  /\ \A x \in Segs : x # s => /\ Cardinality(InSeg(G, x)) = Cardinality(InSeg(H, x))
                              /\ Cardinality(InSeg(D, x)) = Cardinality(InSeg(C, x))
  /\ \A st \in Streams : stg2[st] # stg[st] => stg2[st] \in {s, NoSeg} /\ stg[st] \in {s, NoSeg}
  /\ SegOK(new[s], Cardinality(InSeg(G, s)), Cardinality(InSeg(D, s)), Rest(new, stg2, s))
  /\ \A g \in G : g[1] = s => g[2] < new[s].nr3
  /\ \A g \in G : g[1] # s => g \in H
  /\ \A st \in Streams : stg2[st] = s =>
       /\ new[s].state \in {"taken", "alloc"} /\ new[s].nr3 < SegSize
       /\ \A st2 \in Streams : stg2[st2] = s => st2 = st

\* A step that changes one segment keeps the invariant if that segment is right
\* afterwards.
LEMMA SegChange ==
  ASSUME NEW sg, NEW stg, NEW H, NEW C, SegInv(sg, stg, H, C), NEW s \in Segs,
         NEW new, NEW stg2, NEW G, NEW D, OneChanges(sg, stg, H, C, s, new, stg2, G, D)
  PROVE  SegInv(new, stg2, G, D)
<1> USE DEF OneChanges
<1>1. new \in [Segs -> SegRec] /\ \A x \in Segs : x # s => new[x] = sg[x]
  BY DEF SameBut
<1>2. NoSeg \notin Segs
  BY SegmentsAssumption
<1>3. ASSUME NEW x \in Segs, x # s PROVE Rest(new, stg2, x) = Rest(sg, stg, x)
  <2>1. \A st \in Streams : stg2[st] = x <=> stg[st] = x
    BY <1>2, <1>3
  <2> QED
    BY <1>1, <1>3, <2>1 DEF Rest
<1>4. ASSUME NEW x \in Segs
      PROVE  SegOK(new[x], Cardinality(InSeg(G, x)), Cardinality(InSeg(D, x)), Rest(new, stg2, x))
  <2>1. CASE x # s
    <3>1. SegOK(sg[x], Cardinality(InSeg(H, x)), Cardinality(InSeg(C, x)), Rest(sg, stg, x))
      BY DEF SegInv
    <3> QED
      BY <3>1, <2>1, <1>1, <1>3
  <2> QED
    BY <2>1
<1>5. \A g \in G : g[2] < new[g[1]].nr3
  <2> SUFFICES ASSUME NEW g \in G PROVE g[2] < new[g[1]].nr3
    OBVIOUS
  <2>1. CASE g[1] # s
    <3>1. g \in H /\ g[1] \in Segs
      BY <2>1, GrainParts
    <3> QED
      BY <3>1, <2>1, <1>1 DEF SegInv
  <2> QED
    BY <2>1
<1>6. Staging(new, stg2)
  <2> SUFFICES ASSUME NEW st \in Streams, stg2[st] # NoSeg
               PROVE  /\ new[stg2[st]].state \in {"taken", "alloc"}
                      /\ new[stg2[st]].nr3 < SegSize
                      /\ \A st2 \in Streams : stg2[st2] = stg2[st] => st2 = st
    BY DEF Staging
  <2>1. CASE stg2[st] = s
    BY <2>1
  <2>2. CASE stg2[st] # s
    <3>1. stg2[st] = stg[st] /\ stg[st] \in Segs
      BY <2>2
    <3>2. \A st2 \in Streams : stg2[st2] = stg2[st] => stg[st2] = stg[st]
      BY <1>2, <2>2, <3>1
    <3> QED
      BY <3>1, <3>2, <2>2, <1>1 DEF SegInv, Staging
  <2> QED
    BY <2>1, <2>2
<1> QED
  BY <1>1, <1>4, <1>5, <1>6 DEF SegInv

\* The put that has written grain g has done with it.
LEMMA SegRelease ==
  ASSUME NEW sg, NEW stg, NEW H, NEW C, SegInv(sg, stg, H, C), NEW g \in C
  PROVE  /\ SegInv(Released(sg, g), stg, H, C \ {g})
         /\ Frame(Released(sg, g), sg)
<1> DEFINE s == g[1]
           new == Released(sg, g)
           h == Cardinality(InSeg(H, s))
           c == Cardinality(InSeg(C, s))
           r == Rest(sg, stg, s)
<1>1. g \in Grains /\ s \in Segs /\ sg \in [Segs -> SegRec] /\ sg[s] \in SegRec
  BY GrainParts DEF SegInv
<1>2. c >= 1 /\ c \in Nat /\ h \in Nat /\ r \in Nat
  BY <1>1, CountMember, RestType DEF SegInv
<1>3. SegOK(sg[s], h, c, r) /\ sg[s].state \in SegStates
  BY <1>1 DEF SegInv, SegRec
<1>4. (\A st \in Streams : stg[st] = s => r > 0)
  BY <1>1, RestType
<1>5. C \ {g} \subseteq Grains /\ H \subseteq Grains /\ stg \in [Streams -> Segs \cup {NoSeg}]
  BY DEF SegInv
<1>6. \A x \in Segs : Cardinality(InSeg(C \ {g}, x)) = Cardinality(InSeg(C, x)) - At(g, x)
  BY CountDel DEF SegInv
<1> HIDE DEF h, c, r
<1>7. sg[s].state = "alloc" /\ sg[s].valid = h + r /\ sg[s].nr4 = c + r
  BY <1>2, <1>3 DEF SegOK, SegStates
<1>8. 1 <= sg[s].nr4
  BY <1>2, <1>7
<1>9. /\ SameBut(new, sg, s)
      /\ new[s] = Put4Seg(sg[s], 1)
  <2> HIDE DEF s
  <2>1. SameBut(Put4(sg, s, 1), sg, s)
        /\ Put4(sg, s, 1)[s] = Put4Seg(sg[s], 1)
    BY <1>1, <1>8, Put4Is
  <2>2. new = Put4(sg, s, 1)
    BY DEF new, Released, s
  <2> QED
    BY <2>1, <2>2
<1>10. /\ new[s].nr4 = sg[s].nr4 - 1 /\ new[s].valid = sg[s].valid /\ new[s].nr3 = sg[s].nr3
       /\ new[s].state = IF sg[s].nr4 = 1 THEN "done" ELSE sg[s].state
  BY <1>1, <1>9 DEF SegRec, Put4Seg
<1> HIDE DEF new
<1>11. Rest(new, stg, s) = r
  BY <1>10 DEF Rest, r
<1>12. Cardinality(InSeg(C \ {g}, s)) = c - 1
  <2>1. At(g, s) = 1
    BY DEF At
  <2> QED
    BY <1>1, <1>6, <2>1 DEF c
<1>13. SegOK(new[s], h, c - 1, r)
  BY <1>2, <1>7, <1>10 DEF SegOK
<1>14. \A x \in Segs : x # s => Cardinality(InSeg(C \ {g}, x)) = Cardinality(InSeg(C, x))
  <2> SUFFICES ASSUME NEW x \in Segs, x # s
               PROVE  Cardinality(InSeg(C \ {g}, x)) = Cardinality(InSeg(C, x))
    OBVIOUS
  <2>1. InSeg(C \ {g}, x) = InSeg(C, x)
    BY DEF InSeg
  <2> QED
    BY <2>1
<1>15. \A st \in Streams : stg[st] = s =>
         /\ new[s].state \in {"taken", "alloc"} /\ new[s].nr3 < SegSize
         /\ \A st2 \in Streams : stg[st2] = s => st2 = st
  <2> SUFFICES ASSUME NEW st \in Streams, stg[st] = s
               PROVE  /\ new[s].state \in {"taken", "alloc"} /\ new[s].nr3 < SegSize
                      /\ \A st2 \in Streams : stg[st2] = s => st2 = st
    OBVIOUS
  <2>1. r > 0 /\ sg[s].nr4 # 1
    BY <1>2, <1>4, <1>7
  <2>2. s # NoSeg
    BY <1>1, SegmentsAssumption
  <2> QED
    BY <1>7, <1>10, <2>1, <2>2 DEF SegInv, Staging
<1>16. \A x \in H : x[1] = s => x[2] < new[s].nr3
  BY <1>10 DEF SegInv
<1>17. SegInv(new, stg, H, C \ {g})
  <2>1. SegOK(new[s], Cardinality(InSeg(H, s)), Cardinality(InSeg(C \ {g}, s)), Rest(new, stg, s))
    BY <1>11, <1>12, <1>13 DEF h
  <2>2. OneChanges(sg, stg, H, C, s, new, stg, H, C \ {g})
    BY <1>1, <1>5, <1>9, <1>14, <1>15, <1>16, <2>1 DEF OneChanges
  <2> QED
    BY <1>1, <2>2, SegChange
<1>18. Frame(new, sg)
  BY <1>7, <1>9, <1>10 DEF Frame, SameBut
<1> QED
  BY <1>17, <1>18 DEF new

\* A grain that was relocated or evicted is given up by its segment, which the
\* collector has chosen.
LEMMA SegRelocInvalidate ==
  ASSUME NEW sg, NEW stg, NEW H, NEW C, SegInv(sg, stg, H, C), NEW g \in H,
         sg[g[1]].state = "reloc"
  PROVE  /\ SegInv(RelocInvalidated(sg, g), stg, H \ {g}, C)
         /\ Frame(RelocInvalidated(sg, g), sg)
<1> DEFINE s == g[1]
           new == RelocInvalidated(sg, g)
           h == Cardinality(InSeg(H, s))
           c == Cardinality(InSeg(C, s))
           r == Rest(sg, stg, s)
<1>1. g \in Grains /\ s \in Segs /\ sg \in [Segs -> SegRec] /\ sg[s] \in SegRec
  BY GrainParts DEF SegInv
<1>2. h >= 1 /\ c \in Nat /\ h \in Nat /\ r \in Nat
  BY <1>1, CountMember, RestType DEF SegInv
<1>3. SegOK(sg[s], h, c, r)
  BY <1>1 DEF SegInv
<1>4. (\A st \in Streams : stg[st] = s => r > 0)
  BY <1>1, RestType
<1>5. H \ {g} \subseteq Grains /\ C \subseteq Grains /\ stg \in [Streams -> Segs \cup {NoSeg}]
  BY DEF SegInv
<1>6. \A x \in Segs : Cardinality(InSeg(H \ {g}, x)) = Cardinality(InSeg(H, x)) - At(g, x)
  BY CountDel DEF SegInv
<1> HIDE DEF h, c, r
<1>7. sg[s].valid = h /\ c = 0 /\ r = 0
  BY <1>3 DEF SegOK
<1>8. /\ SameBut(new, sg, s)
      /\ new[s] = [sg[s] EXCEPT !.valid = @ - 1]
  BY <1>1, <1>2, <1>7, RelocInvalidatedIs
<1>9. /\ new[s].nr4 = sg[s].nr4 /\ new[s].valid = sg[s].valid - 1 /\ new[s].nr3 = sg[s].nr3
      /\ new[s].state = sg[s].state
  BY <1>1, <1>8 DEF SegRec
<1> HIDE DEF new
<1>10. Rest(new, stg, s) = r
  BY <1>9 DEF Rest, r
<1>11. Cardinality(InSeg(H \ {g}, s)) = h - 1
  <2>1. At(g, s) = 1
    BY DEF At
  <2> QED
    BY <1>1, <1>6, <2>1 DEF h
<1>12. SegOK(new[s], h - 1, c, r)
  BY <1>2, <1>7, <1>9 DEF SegOK
<1>13. \A x \in Segs : x # s => Cardinality(InSeg(H \ {g}, x)) = Cardinality(InSeg(H, x))
  <2> SUFFICES ASSUME NEW x \in Segs, x # s
               PROVE  Cardinality(InSeg(H \ {g}, x)) = Cardinality(InSeg(H, x))
    OBVIOUS
  <2>1. InSeg(H \ {g}, x) = InSeg(H, x)
    BY DEF InSeg
  <2> QED
    BY <2>1
<1>14. \A st \in Streams : stg[st] # s
  BY <1>4, <1>7
<1>15. \A x \in H \ {g} : x[1] = s => x[2] < new[s].nr3
  BY <1>9 DEF SegInv
<1>16. SegInv(new, stg, H \ {g}, C)
  <2>1. SegOK(new[s], Cardinality(InSeg(H \ {g}, s)), Cardinality(InSeg(C, s)), Rest(new, stg, s))
    BY <1>10, <1>11, <1>12 DEF c
  <2>2. OneChanges(sg, stg, H, C, s, new, stg, H \ {g}, C)
    BY <1>1, <1>5, <1>8, <1>13, <1>14, <1>15, <2>1 DEF OneChanges
  <2> QED
    BY <1>1, <2>2, SegChange
<1>17. Frame(new, sg)
  BY <1>8, <1>9 DEF Frame, SameBut
<1> QED
  BY <1>16, <1>17 DEF new

\* A grain handed out is held by the put it is for.
LEMMA SegAllocate ==
  ASSUME NEW H, NEW C, SegInv(seg, staged, H, C), C \subseteq H, NEW st \in Streams, CanAllocate(st)
  PROVE  LET g == NextGrain(st)
         IN /\ SegInv(Allocated(seg, g), StagedAfter(st), H \cup {g}, C \cup {g})
            /\ g \in Grains /\ g \notin H /\ seg[g[1]].state = "alloc" /\ ~(g[2] < seg[g[1]].nr3)
            /\ \A x \in Segs : Allocated(seg, g)[x].state = seg[x].state
            /\ \A x \in Grains : x[2] < Allocated(seg, g)[x[1]].nr3 => x = g \/ x[2] < seg[x[1]].nr3
            /\ \A x \in Segs : seg[x].nr3 <= Allocated(seg, g)[x].nr3
<1> DEFINE s == staged[st]
           n == seg[s].nr3
           g == <<s, n>>
           new == Allocated(seg, g)
           stg == StagedAfter(st)
           h == Cardinality(InSeg(H, s))
           c == Cardinality(InSeg(C, s))
           r == Rest(seg, staged, s)
<1>1. s \in Segs /\ s # NoSeg /\ seg \in [Segs -> SegRec] /\ seg[s] \in SegRec /\ seg[s].state = "alloc"
  BY SegmentsAssumption DEF SegInv, CanAllocate
<1>2. n < SegSize /\ n \in Nat /\ SegSize \in Nat /\ \A st2 \in Streams : staged[st2] = s => st2 = st
  <2>1. n \in 0 .. SegSize
    BY <1>1 DEF SegRec
  <2> QED
    BY <1>1, <2>1, SegmentsAssumption DEF SegInv, Staging
<1>3. g \in Grains /\ g[1] = s /\ g[2] = n
  BY <1>1, <1>2 DEF Grains
<1>4. g \notin H
  BY <1>2, <1>3 DEF SegInv
<1>5. h \in Nat /\ c \in Nat /\ r \in Nat /\ r > 0 /\ r = SegSize - n
  BY <1>1, RestType
<1>6. seg[s].valid = h + r /\ seg[s].nr4 = c + r
  BY <1>1 DEF SegInv, SegOK
<1>7. SameBut(new, seg, s) /\ new[s] = [seg[s] EXCEPT !.nr3 = n + 1]
  BY <1>1, <1>3, AllocatedIs
<1>8. /\ new[s].nr4 = seg[s].nr4 /\ new[s].valid = seg[s].valid /\ new[s].nr3 = n + 1
      /\ new[s].state = "alloc"
  BY <1>1, <1>7 DEF SegRec
<1>9. H \cup {g} \subseteq Grains /\ C \cup {g} \subseteq Grains /\ staged \in [Streams -> Segs \cup {NoSeg}]
      /\ H \subseteq Grains /\ C \subseteq Grains
  BY <1>3 DEF SegInv
<1>10. Cardinality(InSeg(H \cup {g}, s)) = h + 1 /\ Cardinality(InSeg(C \cup {g}, s)) = c + 1
  <2>1. At(g, s) = 1
    BY <1>3 DEF At
  <2>2. Cardinality(InSeg(H \cup {g}, s)) = h + At(g, s)
    BY <1>3, <1>4, <1>9, CountAdd
  <2>3. Cardinality(InSeg(C \cup {g}, s)) = c + At(g, s)
    BY <1>3, <1>4, <1>9, CountAdd
  <2> QED
    BY <2>1, <2>2, <2>3
<1>11. \A x \in Segs : x # s => InSeg(H \cup {g}, x) = InSeg(H, x) /\ InSeg(C \cup {g}, x) = InSeg(C, x)
  BY <1>3 DEF InSeg
<1>12. /\ stg \in [Streams -> Segs \cup {NoSeg}]
       /\ \A st2 \in Streams : st2 # st => stg[st2] = staged[st2]
       /\ stg[st] = IF n = SegSize - 1 THEN NoSeg ELSE s
  <2>1. CASE n = SegSize - 1
    <3>1. stg = [staged EXCEPT ![st] = NoSeg]
      BY <2>1 DEF StagedAfter
    <3> QED
      BY <1>9, <2>1, <3>1
  <2>2. CASE n # SegSize - 1
    <3>1. stg = staged
      BY <2>2 DEF StagedAfter
    <3> QED
      BY <1>9, <2>2, <3>1
  <2> QED
    BY <2>1, <2>2
<1> HIDE DEF g, new, stg, h, c, r, n
<1>13. Rest(new, stg, s) = r - 1
  <2>1. CASE n = SegSize - 1
    <3>1. \A st2 \in Streams : stg[st2] # s
      BY <1>1, <1>2, <1>12, <2>1
    <3>2. Rest(new, stg, s) = 0
      BY <3>1 DEF Rest
    <3> QED
      BY <1>2, <1>5, <2>1, <3>2
  <2>2. CASE n # SegSize - 1
    <3>1. stg[st] = s
      BY <1>12, <2>2
    <3>2. Rest(new, stg, s) = SegSize - (n + 1)
      BY <1>8, <3>1 DEF Rest
    <3> QED
      BY <1>2, <1>5, <3>2
  <2> QED
    BY <2>1, <2>2
<1>14. SegOK(new[s], h + 1, c + 1, r - 1)
  BY <1>5, <1>6, <1>8 DEF SegOK
<1>15. \A st2 \in Streams : stg[st2] # staged[st2] => stg[st2] \in {s, NoSeg} /\ staged[st2] \in {s, NoSeg}
  BY <1>12
<1>16. \A x \in H \cup {g} : x[1] = s => x[2] < new[s].nr3
  <2> SUFFICES ASSUME NEW x \in H \cup {g}, x[1] = s PROVE x[2] < n + 1
    BY <1>8
  <2>1. CASE x \in H
    <3>1. x[2] < n /\ x \in Grains
      BY <2>1, <1>9 DEF SegInv, n
    <3> QED
      BY <1>2, <3>1, GrainParts
  <2>2. CASE x = g
    BY <1>2, <1>3, <2>2
  <2> QED
    BY <2>1, <2>2
<1>17. \A x \in H \cup {g} : x[1] # s => x \in H
  BY <1>3
<1>18. \A st1 \in Streams : stg[st1] = s =>
         /\ new[s].state \in {"taken", "alloc"} /\ new[s].nr3 < SegSize
         /\ \A st2 \in Streams : stg[st2] = s => st2 = st1
  BY <1>1, <1>2, <1>8, <1>12
<1>19. SegInv(new, stg, H \cup {g}, C \cup {g})
  <2>1. SegOK(new[s], Cardinality(InSeg(H \cup {g}, s)), Cardinality(InSeg(C \cup {g}, s)), Rest(new, stg, s))
    BY <1>10, <1>13, <1>14
  <2>2. OneChanges(seg, staged, H, C, s, new, stg, H \cup {g}, C \cup {g})
    <3> HIDE DEF s
    <3> QED
      BY <1>7, <1>9, <1>11, <1>12, <1>15, <1>16, <1>17, <1>18, <2>1 DEF OneChanges
  <2> QED
    BY <1>1, <2>2, SegChange
<1>20. \A x \in Segs : new[x].state = seg[x].state /\ seg[x].nr3 <= new[x].nr3
  <2> SUFFICES ASSUME NEW x \in Segs PROVE new[x].state = seg[x].state /\ seg[x].nr3 <= new[x].nr3
    OBVIOUS
  <2>1. CASE x = s
    BY <1>1, <1>2, <1>8, <2>1 DEF n
  <2>2. CASE x # s
    <3>1. new[x] = seg[x] /\ seg[x] \in SegRec
      BY <1>1, <1>7, <2>2 DEF SameBut
    <3> QED
      BY <3>1 DEF SegRec
  <2> QED
    BY <2>1, <2>2
<1>21. \A x \in Grains : x[2] < new[x[1]].nr3 => x = g \/ x[2] < seg[x[1]].nr3
  <2> SUFFICES ASSUME NEW x \in Grains, x[2] < new[x[1]].nr3, x[2] >= seg[x[1]].nr3 PROVE x = g
    <3>1. \A x \in Grains : x[2] \in Nat /\ seg[x[1]].nr3 \in Nat
      BY GrainParts, SegmentsAssumption, <1>1 DEF SegRec
    <3> QED
      BY <3>1
  <2>1. x[1] \in Segs /\ x[2] \in Nat /\ x = <<x[1], x[2]>>
    BY GrainParts
  <2>2. x[1] = s
    <3>1. CASE x[1] # s
      <4>1. new[x[1]] = seg[x[1]] /\ seg[x[1]] \in SegRec
        BY <1>1, <1>7, <2>1, <3>1 DEF SameBut
      <4>2. seg[x[1]].nr3 \in Nat
        BY <4>1, SegmentsAssumption DEF SegRec
      <4> QED
        BY <2>1, <4>1, <4>2
    <3> QED
      BY <3>1
  <2>3. x[2] = n
    BY <1>2, <1>8, <2>1, <2>2 DEF n
  <2> QED
    BY <2>1, <2>2, <2>3 DEF g
<1>22. ~(g[2] < seg[g[1]].nr3) /\ seg[g[1]].state = "alloc"
  BY <1>1, <1>2, <1>3 DEF n
<1>23. NextGrain(st) = g
  BY DEF NextGrain, g, n
<1> QED
  BY <1>3, <1>4, <1>19, <1>20, <1>21, <1>22, <1>23 DEF new, stg

\* What is left of a stream's segment is given up.
LEMMA SegDrain ==
  ASSUME NEW H, NEW C, SegInv(seg, staged, H, C), NEW st \in Streams
  PROVE  /\ SegInv(Drained(st), StagedDrained(st), H, C)
         /\ Frame(Drained(st), seg)
<1> DEFINE s == staged[st]
           rem == SegSize - seg[s].nr3
           new == Drained(st)
           stg == StagedDrained(st)
           h == Cardinality(InSeg(H, s))
           c == Cardinality(InSeg(C, s))
           r == Rest(seg, staged, s)
<1>0. seg \in [Segs -> SegRec] /\ staged \in [Streams -> Segs \cup {NoSeg}] /\ H \subseteq Grains /\ C \subseteq Grains
  BY DEF SegInv
<1>1. CASE ~Drainable(st)
  <2>1. new = seg /\ stg = staged
    BY <1>1 DEF Drained, StagedDrained
  <2> QED
    BY <2>1 DEF Frame
<1>2. CASE Drainable(st)
  <2>1. s \in Segs /\ s # NoSeg /\ seg[s] \in SegRec /\ seg[s].state = "alloc"
    BY <1>0, <1>2, SegmentsAssumption DEF Drainable
  <2>2. \A st2 \in Streams : staged[st2] = s => st2 = st
    BY <2>1 DEF SegInv, Staging
  <2>3. h \in Nat /\ c \in Nat /\ r \in Nat /\ r > 0 /\ r = rem
    BY <2>1, RestType
  <2>4. seg[s].valid = h + r /\ seg[s].nr4 = c + r
    BY <2>1 DEF SegInv, SegOK
  <2> DEFINE u == [seg[s] EXCEPT !.valid = @ - rem]
             sg == [seg EXCEPT ![s] = u]
  <2>5. sg = [seg EXCEPT ![s].valid = @ - rem]
    OBVIOUS
  <2>6. new = Put4(sg, s, rem)
    BY <1>2, <2>5 DEF Drained
  <2>7. u \in SegRec /\ u.nr4 = seg[s].nr4 /\ u.valid = h /\ u.nr3 = seg[s].nr3 /\ u.state = "alloc"
    <3> HIDE DEF h, c, r
    <3>1. seg[s].valid - rem = h
      BY <2>3, <2>4
    <3> HIDE DEF rem
    <3> QED
      BY <2>1, <2>3, <3>1 DEF SegRec
  <2> HIDE DEF u, h, c, r
  <2>8. sg \in [Segs -> SegRec] /\ sg[s] = u /\ \A x \in Segs : x # s => sg[x] = seg[x]
    BY <1>0, <2>1, <2>7
  <2> HIDE DEF sg
  <2>9. rem \in Nat /\ rem <= sg[s].nr4
    BY <2>3, <2>4, <2>7, <2>8
  <2> HIDE DEF s, rem
  <2>10. /\ SameBut(Put4(sg, s, rem), sg, s)
         /\ Put4(sg, s, rem)[s] = Put4Seg(sg[s], rem)
    BY <2>1, <2>8, <2>9, Put4Is
  <2>11. /\ new[s].nr4 = seg[s].nr4 - rem /\ new[s].valid = h /\ new[s].nr3 = seg[s].nr3
         /\ new[s].state = IF seg[s].nr4 = rem THEN "done" ELSE "alloc"
    BY <2>6, <2>7, <2>8, <2>10 DEF SegRec, Put4Seg
  <2>12. SameBut(new, seg, s)
    BY <2>6, <2>8, <2>10 DEF SameBut
  <2>13. stg = [staged EXCEPT ![st] = NoSeg]
    BY <1>2 DEF StagedDrained
  <2> HIDE DEF new, stg
  <2>14. /\ stg \in [Streams -> Segs \cup {NoSeg}]
         /\ \A st2 \in Streams : st2 # st => stg[st2] = staged[st2]
         /\ stg[st] = NoSeg
    BY <1>0, <2>13
  <2>15. \A st2 \in Streams : stg[st2] # s
    BY <2>1, <2>2, <2>14
  <2>16. Rest(new, stg, s) = 0
    BY <2>15 DEF Rest
  <2>17. SegOK(new[s], h, c, 0)
    BY <2>3, <2>4, <2>11 DEF SegOK
  <2>18. \A x \in H : x[1] = s => x[2] < new[s].nr3
    BY <2>11 DEF SegInv
  <2>19. \A st2 \in Streams : stg[st2] # staged[st2] => stg[st2] \in {s, NoSeg} /\ staged[st2] \in {s, NoSeg}
    BY <2>14 DEF s
  <2>20. OneChanges(seg, staged, H, C, s, new, stg, H, C)
    BY <1>0, <2>12, <2>14, <2>15, <2>16, <2>17, <2>18, <2>19 DEF OneChanges, h, c
  <2>21. SegInv(new, stg, H, C)
    BY <2>1, <2>20, SegChange
  <2>22. Frame(new, seg)
    BY <2>1, <2>11, <2>12 DEF Frame, SameBut
  <2> QED
    BY <2>21, <2>22 DEF new, stg
<1> QED
  BY <1>1, <1>2

\* Segment s is in queue q
QueuedAs(s, q) == [seg EXCEPT ![s].state = q]

\* A segment whose grains are all released goes from one queue to another, and
\* is free only when nothing of it is held.
LEMMA SegMove ==
  ASSUME NEW H, NEW C, SegInv(seg, staged, H, C), NEW s \in Segs, NEW q \in {"gc", "reloc", "free"},
         seg[s].state \in {"done", "gc", "reloc"}, q = "free" => InSeg(H, s) = {}
  PROVE  /\ SegInv(QueuedAs(s, q), staged, H, C)
         /\ SameBut(QueuedAs(s, q), seg, s) /\ QueuedAs(s, q)[s].state = q
         /\ \A x \in Segs : QueuedAs(s, q)[x].nr3 = seg[x].nr3
<1> DEFINE u == [seg[s] EXCEPT !.state = q]
           new == [seg EXCEPT ![s] = u]
           h == Cardinality(InSeg(H, s))
           c == Cardinality(InSeg(C, s))
           r == Rest(seg, staged, s)
<1>1. seg \in [Segs -> SegRec] /\ seg[s] \in SegRec /\ H \subseteq Grains /\ C \subseteq Grains
      /\ staged \in [Streams -> Segs \cup {NoSeg}]
  BY DEF SegInv
<1>2. h \in Nat /\ c \in Nat /\ r \in Nat /\ (q = "free" => h = 0)
  <2>1. Cardinality({}) = 0
    BY FS_EmptySet
  <2> QED
    BY <2>1, RestType
<1>3. seg[s].valid = h /\ c = 0 /\ r = 0
  BY DEF SegInv, SegOK
<1>4. q \in SegStates
  BY DEF SegStates
<1>5. u \in SegRec /\ u.nr3 = seg[s].nr3 /\ u.nr4 = seg[s].nr4 /\ u.valid = seg[s].valid /\ u.state = q
  BY <1>1, <1>4 DEF SegRec
<1>6. new = QueuedAs(s, q)
  BY DEF QueuedAs
<1> HIDE DEF u, h, c, r
<1>7. SameBut(new, seg, s) /\ new[s] = u
  BY <1>1, <1>5 DEF SameBut
<1> HIDE DEF new
<1>8. Rest(new, staged, s) = 0 /\ \A st \in Streams : staged[st] # s
  <2>1. \A st \in Streams : staged[st] # s
    BY <1>2, <1>3, RestType DEF r
  <2> QED
    BY <2>1 DEF Rest
<1>9. SegOK(new[s], h, c, 0)
  BY <1>2, <1>3, <1>5, <1>7 DEF SegOK
<1>10. \A x \in H : x[1] = s => x[2] < new[s].nr3
  BY <1>5, <1>7 DEF SegInv
<1>11. OneChanges(seg, staged, H, C, s, new, staged, H, C)
  BY <1>1, <1>7, <1>8, <1>9, <1>10 DEF OneChanges, h, c
<1>12. SegInv(new, staged, H, C)
  BY <1>11, SegChange
<1>13. \A x \in Segs : new[x].nr3 = seg[x].nr3
  BY <1>5, <1>7 DEF SameBut
<1> QED
  BY <1>5, <1>6, <1>7, <1>12, <1>13

\* A stream takes a free segment.
LEMMA SegTake ==
  ASSUME NEW H, NEW C, SegInv(seg, staged, H, C), NEW st \in Streams, NEW s \in Segs, TakeSegment(st, s)
  PROVE  /\ SegInv(seg', staged', H, C)
         /\ SameBut(seg', seg, s) /\ seg[s].state = "free" /\ seg'[s].nr3 = 0
         /\ InSeg(H, s) = {}
<1> DEFINE h == Cardinality(InSeg(H, s))
           c == Cardinality(InSeg(C, s))
           r == Rest(seg, staged, s)
           u == [state |-> "taken", ts |-> seg[s].ts, nr3 |-> 0, nr4 |-> SegSize, valid |-> SegSize]
<1>1. seg \in [Segs -> SegRec] /\ seg[s] \in SegRec /\ H \subseteq Grains /\ C \subseteq Grains
      /\ staged \in [Streams -> Segs \cup {NoSeg}]
  BY DEF SegInv
<1>2. h \in Nat /\ c \in Nat /\ r \in Nat /\ \A st2 \in Streams : staged[st2] = s => r > 0
  BY RestType
<1>3. seg[s].state = "free" /\ h = 0 /\ c = 0 /\ r = 0
  BY DEF SegInv, SegOK, TakeSegment
<1>4. SegSize \in Nat /\ SegSize > 0 /\ s # NoSeg
  BY SegmentsAssumption
<1>5. u \in SegRec
  <2>1. seg[s].ts \in Nat
    BY <1>1 DEF SegRec
  <2> QED
    BY <1>4, <2>1 DEF SegRec, SegStates
<1>6. seg' = [seg EXCEPT ![s] = u]
  BY DEF TakeSegment
<1>7. SameBut(seg', seg, s) /\ seg'[s] = u
  <2> HIDE DEF u
  <2> QED
    BY <1>1, <1>5, <1>6 DEF SameBut
<1>8. /\ staged' \in [Streams -> Segs \cup {NoSeg}] /\ staged'[st] = s /\ staged[st] = NoSeg
      /\ \A st2 \in Streams : st2 # st => staged'[st2] = staged[st2]
  BY <1>1 DEF TakeSegment
<1>9. \A st2 \in Streams : staged'[st2] = s => st2 = st
  BY <1>2, <1>3, <1>8
<1>10. Rest(seg', staged', s) = SegSize
  BY <1>4, <1>7, <1>8 DEF Rest
<1>11. SegOK(seg'[s], h, c, SegSize)
  BY <1>3, <1>4, <1>7 DEF SegOK
<1>12. InSeg(H, s) = {}
  BY <1>1, <1>3, CountZero DEF InSeg
<1>13. \A x \in H : x[1] # s
  BY <1>12 DEF InSeg
<1>14. OneChanges(seg, staged, H, C, s, seg', staged', H, C)
  BY <1>1, <1>4, <1>7, <1>8, <1>9, <1>10, <1>11, <1>13 DEF OneChanges
<1>15. SegInv(seg', staged', H, C)
  BY <1>14, SegChange
<1> QED
  BY <1>3, <1>7, <1>12, <1>15

\* The segment taken is stamped.
LEMMA SegStamp ==
  ASSUME NEW H, NEW C, SegInv(seg, staged, H, C), NEW st \in Streams, StampSegment(st),
         seg_alloc_nr \in Nat
  PROVE  /\ SegInv(seg', staged', H, C)
         /\ \A x \in Segs : seg'[x].nr3 = seg[x].nr3 /\ (seg[x].state = "reloc" => seg'[x].state = "reloc")
<1> DEFINE s == staged[st]
           h == Cardinality(InSeg(H, s))
           c == Cardinality(InSeg(C, s))
           r == Rest(seg, staged, s)
           u == [seg[s] EXCEPT !.state = "alloc", !.ts = seg_alloc_nr]
<1>1. seg \in [Segs -> SegRec] /\ H \subseteq Grains /\ C \subseteq Grains
      /\ staged \in [Streams -> Segs \cup {NoSeg}] /\ staged' = staged
  BY DEF SegInv, StampSegment
<1>2. s \in Segs /\ s # NoSeg /\ seg[s] \in SegRec /\ seg[s].state = "taken"
  BY <1>1, SegmentsAssumption DEF StampSegment
<1>3. h \in Nat /\ c \in Nat /\ r \in Nat
  BY <1>2, RestType
<1>4. h = 0 /\ c = 0 /\ seg[s].valid = r /\ seg[s].nr4 = r /\ r > 0
  BY <1>2 DEF SegInv, SegOK
<1>5. u \in SegRec /\ u.nr3 = seg[s].nr3 /\ u.nr4 = seg[s].nr4 /\ u.valid = seg[s].valid /\ u.state = "alloc"
  BY <1>2 DEF SegRec, SegStates
<1>6. seg' = [seg EXCEPT ![s] = u]
  BY DEF StampSegment
<1> HIDE DEF u, h, c, r
<1>7. SameBut(seg', seg, s) /\ seg'[s] = u
  BY <1>1, <1>2, <1>5, <1>6 DEF SameBut
<1>8. Rest(seg', staged, s) = r
  BY <1>5, <1>7 DEF Rest, r
<1>9. SegOK(seg'[s], h, c, r)
  BY <1>3, <1>4, <1>5, <1>7 DEF SegOK
<1>10. \A x \in H : x[1] = s => x[2] < seg'[s].nr3
  BY <1>5, <1>7 DEF SegInv
<1>11. \A st1 \in Streams : staged[st1] = s =>
         /\ seg'[s].state \in {"taken", "alloc"} /\ seg'[s].nr3 < SegSize
         /\ \A st2 \in Streams : staged[st2] = s => st2 = st1
  BY <1>2, <1>5, <1>7 DEF SegInv, Staging
<1>12. OneChanges(seg, staged, H, C, s, seg', staged, H, C)
  BY <1>1, <1>7, <1>8, <1>9, <1>10, <1>11 DEF OneChanges, h, c
<1>13. SegInv(seg', staged, H, C)
  BY <1>2, <1>12, SegChange
<1>14. \A x \in Segs : seg'[x].nr3 = seg[x].nr3 /\ (seg[x].state = "reloc" => seg'[x].state = "reloc")
  BY <1>2, <1>5, <1>7 DEF SameBut
<1> QED
  BY <1>1, <1>13, <1>14

-----------------------------------------------------------------------------
(* Changes of one slot of the table *)

\* Writing one slot keeps a good table if the new entry is at home there and
\* its grain is not named yet.
LEMMA TableSet ==
  ASSUME NEW t, NEW r, GoodTable(t, r), NEW s \in Slots, NEW e \in HashEntry,
         Used(e) => AtHome(e, s, r[e.pba].key) /\ e.pba \notin GrainsOf(t)
  PROVE  LET u == [t EXCEPT ![s] = e]
         IN /\ GoodTable(u, r)
            /\ GrainsOf(u) = (GrainsOf(t) \ {t[s].pba}) \cup (IF Used(e) THEN {e.pba} ELSE {})
<1> DEFINE u == [t EXCEPT ![s] = e]
<1>1. t \in [Slots -> HashEntry]
  BY DEF GoodTable, Tables
<1>2. u \in [Slots -> HashEntry] /\ u[s] = e /\ \A x \in Slots : x # s => u[x] = t[x]
  BY <1>1
<1> HIDE DEF u
<1>3. \A x \in Slots : Used(t[x]) => t[x].pba \in GrainsOf(t)
  BY DEF GrainsOf
<1>4. ASSUME NEW x \in Slots, Used(u[x]) PROVE AtHome(u[x], x, r[u[x].pba].key)
  <2>1. CASE x = s
    BY <1>2, <1>4, <2>1
  <2>2. CASE x # s
    BY <1>2, <1>4, <2>2 DEF GoodTable
  <2> QED
    BY <2>1, <2>2
<1>5. ASSUME NEW x \in Slots, NEW y \in Slots, Used(u[x]), u[x].pba = u[y].pba PROVE x = y
  <2>1. Used(u[y])
    BY <1>5 DEF Used
  <2>2. CASE x # s /\ y # s
    BY <1>2, <1>5, <2>2 DEF GoodTable
  <2>3. CASE x = s /\ y # s
    <3>1. t[y].pba \in GrainsOf(t) /\ u[x].pba = e.pba /\ u[y].pba = t[y].pba /\ Used(e)
      BY <1>2, <1>3, <1>5, <2>1, <2>3
    <3> QED
      BY <3>1, <1>5
  <2>4. CASE x # s /\ y = s
    <3>1. t[x].pba \in GrainsOf(t) /\ u[y].pba = e.pba /\ u[x].pba = t[x].pba /\ Used(e)
      BY <1>2, <1>3, <1>5, <2>1, <2>4
    <3> QED
      BY <3>1, <1>5
  <2> QED
    BY <2>2, <2>3, <2>4
<1>6. GoodTable(u, r)
  BY <1>2, <1>4, <1>5 DEF GoodTable, Tables
<1>7. GrainsOf(u) = (GrainsOf(t) \ {t[s].pba}) \cup (IF Used(e) THEN {e.pba} ELSE {})
  <2>1. ASSUME NEW g \in GrainsOf(u)
        PROVE  g \in (GrainsOf(t) \ {t[s].pba}) \cup (IF Used(e) THEN {e.pba} ELSE {})
    <3>1. PICK x \in Slots : Used(u[x]) /\ g = u[x].pba
      BY DEF GrainsOf
    <3>2. CASE x = s
      BY <1>2, <3>1, <3>2
    <3>3. CASE x # s
      <4>1. u[x] = t[x] /\ g \in GrainsOf(t)
        BY <1>2, <1>3, <3>1, <3>3
      <4>2. g # t[s].pba
        BY <3>1, <3>3, <4>1 DEF GoodTable
      <4> QED
        BY <4>1, <4>2
    <3> QED
      BY <3>2, <3>3
  <2>2. ASSUME NEW g \in GrainsOf(t), g # t[s].pba PROVE g \in GrainsOf(u)
    <3>1. PICK x \in Slots : Used(t[x]) /\ g = t[x].pba
      BY DEF GrainsOf
    <3>2. x # s /\ u[x] = t[x]
      BY <1>2, <2>2, <3>1
    <3> QED
      BY <3>1, <3>2 DEF GrainsOf
  <2>3. Used(e) => e.pba \in GrainsOf(u)
    BY <1>2 DEF GrainsOf
  <2> QED
    BY <2>1, <2>2, <2>3
<1> QED
  BY <1>6, <1>7 DEF u

\* The fields of the entry a record of key k gets in slot s
LEMMA EntryFields ==
  ASSUME NEW k \in Keys, NEW s \in Bucket(Hash[k])
  PROVE  /\ s \in Slots
         /\ s - hash_to_hb(Hash[k]) \in 0 .. OffRange - 1
         /\ hash_to_keytag(Hash[k]) \in 0 .. TagsNr - 1
         /\ Min({1, MaxKvSize}) \in 1 .. MaxKvSize
<1>1. Hash[k] \in Nat /\ HomesNr \in Nat /\ HomesNr > 0 /\ BucketSize \in Nat /\ BucketSize > 0
      /\ TagsNr \in Nat /\ TagsNr > 0 /\ MaxKvSize \in Nat /\ MaxKvSize > 0
  BY KVAssumption, HopscotchAssumption
<1>2. s \in Slots /\ hash_to_hb(Hash[k]) \in Nat
  BY <1>1, Homes
<1>3. s - hash_to_hb(Hash[k]) \in 0 .. OffRange - 1
  BY <1>1, <1>2 DEF Bucket, OffRange
<1>4. hash_to_keytag(Hash[k]) \in 0 .. TagsNr - 1
  <2>1. Hash[k] \div HomesNr \in Nat
    BY <1>1
  <2> QED
    BY <1>1, <2>1 DEF hash_to_keytag
<1>5. Min({1, MaxKvSize}) \in 1 .. MaxKvSize
  <2>1. {1, MaxKvSize} \subseteq Nat /\ {1, MaxKvSize} # {}
    BY <1>1
  <2>2. Min({1, MaxKvSize}) \in {1, MaxKvSize}
    BY <2>1, MinOfNat
  <2> QED
    BY <1>1, <2>2
<1> QED
  BY <1>2, <1>3, <1>4, <1>5

\* The entry of a record of key k in slot s
EntryAt(s, k, g) == [bucket_offset |-> s - hash_to_hb(Hash[k]), key_tag |-> hash_to_keytag(Hash[k]),
                     kv_size |-> Min({1, MaxKvSize}), pba |-> g]

\* The entry a put makes is at home in every slot of its bucket.
LEMMA EntryAtHome ==
  ASSUME NEW k \in Keys, NEW s \in Bucket(Hash[k]), NEW g \in Grains
  PROVE  /\ EntryAt(s, k, g) \in HashEntry
         /\ AtHome(EntryAt(s, k, g), s, k) /\ Used(EntryAt(s, k, g)) /\ EntryAt(s, k, g).pba = g
<1>1. s - hash_to_hb(Hash[k]) \in 0 .. OffRange - 1 /\ hash_to_keytag(Hash[k]) \in 0 .. TagsNr - 1
      /\ Min({1, MaxKvSize}) \in 1 .. MaxKvSize
  BY EntryFields
<1>2. g \in Pbas /\ g # NoPba /\ MaxKvSize \in Nat
  BY KVAssumption, HopscotchAssumption
<1>3. Min({1, MaxKvSize}) \in 0 .. MaxKvSize /\ Min({1, MaxKvSize}) # 0
  BY <1>1, <1>2
<1> QED
  BY <1>1, <1>2, <1>3 DEF EntryAt, HashEntry, AtHome, Deleted, Used

\* insert() into a free slot of the bucket adds the grain.
LEMMA TableInsert ==
  ASSUME NEW t, NEW r, GoodTable(t, r), NEW k \in Keys, NEW s \in Bucket(Hash[k]), ~Used(t[s]),
         NEW g \in Grains, g \notin GrainsOf(t), r[g].key = k
  PROVE  /\ GoodTable(insert(t, s, Hash[k], 1, g), r)
         /\ GrainsOf(insert(t, s, Hash[k], 1, g)) = GrainsOf(t) \cup {g}
<1> DEFINE e == EntryAt(s, k, g)
<1>1. s \in Slots /\ insert(t, s, Hash[k], 1, g) = [t EXCEPT ![s] = e]
  BY EntryFields DEF insert, EntryAt
<1>2. e \in HashEntry /\ AtHome(e, s, k) /\ Used(e) /\ e.pba = g
  BY EntryAtHome
<1> HIDE DEF e
<1>3. /\ GoodTable([t EXCEPT ![s] = e], r)
      /\ GrainsOf([t EXCEPT ![s] = e]) = (GrainsOf(t) \ {t[s].pba}) \cup {g}
  BY <1>1, <1>2, TableSet
<1>4. t[s].pba \notin GrainsOf(t)
  BY <1>1 DEF GrainsOf, Used
<1> QED
  BY <1>1, <1>3, <1>4

\* update_inplace() replaces the grain of an entry by another one of its key.
LEMMA TableUpdate ==
  ASSUME NEW t, NEW r, GoodTable(t, r), NEW s \in Slots, Used(t[s]), NEW k, r[t[s].pba].key = k,
         NEW g \in Grains, g \notin GrainsOf(t), r[g].key = k
  PROVE  /\ GoodTable(update_inplace(t, s, Hash[k], 1, g), r)
         /\ GrainsOf(update_inplace(t, s, Hash[k], 1, g)) = (GrainsOf(t) \ {t[s].pba}) \cup {g}
<1> DEFINE tag == hash_to_keytag(Hash[k])
           size == Min({1, MaxKvSize})
           e == [t[s] EXCEPT !.key_tag = tag, !.kv_size = size, !.pba = g]
<1>1. k \in Keys /\ s \in Bucket(Hash[k]) /\ t[s].bucket_offset = s - hash_to_hb(Hash[k])
  BY DEF GoodTable, AtHome
<1>2. t[s] \in HashEntry
  BY DEF GoodTable, Tables
<1>3. update_inplace(t, s, Hash[k], 1, g) = [t EXCEPT ![s] = e]
  BY DEF update_inplace
<1>4. e \in HashEntry /\ AtHome(e, s, k) /\ Used(e) /\ e.pba = g
  <2>1. tag \in 0 .. TagsNr - 1 /\ size \in 1 .. MaxKvSize
    BY <1>1, EntryFields
  <2>2. g \in Pbas /\ g # NoPba /\ MaxKvSize \in Nat
    BY KVAssumption, HopscotchAssumption
  <2>3. size \in 0 .. MaxKvSize /\ size # 0
    BY <2>1, <2>2
  <2> HIDE DEF tag, size
  <2>4. /\ e \in HashEntry /\ e.bucket_offset = t[s].bucket_offset
        /\ e.key_tag = tag /\ e.kv_size = size /\ e.pba = g
    BY <1>2, <2>1, <2>2, <2>3 DEF HashEntry
  <2> HIDE DEF e
  <2> QED
    BY <1>1, <2>2, <2>3, <2>4 DEF AtHome, Deleted, Used, tag
<1> HIDE DEF e
<1>5. /\ GoodTable([t EXCEPT ![s] = e], r)
      /\ GrainsOf([t EXCEPT ![s] = e]) = (GrainsOf(t) \ {t[s].pba}) \cup {g}
  <2>1. AtHome(e, s, r[e.pba].key) /\ e.pba \notin GrainsOf(t) /\ e \in HashEntry /\ Used(e)
    BY <1>4
  <2>2. (IF Used(e) THEN {e.pba} ELSE {}) = {g}
    BY <1>4
  <2> QED
    BY <2>1, <2>2, TableSet
<1> QED
  BY <1>3, <1>5

\* remove() and purge() of an entry, as an eviction does, drop its grain.
LEMMA TablePurge ==
  ASSUME NEW t, NEW r, GoodTable(t, r), NEW s \in Slots, Used(t[s]), NEW g
  PROVE  /\ GoodTable(purge(remove(t, s, g), s), r)
         /\ GrainsOf(purge(remove(t, s, g), s)) = GrainsOf(t) \ {t[s].pba}
<1>1. Unused \in HashEntry /\ ~Used(Unused)
  BY HopscotchAssumption DEF Unused, HashEntry, Used, OffRange
<1>2. purge(remove(t, s, g), s) = [t EXCEPT ![s] = Unused]
  <2>1. t \in [Slots -> HashEntry]
    BY DEF GoodTable, Tables
  <2> QED
    BY <2>1 DEF purge, remove
<1>3. /\ GoodTable([t EXCEPT ![s] = Unused], r)
      /\ GrainsOf([t EXCEPT ![s] = Unused]) = (GrainsOf(t) \ {t[s].pba}) \cup {}
  BY <1>1, TableSet
<1> QED
  BY <1>2, <1>3

\* A record is written where no entry leads.
LEMMA TableWrite ==
  ASSUME NEW t, NEW r, GoodTable(t, r), NEW r2, \A g \in GrainsOf(t) : r2[g] = r[g]
  PROVE  GoodTable(t, r2)
<1>1. \A s \in Slots : Used(t[s]) => r2[t[s].pba] = r[t[s].pba]
  BY DEF GrainsOf
<1> QED
  BY <1>1 DEF GoodTable

-----------------------------------------------------------------------------
(* The inductive invariant *)

Pcs == {"idle", "lock", "read", "recheck", "drain", "write", "done", "assert_visited"}
LogRec == [key : Keys \cup {NoKey}, ts : Nat]
Call == [op : PutOps \cup GetOps \cup {"IDLE"}, pc : Pcs, key : Keys \cup {NoKey},
         grain : Grains \cup {NoPbaYet}, slot : Slots \cup {NoSlot}, cpy : HashEntry,
         md : LogRec, visited : SUBSET (Grains \cup {NoPba}), seen : SUBSET (Grains \cup {NoPba}),
         res : Grains \cup {NoPba, "ENOSPC"}]

\* The record at g has been written, for key k, since its segment was taken.
WrittenAt(g, k, r, sg) == g \in Grains /\ g[2] < sg[g[1]].nr3 /\ r[g].key = k

\* A call x: a put holds a grain with its record unless it writes a new one;
\* what a lookup remembers has not been written over.
CallOK(x, r, sg) ==
  /\ x \in Call
  /\ x.op = "IDLE" => x.pc = "idle"
  /\ x.op \in PutOps => x.pc \notin {"idle", "done"}
  /\ x.op \in GetOps => x.pc \in {"lock", "read", "done", "assert_visited"}
  /\ x.grain # NoPbaYet <=> x.op \in PutOps /\ x.pc # "write"
  /\ x.op # "IDLE" /\ x.pc # "done" => x.key \in Keys
  /\ x.grain # NoPbaYet => WrittenAt(x.grain, x.key, r, sg)
  /\ x.pc \in {"read", "recheck"} =>
       x.slot \in Slots /\ x.cpy.pba \in Grains /\ x.cpy.pba[2] < sg[x.cpy.pba[1]].nr3
  /\ x.pc = "recheck" /\ x.md.key = x.key => r[x.cpy.pba].key = x.key

\* The grains of the puts under way
GrainsHeld(C) == {C[c].grain : c \in {x \in Clients : C[x].grain # NoPbaYet}}

\* No two puts hold one grain, and none a grain that an entry names.
Apart(t, C) ==
  /\ \A c, d \in Clients : C[c].grain # NoPbaYet /\ C[c].grain = C[d].grain => c = d
  /\ GrainsOf(t) \cap GrainsHeld(C) = {}

\* A grain that was handed out holds a record.
Written(r, sg) ==
  /\ r \in [Grains -> LogRec]
  /\ \A g \in Grains : r[g] = NoRec \/ r[g].key \in Keys
  /\ \A g \in Grains : g[2] < sg[g[1]].nr3 => r[g].key \in Keys

\* What the collector has passed no entry names.
Collecting(x, sg, T) ==
  /\ x \in [seg : Segs, off : 0 .. SegSize] \cup {NoGc}
  /\ x # NoGc => /\ sg[x.seg].state = "reloc"
                 /\ \A g \in T : g[1] = x.seg => g[2] >= x.off

KInv ==
  /\ GoodTable(table, rec)
  /\ Apart(table, cl)
  /\ Written(rec, seg)
  /\ SegInv(seg, staged, GrainsOf(table) \cup GrainsHeld(cl), GrainsHeld(cl))
  /\ Collecting(gc, seg, GrainsOf(table))
  /\ cl \in [Clients -> Call]
  /\ \A c \in Clients : CallOK(cl[c], rec, seg)
  /\ cur \in [Keys -> Grains \cup {NoPba}]
  /\ seg_alloc_nr \in Nat

\* Records that calls depend on stay
KeepsLog(r, sg, r2, sg2) ==
  \A g \in Grains : g[2] < sg[g[1]].nr3 => g[2] < sg2[g[1]].nr3 /\ r2[g] = r[g]

\* What a step leaves alone of a call
SameCall(x, y) ==
  /\ y \in Call
  /\ y.op = x.op /\ y.pc = x.pc /\ y.key = x.key /\ y.grain = x.grain /\ y.slot = x.slot
  /\ y.cpy = x.cpy /\ y.md = x.md

\* What an operation relies on survives steps of others that keep the log.
LEMMA CallKept ==
  ASSUME NEW x, NEW y, NEW r, NEW sg, CallOK(x, r, sg), NEW r2, NEW sg2, KeepsLog(r, sg, r2, sg2),
         SameCall(x, y)
  PROVE  CallOK(y, r2, sg2)
<1>1. y \in Call
  BY DEF SameCall
<1>2. y.grain # NoPbaYet => WrittenAt(y.grain, y.key, r2, sg2)
  BY DEF SameCall, CallOK, WrittenAt, KeepsLog
<1>3. y.pc \in {"read", "recheck"} =>
        y.slot \in Slots /\ y.cpy.pba \in Grains /\ y.cpy.pba[2] < sg2[y.cpy.pba[1]].nr3
  BY DEF SameCall, CallOK, KeepsLog
<1>4. y.pc = "recheck" /\ y.md.key = y.key => r2[y.cpy.pba].key = y.key
  <2> SUFFICES ASSUME y.pc = "recheck", y.md.key = y.key PROVE r2[y.cpy.pba].key = y.key
    OBVIOUS
  <2>1. x.cpy.pba \in Grains /\ x.cpy.pba[2] < sg[x.cpy.pba[1]].nr3 /\ r[x.cpy.pba].key = x.key
    BY DEF SameCall, CallOK
  <2>2. r2[x.cpy.pba] = r[x.cpy.pba]
    BY <2>1 DEF KeepsLog
  <2> QED
    BY <2>1, <2>2 DEF SameCall
<1> QED
  BY <1>1, <1>2, <1>3, <1>4 DEF CallOK, SameCall

\* An operation nobody touched relies on the same as before.
LEMMA SameCallRefl ==
  ASSUME NEW x \in Call
  PROVE  SameCall(x, x)
BY DEF SameCall

\* Unchanged segments, or ones that only change state and counts, keep the log.
LEMMA FrameKeeps ==
  ASSUME NEW r, NEW sg, NEW sg2, \A s \in Segs : sg2[s].nr3 = sg[s].nr3
  PROVE  KeepsLog(r, sg, r, sg2)
<1>1. \A g \in Grains : g[1] \in Segs
  BY GrainParts
<1> QED
  BY <1>1 DEF KeepsLog

\* What is written stays written while the grains handed out are the same.
LEMMA FrameWritten ==
  ASSUME NEW r, NEW sg, NEW sg2, \A s \in Segs : sg2[s].nr3 = sg[s].nr3, Written(r, sg)
  PROVE  Written(r, sg2)
<1>1. \A g \in Grains : g[1] \in Segs
  BY GrainParts
<1> QED
  BY <1>1 DEF Written

\* The grains of puts as their calls change
LEMMA HeldSame ==
  ASSUME NEW C, NEW D, \A c \in Clients : D[c].grain = C[c].grain, NEW t, Apart(t, C)
  PROVE  GrainsHeld(D) = GrainsHeld(C) /\ Apart(t, D)
<1>1. GrainsHeld(D) = GrainsHeld(C)
  BY DEF GrainsHeld
<1> QED
  BY <1>1 DEF Apart

\* A put that gets a grain nobody has holds it alone.
LEMMA HeldMore ==
  ASSUME NEW C, NEW D, NEW c \in Clients, NEW g, g # NoPbaYet, C[c].grain = NoPbaYet, D[c].grain = g,
         \A d \in Clients : d # c => D[d].grain = C[d].grain,
         NEW t, Apart(t, C), g \notin GrainsOf(t) \cup GrainsHeld(C)
  PROVE  GrainsHeld(D) = GrainsHeld(C) \cup {g} /\ Apart(t, D)
<1>1. GrainsHeld(D) = GrainsHeld(C) \cup {g}
  <2>1. ASSUME NEW x \in GrainsHeld(D) PROVE x \in GrainsHeld(C) \cup {g}
    BY DEF GrainsHeld
  <2>2. ASSUME NEW x \in GrainsHeld(C) PROVE x \in GrainsHeld(D)
    <3>1. PICK d \in Clients : C[d].grain # NoPbaYet /\ x = C[d].grain
      BY DEF GrainsHeld
    <3>2. d # c /\ D[d].grain = x
      BY <3>1
    <3> QED
      BY <3>1, <3>2 DEF GrainsHeld
  <2>3. g \in GrainsHeld(D)
    BY DEF GrainsHeld
  <2> QED
    BY <2>1, <2>2, <2>3
<1>2. ASSUME NEW a \in Clients, NEW b \in Clients, D[a].grain # NoPbaYet, D[a].grain = D[b].grain
      PROVE  a = b
  <2>1. \A d \in Clients : d # c /\ D[d].grain # NoPbaYet => D[d].grain \in GrainsHeld(C)
    BY DEF GrainsHeld
  <2>2. CASE a # c /\ b # c
    BY <1>2, <2>2 DEF Apart
  <2>3. CASE a = c /\ b # c
    BY <1>2, <2>1, <2>3
  <2>4. CASE a # c /\ b = c
    BY <1>2, <2>1, <2>4
  <2> QED
    BY <2>2, <2>3, <2>4
<1> QED
  BY <1>1, <1>2 DEF Apart

\* A put that gives its grain up leaves the others theirs.
LEMMA HeldLess ==
  ASSUME NEW C, NEW D, NEW c \in Clients, NEW g, C[c].grain = g, g # NoPbaYet, D[c].grain = NoPbaYet,
         \A d \in Clients : d # c => D[d].grain = C[d].grain, NEW t, Apart(t, C)
  PROVE  GrainsHeld(D) = GrainsHeld(C) \ {g} /\ g \in GrainsHeld(C) /\ Apart(t, D)
<1>1. GrainsHeld(D) = GrainsHeld(C) \ {g}
  <2>1. ASSUME NEW x \in GrainsHeld(D) PROVE x \in GrainsHeld(C) \ {g}
    <3>1. PICK d \in Clients : D[d].grain # NoPbaYet /\ x = D[d].grain
      BY DEF GrainsHeld
    <3>2. d # c /\ C[d].grain = x
      BY <3>1
    <3>3. x # g
      BY <3>1, <3>2 DEF Apart
    <3> QED
      BY <3>1, <3>2, <3>3 DEF GrainsHeld
  <2>2. ASSUME NEW x \in GrainsHeld(C) \ {g} PROVE x \in GrainsHeld(D)
    BY DEF GrainsHeld
  <2> QED
    BY <2>1, <2>2
<1>2. g \in GrainsHeld(C)
  BY DEF GrainsHeld
<1>3. \A a, b \in Clients : D[a].grain # NoPbaYet /\ D[a].grain = D[b].grain => a = b
  BY DEF Apart
<1> QED
  BY <1>1, <1>2, <1>3 DEF Apart

-----------------------------------------------------------------------------
(* Steps of the clients *)

\* What only changes the call of one client
LEMMA ClientStep ==
  ASSUME KInv, NEW c \in Clients, NEW x, x.grain = cl[c].grain, CallOK(x, rec, seg),
         cl' = [cl EXCEPT ![c] = x], UNCHANGED <<table, rec, gc, cur, segVars>>
  PROVE  KInv'
<1>1. cl \in [Clients -> Call] /\ x \in Call
  BY DEF KInv, CallOK
<1>2. cl' \in [Clients -> Call] /\ cl'[c] = x /\ \A d \in Clients : d # c => cl'[d] = cl[d]
  BY <1>1
<1>3. \A d \in Clients : cl'[d].grain = cl[d].grain
  BY <1>2
<1>4. Apart(table, cl)
  BY DEF KInv
<1>5. GrainsHeld(cl') = GrainsHeld(cl) /\ Apart(table, cl')
  BY <1>3, <1>4, HeldSame
<1>6. \A d \in Clients : CallOK(cl'[d], rec, seg)
  BY <1>2 DEF KInv
<1> QED
  BY <1>2, <1>5, <1>6 DEF KInv, segVars

\* Facts that the kinds of operations and places rest on
LEMMA Ops ==
  /\ PutOps \cap GetOps = {} /\ "IDLE" \notin PutOps \cup GetOps /\ "DEL" \notin PutOps \cup GetOps
  /\ NoPbaYet \notin Grains /\ NoPba \notin Grains /\ NoKey \notin Keys
<1>1. PutOps \cap GetOps = {} /\ "IDLE" \notin PutOps \cup GetOps /\ "DEL" \notin PutOps \cup GetOps
  BY KVAssumption DEF GetOps
<1>2. NoPbaYet \notin Grains
  BY SegmentsAssumption DEF NoPbaYet, Grains
<1> QED
  BY <1>1, <1>2, KVAssumption, HopscotchAssumption

\* A client without an operation relies on nothing.
LEMMA IdleCall ==
  /\ Idle \in Call
  /\ \A r, sg : CallOK(Idle, r, sg)
<1>1. Unused \in HashEntry
  BY HopscotchAssumption DEF Unused, HashEntry, OffRange
<1>2. NoRec \in LogRec
  BY DEF NoRec, LogRec
<1>3. Idle \in Call
  BY <1>1, <1>2 DEF Idle, Call, Pcs
<1>4. Idle.op = "IDLE" /\ Idle.pc = "idle" /\ Idle.grain = NoPbaYet
  BY DEF Idle
<1> HIDE DEF Idle
<1> QED
  BY <1>3, <1>4, Ops DEF CallOK

\* A slot is not the value that stands for none.
LEMMA SlotType == ASSUME NEW s \in Slots PROVE s # NoSlot
BY DEF Slots, NoSlot

\* A lookup goes on to read the record of an entry.
LEMMA ReadEntryStep ==
  ASSUME KInv, NEW c \in Clients, cl[c].op \in PutOps \cup GetOps, cl[c].pc \in {"lock", "recheck"},
         NEW s \in Slots, Used(table[s]), NEW visited \in SUBSET (Grains \cup {NoPba}),
         ReadEntry(c, s, visited), UNCHANGED <<table, rec, gc, cur, segVars>>
  PROVE  KInv'
<1> DEFINE x == [cl[c] EXCEPT !.pc = "read", !.slot = s, !.cpy = table[s], !.visited = visited]
<1>1. cl[c] \in Call /\ CallOK(cl[c], rec, seg) /\ table[s] \in HashEntry
  BY DEF KInv, GoodTable, Tables
<1>2. cl' = [cl EXCEPT ![c] = x]
  BY DEF ReadEntry
<1>3. x \in Call
  BY <1>1 DEF Call, Pcs
<1>4. /\ x.op = cl[c].op /\ x.pc = "read" /\ x.key = cl[c].key /\ x.grain = cl[c].grain
      /\ x.slot = s /\ x.cpy = table[s]
  BY <1>1 DEF Call
<1> HIDE DEF x
<1>5. table[s].pba \in Grains /\ table[s].pba[2] < seg[table[s].pba[1]].nr3
  <2>1. table[s].pba \in GrainsOf(table) \cup GrainsHeld(cl)
    BY DEF GrainsOf
  <2> QED
    BY <2>1 DEF KInv, SegInv
<1>6. CallOK(x, rec, seg)
  BY <1>1, <1>3, <1>4, <1>5, Ops DEF CallOK
<1> QED
  BY <1>2, <1>4, <1>6, ClientStep

\* A call stops where its list of visited grains is full.
LEMMA OverflowStep ==
  ASSUME KInv, NEW c \in Clients, cl[c].op \in PutOps \cup GetOps, cl[c].pc \in {"lock", "recheck"},
         Goto(c, "assert_visited"), UNCHANGED <<table, rec, gc, cur, segVars>>
  PROVE  KInv'
<1> DEFINE x == [cl[c] EXCEPT !.pc = "assert_visited"]
<1>1. cl[c] \in Call /\ CallOK(cl[c], rec, seg)
  BY DEF KInv
<1>2. cl' = [cl EXCEPT ![c] = x]
  BY DEF Goto
<1>3. x \in Call
  BY <1>1 DEF Call, Pcs
<1>4. x.op = cl[c].op /\ x.pc = "assert_visited" /\ x.key = cl[c].key /\ x.grain = cl[c].grain
  BY <1>1 DEF Call
<1> HIDE DEF x
<1>6. CallOK(x, rec, seg)
  BY <1>1, <1>3, <1>4, Ops DEF CallOK
<1> QED
  BY <1>2, <1>4, <1>6, ClientStep

\* The read of a header without the lock changes the reading operation alone.
LEMMA HeaderReadStep ==
  ASSUME KInv, NEW c \in Clients, HeaderRead(c)
  PROVE  KInv'
<1> DEFINE r == rec[cl[c].cpy.pba]
           m == IF IsKey(c, r) THEN r ELSE NoRec
           x == [cl[c] EXCEPT !.pc = "recheck", !.md = m]
<1>1. cl[c] \in Call /\ CallOK(cl[c], rec, seg) /\ cl[c].pc = "read"
  BY DEF KInv, HeaderRead
<1>2. cl[c].op \in PutOps
  BY <1>1, Ops DEF Call, HeaderRead
<1>3. cl' = [cl EXCEPT ![c] = x] /\ UNCHANGED <<table, rec, gc, cur, segVars>>
  BY DEF HeaderRead
<1>4. m \in LogRec /\ (m.key = cl[c].key => rec[cl[c].cpy.pba].key = cl[c].key)
  <2>1. r \in LogRec /\ cl[c].key \in Keys
    BY <1>1, <1>2, Ops DEF CallOK, KInv, Written
  <2>2. NoRec \in LogRec /\ NoRec.key = NoKey
    BY DEF NoRec, LogRec
  <2> QED
    BY <2>1, <2>2, Ops DEF IsKey
<1> HIDE DEF m
<1>5. x \in Call
  BY <1>1, <1>4 DEF Call, Pcs
<1>6. /\ x.op = cl[c].op /\ x.pc = "recheck" /\ x.key = cl[c].key /\ x.grain = cl[c].grain
      /\ x.slot = cl[c].slot /\ x.cpy = cl[c].cpy /\ x.md = m
  BY <1>1 DEF Call
<1> HIDE DEF x
<1>7. CallOK(x, rec, seg)
  BY <1>1, <1>2, <1>4, <1>5, <1>6, Ops DEF CallOK
<1> QED
  BY <1>3, <1>6, <1>7, ClientStep

\* A get or exists that begins holds no grain.
LEMMA ReadStartStep ==
  ASSUME KInv, NEW c \in Clients, NEW k \in GetKeys, NEW op \in GetOps, ReadStart(c, k, op)
  PROVE  KInv'
<1> DEFINE x == [Idle EXCEPT !.op = op, !.pc = "lock", !.key = k, !.seen = {cur[k]}]
<1>1. CallOK(cl[c], rec, seg) /\ cl[c].op = "IDLE" /\ cl[c].grain = NoPbaYet
  BY Ops DEF KInv, ReadStart, CallOK
<1>2. cl' = [cl EXCEPT ![c] = x] /\ UNCHANGED <<table, rec, gc, cur, segVars>>
  BY DEF ReadStart
<1>3. k \in Keys /\ cur[k] \in Grains \cup {NoPba}
  BY KVAssumption DEF KInv
<1>4. Idle \in Call /\ Idle.grain = NoPbaYet
  BY IdleCall DEF Idle
<1>5. x \in Call
  BY <1>3, <1>4 DEF Call, Pcs
<1>6. x.op = op /\ x.pc = "lock" /\ x.key = k /\ x.grain = NoPbaYet
  BY <1>4 DEF Call
<1> HIDE DEF x
<1>7. CallOK(x, rec, seg)
  BY <1>3, <1>5, <1>6, Ops DEF CallOK
<1> QED
  BY <1>1, <1>2, <1>6, <1>7, ClientStep

\* A get or exists that returns leaves table and segments alone.
LEMMA GetResultStep ==
  ASSUME KInv, NEW c \in Clients, cl[c].op \in GetOps, NEW res \in Grains \cup {NoPba, "ENOSPC"},
         GetResult(c, res), UNCHANGED <<table, rec, gc, cur, segVars>>
  PROVE  KInv'
<1> DEFINE x == [Idle EXCEPT !.op = cl[c].op, !.pc = "done", !.seen = cl[c].seen, !.res = res]
<1>1. CallOK(cl[c], rec, seg) /\ cl[c].grain = NoPbaYet /\ cl[c] \in Call
  BY Ops DEF KInv, CallOK
<1>2. cl' = [cl EXCEPT ![c] = x]
  BY DEF GetResult
<1>3. Idle \in Call /\ Idle.grain = NoPbaYet
  BY IdleCall DEF Idle
<1>4. cl[c].seen \in SUBSET (Grains \cup {NoPba})
  BY <1>1 DEF Call
<1>5. x \in Call
  <2>1. cl[c].op \in PutOps \cup GetOps \cup {"IDLE"} /\ "done" \in Pcs
    BY DEF Pcs
  <2> DEFINE op == cl[c].op
             sn == cl[c].seen
  <2>2. op \in PutOps \cup GetOps \cup {"IDLE"} /\ sn \in SUBSET (Grains \cup {NoPba})
    BY <1>4, <2>1
  <2> HIDE DEF op, sn
  <2> DEFINE x1 == [Idle EXCEPT !.op = op, !.pc = "done"]
             x2 == [x1 EXCEPT !.seen = sn]
             x3 == [x2 EXCEPT !.res = res]
  <2>3. x1 \in Call
    BY <1>3, <2>1, <2>2 DEF Call
  <2> HIDE DEF x1
  <2>4. x2 \in Call
    BY <2>2, <2>3 DEF Call
  <2> HIDE DEF x2
  <2>5. x3 \in Call
    BY <2>4 DEF Call
  <2> QED
    BY <2>5 DEF op, sn, x1, x2, x3
<1>6. x.op = cl[c].op /\ x.pc = "done" /\ x.grain = NoPbaYet
  BY <1>3 DEF Call
<1> HIDE DEF x
<1>7. CallOK(x, rec, seg)
  BY <1>5, <1>6, Ops DEF CallOK
<1> QED
  BY <1>1, <1>2, <1>6, <1>7, ClientStep

\* A get whose record was of another key looks further.
LEMMA NextRoundStep ==
  ASSUME KInv, NEW c \in Clients, cl[c].op \in GetOps, cl[c].pc = "read", NextRound(c),
         UNCHANGED <<table, rec, gc, cur, segVars>>
  PROVE  KInv'
<1> DEFINE v == cl[c].visited \cup {cl[c].cpy.pba}
           x == [cl[c] EXCEPT !.pc = "lock", !.visited = v, !.slot = NoSlot, !.cpy = Unused]
<1>1. CallOK(cl[c], rec, seg) /\ cl[c] \in Call /\ Unused \in HashEntry
  <2>1. Idle \in Call /\ Idle.cpy = Unused
    BY IdleCall DEF Idle
  <2> QED
    BY <2>1 DEF KInv, Call
<1>2. cl' = [cl EXCEPT ![c] = x]
  BY DEF NextRound
<1>3. v \in SUBSET (Grains \cup {NoPba})
  BY <1>1, KVAssumption DEF Call, HashEntry
<1> HIDE DEF v
<1>4. x \in Call
  BY <1>1, <1>3 DEF Call, Pcs
<1>5. x.op = cl[c].op /\ x.pc = "lock" /\ x.grain = cl[c].grain /\ x.key = cl[c].key
  BY <1>1 DEF Call
<1> HIDE DEF x
<1>6. CallOK(x, rec, seg)
  BY <1>1, <1>4, <1>5, Ops DEF CallOK
<1> QED
  BY <1>2, <1>5, <1>6, ClientStep

\* A round of a lookup copies an entry of the table, or ends.
LEMMA LookupRoundStep ==
  ASSUME KInv, NEW c \in Clients, cl[c].op \in GetOps, cl[c].pc = "lock", LookupRound(c),
         UNCHANGED <<table, rec, gc, cur, segVars>>
  PROVE  KInv'
<1> DEFINE r == lookup_common(cl[c].key, cl[c].visited)
<1>1. cl[c].key \in Keys /\ cl[c].visited \in SUBSET (Grains \cup {NoPba}) /\ GoodTable(table, rec)
  BY Ops DEF KInv, CallOK, Call
<1>2. CASE r[1] = "0" /\ r[2] # NoSlot /\ ReadEntry(c, r[2], cl[c].visited)
  <2>1. r = <<"0", r[2]>>
    BY <1>2 DEF lookup_common, lookup
  <2> HIDE DEF r
  <2>2. r[2] \in Slots /\ Used(table[r[2]])
    BY <1>1, <1>2, <2>1, ReadSlot DEF r
  <2> QED
    BY <1>1, <1>2, <2>2, ReadEntryStep
<1>3. CASE GetResult(c, NoPba)
  BY <1>3, GetResultStep
<1>4. CASE GetResult(c, "ENOSPC")
  BY <1>4, GetResultStep
<1>5. CASE Goto(c, "assert_visited")
  BY <1>5, OverflowStep
<1> QED
  BY <1>2, <1>3, <1>4, <1>5 DEF LookupRound

\* Every step of a get or exists keeps the invariant.
LEMMA GetSteps ==
  ASSUME KInv, NEW c \in Clients, GetStep(c)
  PROVE  KInv'
<1>1. CASE \E k \in GetKeys : GetStart(c, k) \/ ExistsStart(c, k)
  BY <1>1, ReadStartStep DEF GetStart, ExistsStart, GetOps
<1>2. CASE GetLookup(c) \/ ExistsLookup(c)
  BY <1>2, LookupRoundStep DEF GetLookup, ExistsLookup, GetOps
<1>3. CASE GetRead(c) \/ ExistsRead(c)
  <2>1. cl[c].op \in GetOps /\ cl[c].pc = "read" /\ UNCHANGED <<table, rec, gc, cur, segVars>>
    BY <1>3 DEF GetRead, ExistsRead, GetOps
  <2>2. CASE GetResult(c, cl[c].cpy.pba)
    <3>1. cl[c].cpy.pba \in Grains
      BY <2>1 DEF KInv, CallOK
    <3> QED
      BY <2>1, <2>2, <3>1, GetResultStep
  <2>3. CASE NextRound(c)
    BY <2>1, <2>3, NextRoundStep
  <2> QED
    BY <1>3, <2>2, <2>3 DEF GetRead, ExistsRead
<1>4. CASE GetReturn(c)
  <2>1. cl' = [cl EXCEPT ![c] = Idle] /\ UNCHANGED <<table, rec, gc, cur, segVars>> /\ cl[c].pc = "done"
    BY <1>4 DEF GetReturn, Done
  <2>2. cl[c].grain = NoPbaYet
    BY <2>1 DEF KInv, CallOK
  <2>3. CallOK(Idle, rec, seg) /\ Idle.grain = NoPbaYet
    BY IdleCall DEF Idle
  <2> HIDE DEF Idle
  <2> QED
    BY <2>1, <2>2, <2>3, ClientStep
<1> QED
  BY <1>1, <1>2, <1>3, <1>4 DEF GetStep

-----------------------------------------------------------------------------
(* Puts *)

\* A put writes to a stream that exists.
LEMMA StreamOf ==
  ASSUME NEW k \in Keys
  PROVE  salsa_stream_get_id(k) \in Streams
BY KVAssumption, SegmentsAssumption DEF salsa_stream_get_id, Streams

\* A grain is handed out and record v written to it: the log keeps the rest.
LEMMA LogWrite ==
  ASSUME KInv, NEW st \in Streams, CanAllocate(st), NEW v \in LogRec, v.key \in Keys
  PROVE  LET g == NextGrain(st)
             r == [rec EXCEPT ![g] = v]
             sg == Allocated(seg, g)
         IN /\ KeepsLog(rec, seg, r, sg)
            /\ Written(r, sg)
            /\ GoodTable(table, r)
            /\ WrittenAt(g, v.key, r, sg)
            /\ SegInv(sg, StagedAfter(st), GrainsOf(table) \cup GrainsHeld(cl) \cup {g}, GrainsHeld(cl) \cup {g})
            /\ g \notin GrainsOf(table) \cup GrainsHeld(cl) /\ g \in Grains
            /\ Collecting(gc, sg, GrainsOf(table))
            /\ \A x \in Segs : sg[x].state = seg[x].state
            /\ seg[g[1]].state = "alloc"
<1> DEFINE H == GrainsOf(table) \cup GrainsHeld(cl)
           g == NextGrain(st)
           r == [rec EXCEPT ![g] = v]
           sg == Allocated(seg, g)
<1>1. SegInv(seg, staged, H, GrainsHeld(cl)) /\ GrainsHeld(cl) \subseteq H
  BY DEF KInv
<1>2. /\ SegInv(sg, StagedAfter(st), H \cup {g}, GrainsHeld(cl) \cup {g})
      /\ g \in Grains /\ g \notin H /\ seg[g[1]].state = "alloc" /\ ~(g[2] < seg[g[1]].nr3)
      /\ \A x \in Segs : sg[x].state = seg[x].state
      /\ \A x \in Grains : x[2] < sg[x[1]].nr3 => x = g \/ x[2] < seg[x[1]].nr3
      /\ \A x \in Segs : seg[x].nr3 <= sg[x].nr3
  <2> HIDE DEF H, g
  <2>1. g = NextGrain(st)
    BY DEF g
  <2> QED
    BY <1>1, <2>1, SegAllocate
<1>3. Written(rec, seg) /\ GoodTable(table, rec) /\ Collecting(gc, seg, GrainsOf(table))
  BY DEF KInv
<1> HIDE DEF g, sg
<1>4. r \in [Grains -> LogRec] /\ r[g] = v /\ \A x \in Grains : x # g => r[x] = rec[x]
  BY <1>2, <1>3 DEF Written
<1> HIDE DEF r
<1>5. KeepsLog(rec, seg, r, sg)
  <2> SUFFICES ASSUME NEW x \in Grains, x[2] < seg[x[1]].nr3 PROVE x[2] < sg[x[1]].nr3 /\ r[x] = rec[x]
    BY DEF KeepsLog
  <2>1. x # g
    BY <1>2
  <2>2. x[1] \in Segs /\ x[2] \in Nat
    BY GrainParts
  <2>3. seg[x[1]].nr3 <= sg[x[1]].nr3 /\ seg[x[1]].nr3 \in Nat /\ sg[x[1]].nr3 \in Nat
    BY <1>1, <1>2, <2>2, SegmentsAssumption DEF SegInv, SegRec
  <2> QED
    BY <1>4, <2>1, <2>2, <2>3
<1>6. Written(r, sg)
  <2>1. \A x \in Grains : r[x] = NoRec \/ r[x].key \in Keys
    BY <1>3, <1>4 DEF Written
  <2>2. \A x \in Grains : x[2] < sg[x[1]].nr3 => r[x].key \in Keys
    BY <1>2, <1>3, <1>4 DEF Written
  <2> QED
    BY <1>4, <2>1, <2>2 DEF Written
<1>7. GoodTable(table, r)
  <2>1. \A x \in GrainsOf(table) : r[x] = rec[x]
    <3>1. GrainsOf(table) \subseteq Grains
      BY <1>1 DEF SegInv
    <3> QED
      BY <1>2, <1>4, <3>1
  <2> QED
    BY <1>3, <2>1, TableWrite
<1>8. WrittenAt(g, v.key, r, sg)
  <2>1. g[2] < sg[g[1]].nr3
    BY <1>2 DEF SegInv
  <2> QED
    BY <1>2, <1>4, <2>1 DEF WrittenAt
<1>9. Collecting(gc, sg, GrainsOf(table))
  <2>1. gc # NoGc => gc.seg \in Segs
    BY <1>3 DEF Collecting
  <2> QED
    BY <1>2, <1>3, <2>1 DEF Collecting
<1> QED
  BY <1>2, <1>5, <1>6, <1>7, <1>8, <1>9 DEF g, r, sg

\* The next grain of a staged segment lies within it.
LEMMA NextGrainType ==
  ASSUME KInv, NEW st \in Streams, CanAllocate(st)
  PROVE  NextGrain(st) \in Grains
<1> DEFINE H == GrainsOf(table) \cup GrainsHeld(cl)
<1>1. SegInv(seg, staged, H, GrainsHeld(cl)) /\ GrainsHeld(cl) \subseteq H
  BY DEF KInv
<1> HIDE DEF H
<1> QED
  BY <1>1, SegAllocate

\* A put has written its record.
LEMMA WriteStep ==
  ASSUME KInv, NEW c \in Clients, NEW k \in Keys, WriteRecord(salsa_stream_get_id(k), k),
         cl[c].grain = NoPbaYet, NEW x \in Call, x.op \in PutOps, x.pc = "lock", x.key = k,
         x.grain = NextGrain(salsa_stream_get_id(k)), cl' = [cl EXCEPT ![c] = x],
         UNCHANGED <<table, gc, cur>>
  PROVE  KInv'
<1> DEFINE st == salsa_stream_get_id(k)
           g == NextGrain(st)
           v == [key |-> k, ts |-> seg[g[1]].ts]
           H == GrainsOf(table) \cup GrainsHeld(cl)
<1>1. /\ CanAllocate(st) /\ rec' = [rec EXCEPT ![g] = v] /\ seg' = Allocated(seg, g)
      /\ staged' = StagedAfter(st) /\ seg_alloc_nr' = seg_alloc_nr
  BY DEF WriteRecord
<1>2. st \in Streams
  BY StreamOf
<1>3. v \in LogRec /\ v.key = k
  <2>1. g[1] \in Segs
    BY <1>1, <1>2, SegmentsAssumption DEF CanAllocate, NextGrain, KInv, SegInv
  <2>2. seg[g[1]].ts \in Nat
    BY <2>1 DEF KInv, SegInv, SegRec
  <2> QED
    BY <2>2 DEF LogRec
<1> HIDE DEF v, g, st
<1>4. /\ KeepsLog(rec, seg, rec', seg')
      /\ Written(rec', seg')
      /\ GoodTable(table, rec')
      /\ WrittenAt(g, k, rec', seg')
      /\ SegInv(seg', staged', H \cup {g}, GrainsHeld(cl) \cup {g})
      /\ g \notin H /\ g \in Grains
      /\ Collecting(gc, seg', GrainsOf(table))
  BY <1>1, <1>2, <1>3, LogWrite DEF g
<1>5. cl \in [Clients -> Call] /\ Apart(table, cl) /\ seg_alloc_nr \in Nat
      /\ cur \in [Keys -> Grains \cup {NoPba}] /\ \A d \in Clients : CallOK(cl[d], rec, seg)
  BY DEF KInv
<1>6. cl' \in [Clients -> Call] /\ cl'[c] = x /\ \A d \in Clients : d # c => cl'[d] = cl[d]
  BY <1>5
<1>7. x.grain = g /\ g # NoPbaYet
  BY <1>4, Ops DEF g, st
<1>8. GrainsHeld(cl') = GrainsHeld(cl) \cup {g} /\ Apart(table, cl')
  <2>1. cl'[c].grain = g /\ \A d \in Clients : d # c => cl'[d].grain = cl[d].grain
    BY <1>6, <1>7
  <2> QED
    <3>1. g \notin GrainsOf(table) \cup GrainsHeld(cl) /\ g # NoPbaYet /\ Apart(table, cl)
      BY <1>4, <1>5, <1>7
    <3> HIDE DEF H
    <3> DEFINE D == cl'
    <3>2. D[c].grain = g /\ \A d \in Clients : d # c => D[d].grain = cl[d].grain
      BY <2>1
    <3> HIDE DEF D
    <3>3. GrainsHeld(D) = GrainsHeld(cl) \cup {g} /\ Apart(table, D)
      BY <3>1, <3>2, HeldMore
    <3> QED
      BY <3>3 DEF D
<1>9. ASSUME NEW d \in Clients PROVE CallOK(cl'[d], rec', seg')
  <2>1. CASE d = c
    <3>1. CallOK(x, rec', seg')
      BY <1>4, <1>7, Ops DEF CallOK
    <3> QED
      BY <1>6, <2>1, <3>1
  <2>2. CASE d # c
    <3>1. SameCall(cl[d], cl[d]) /\ CallOK(cl[d], rec, seg)
      BY <1>5, SameCallRefl
    <3>2. CallOK(cl[d], rec', seg')
      BY <1>4, <3>1, CallKept
    <3> QED
      BY <1>6, <2>2, <3>2
  <2> QED
    BY <2>1, <2>2
<1>10. SegInv(seg', staged', GrainsOf(table') \cup GrainsHeld(cl'), GrainsHeld(cl'))
  <2>1. H \cup {g} = GrainsOf(table) \cup (GrainsHeld(cl) \cup {g})
    OBVIOUS
  <2> QED
    BY <1>4, <1>8, <2>1
<1> QED
  BY <1>1, <1>4, <1>5, <1>6, <1>8, <1>9, <1>10 DEF KInv

\* A put that begins holds a new grain, which no entry names.
LEMMA PutStartStep ==
  ASSUME KInv, NEW c \in Clients, NEW k \in PutKeys, NEW op \in PutOps, PutStart(c, k, op)
  PROVE  KInv'
<1> DEFINE g == NextGrain(salsa_stream_get_id(k))
           x == [Idle EXCEPT !.op = op, !.pc = "lock", !.key = k, !.grain = g]
<1>1. cl[c].grain = NoPbaYet /\ k \in Keys
  BY Ops, KVAssumption DEF PutStart, KInv, CallOK
<1>2. /\ WriteRecord(salsa_stream_get_id(k), k) /\ cl' = [cl EXCEPT ![c] = x]
      /\ UNCHANGED <<table, gc, cur>>
  BY DEF PutStart
<1>3. g \in Grains
  <2>1. salsa_stream_get_id(k) \in Streams /\ CanAllocate(salsa_stream_get_id(k))
    BY <1>1, <1>2, StreamOf DEF WriteRecord
  <2> QED
    BY <2>1, NextGrainType
<1> HIDE DEF g
<1>4. x \in Call /\ x.op = op /\ x.pc = "lock" /\ x.key = k /\ x.grain = g
  <2>1. Idle \in Call
    BY IdleCall
  <2>2. x \in Call
    BY <1>1, <1>3, <2>1 DEF Call, Pcs
  <2>3. x.op = op /\ x.pc = "lock" /\ x.key = k /\ x.grain = g
    BY <2>1 DEF Call
  <2> QED
    BY <2>2, <2>3
<1> HIDE DEF x
<1> QED
  BY <1>1, <1>2, <1>4, WriteStep DEF g

\* A put that writes its record again holds a new grain instead of none.
LEMMA PutRewriteStep ==
  ASSUME KInv, NEW c \in Clients, PutRewrite(c)
  PROVE  KInv'
<1> DEFINE k == cl[c].key
           g == NextGrain(salsa_stream_get_id(k))
           x == [cl[c] EXCEPT !.pc = "lock", !.grain = g]
<1>1. cl[c] \in Call /\ CallOK(cl[c], rec, seg) /\ cl[c].pc = "write"
  BY DEF KInv, PutRewrite
<1>2. cl[c].grain = NoPbaYet /\ k \in Keys /\ cl[c].op \in PutOps
  BY <1>1, Ops DEF CallOK, Call
<1>3. /\ WriteRecord(salsa_stream_get_id(k), k) /\ cl' = [cl EXCEPT ![c] = x]
      /\ UNCHANGED <<table, gc, cur>>
  BY DEF PutRewrite
<1>4. g \in Grains
  <2>1. salsa_stream_get_id(k) \in Streams /\ CanAllocate(salsa_stream_get_id(k))
    BY <1>2, <1>3, StreamOf DEF WriteRecord
  <2> QED
    BY <2>1, NextGrainType
<1> HIDE DEF g
<1>5. x \in Call
  BY <1>1, <1>4 DEF Call, Pcs
<1>6. x.op = cl[c].op /\ x.pc = "lock" /\ x.key = k /\ x.grain = g
  BY <1>1 DEF Call
<1> HIDE DEF x, k
<1> QED
  BY <1>2, <1>3, <1>5, <1>6, WriteStep DEF g

\* A put under way holds a grain of a segment that is not yet destaged.
LEMMA HeldAlloc ==
  ASSUME NEW sg, NEW stg, NEW H, NEW C, SegInv(sg, stg, H, C), NEW g \in C
  PROVE  sg[g[1]].state = "alloc"
<1> DEFINE s == g[1]
           h == Cardinality(InSeg(H, s))
           c == Cardinality(InSeg(C, s))
           r == Rest(sg, stg, s)
<1>1. s \in Segs /\ sg[s] \in SegRec /\ c >= 1
  BY GrainParts, CountMember DEF SegInv
<1>2. SegOK(sg[s], h, c, r) /\ sg[s].state \in SegStates /\ c \in Nat
  BY <1>1, RestType DEF SegInv, SegRec
<1> HIDE DEF h, c, r
<1> QED
  BY <1>1, <1>2 DEF SegOK, SegStates

\* Gets under way take note of a version; nothing else of their calls changes.
LEMMA SeenCalls ==
  ASSUME NEW C \in [Clients -> Call], NEW k, NEW v \in Grains \cup {NoPba}
  PROVE  /\ Seen(C, k, v) \in [Clients -> Call]
         /\ \A c \in Clients : SameCall(C[c], Seen(C, k, v)[c])
<1> SUFFICES ASSUME NEW c \in Clients PROVE Seen(C, k, v)[c] \in Call /\ SameCall(C[c], Seen(C, k, v)[c])
  <2>1. Seen(C, k, v) = [c \in Clients |-> Seen(C, k, v)[c]]
    BY DEF Seen
  <2> QED
    BY <2>1
<1> DEFINE n == C[c].seen \cup {v}
           y == [C[c] EXCEPT !.seen = n]
<1>1. C[c] \in Call
  OBVIOUS
<1>2. Seen(C, k, v)[c] = IF C[c].op \in GetOps /\ C[c].key = k THEN y ELSE C[c]
  BY DEF Seen
<1>3. n \in SUBSET (Grains \cup {NoPba})
  BY <1>1 DEF Call
<1> HIDE DEF n
<1>4. y \in Call
  BY <1>1, <1>3 DEF Call
<1>5. /\ y.op = C[c].op /\ y.pc = C[c].pc /\ y.key = C[c].key /\ y.grain = C[c].grain
      /\ y.slot = C[c].slot /\ y.cpy = C[c].cpy /\ y.md = C[c].md
  BY <1>1 DEF Call
<1> HIDE DEF y
<1>6. SameCall(C[c], y) /\ SameCall(C[c], C[c])
  BY <1>1, <1>4, <1>5 DEF SameCall
<1> QED
  BY <1>1, <1>2, <1>4, <1>6

\* A step that writes no record and moves no collector: the parts of the
\* invariant that are left once the table, the puts and the segments agree.
LEMMA FrameStep ==
  ASSUME KInv, GoodTable(table', rec), Apart(table', cl'), cl' \in [Clients -> Call],
         SegInv(seg', staged', GrainsOf(table') \cup GrainsHeld(cl'), GrainsHeld(cl')),
         Frame(seg', seg),
         \A g \in GrainsOf(table') : g \in GrainsOf(table) \/ seg[g[1]].state = "alloc",
         \A d \in Clients : SameCall(cl[d], cl'[d]) \/ CallOK(cl'[d], rec, seg'),
         cur' \in [Keys -> Grains \cup {NoPba}], UNCHANGED <<rec, gc, seg_alloc_nr>>
  PROVE  KInv'
<1>1. \A s \in Segs : seg'[s].nr3 = seg[s].nr3
  BY DEF Frame
<1>2. KeepsLog(rec, seg, rec, seg')
  BY <1>1, FrameKeeps
<1>3. Written(rec, seg')
  BY <1>1, FrameWritten DEF KInv
<1>4. ASSUME NEW d \in Clients PROVE CallOK(cl'[d], rec, seg')
  <2>1. CallOK(cl[d], rec, seg)
    BY DEF KInv
  <2> QED
    BY <1>2, <2>1, CallKept
<1>5. Collecting(gc, seg', GrainsOf(table'))
  <2>1. Collecting(gc, seg, GrainsOf(table))
    BY DEF KInv
  <2>2. ASSUME gc # NoGc
        PROVE  seg'[gc.seg].state = "reloc" /\ \A g \in GrainsOf(table') : g[1] = gc.seg => g[2] >= gc.off
    <3>1. gc.seg \in Segs /\ seg[gc.seg].state = "reloc"
      BY <2>1, <2>2 DEF Collecting
    <3>2. seg'[gc.seg].state = "reloc"
      BY <3>1 DEF Frame
    <3>3. \A g \in GrainsOf(table') : g[1] = gc.seg => g \in GrainsOf(table)
      BY <3>1
    <3> QED
      BY <2>1, <2>2, <3>2, <3>3 DEF Collecting
  <2> QED
    BY <2>1, <2>2 DEF Collecting
<1>6. seg_alloc_nr \in Nat
  BY DEF KInv
<1> QED
  BY <1>3, <1>4, <1>5, <1>6 DEF KInv

\* What two changes in a row keep, they keep together.
LEMMA FrameTrans ==
  ASSUME NEW a, NEW b, NEW c, Frame(b, a), Frame(c, b)
  PROVE  Frame(c, a)
BY DEF Frame

\* A put takes effect: of the entries' grains T stay, and that of the put is
\* added.
LEMMA SettledStep ==
  ASSUME KInv, NEW c \in Clients, cl[c].grain # NoPbaYet, cl[c].key \in Keys,
         NEW T, T \subseteq GrainsOf(table), GoodTable(table', rec),
         GrainsOf(table') = T \cup {cl[c].grain},
         NEW sg, SegInv(sg, staged, T \cup GrainsHeld(cl), GrainsHeld(cl)), Frame(sg, seg),
         seg' = Released(sg, cl[c].grain),
         cur' = [cur EXCEPT ![cl[c].key] = cl[c].grain],
         cl' = [Seen(cl, cl[c].key, cl[c].grain) EXCEPT ![c] = Idle],
         UNCHANGED <<rec, gc, staged, seg_alloc_nr>>
  PROVE  KInv'
<1> DEFINE g == cl[c].grain
           k == cl[c].key
           C == GrainsHeld(cl)
           H == T \cup C
           D == Seen(cl, k, g)
<1>1. cl \in [Clients -> Call] /\ Apart(table, cl) /\ cur \in [Keys -> Grains \cup {NoPba}]
  BY DEF KInv
<1>2. g \in Grains
  BY <1>1 DEF Call
<1>3. g \in C
  BY DEF GrainsHeld
<1>4. D \in [Clients -> Call] /\ \A d \in Clients : SameCall(cl[d], D[d])
  BY <1>1, <1>2, SeenCalls
<1> HIDE DEF D
<1>5. cl' \in [Clients -> Call] /\ cl'[c] = Idle /\ \A d \in Clients : d # c => SameCall(cl[d], cl'[d])
  BY <1>4, IdleCall DEF D
<1>6. Idle.grain = NoPbaYet
  BY DEF Idle
<1>7. GrainsHeld(cl') = C \ {g} /\ Apart(table, cl')
  <2> DEFINE E == cl'
  <2>1. E[c].grain = NoPbaYet /\ \A d \in Clients : d # c => E[d].grain = cl[d].grain
    BY <1>5, <1>6 DEF SameCall
  <2> HIDE DEF E
  <2>2. GrainsHeld(E) = C \ {g} /\ Apart(table, E)
    BY <1>1, <2>1, HeldLess
  <2> QED
    BY <2>2 DEF E
<1>8. SegInv(seg', staged, H, C \ {g}) /\ Frame(seg', sg)
  <2> HIDE DEF C, g, H
  <2>1. SegInv(sg, staged, H, C)
    BY DEF C, H
  <2>2. seg' = Released(sg, g)
    BY DEF g
  <2> QED
    BY <1>3, <2>1, <2>2, SegRelease
<1>9. Frame(seg', seg)
  BY <1>8, FrameTrans
<1>10. Apart(table', cl')
  BY <1>7 DEF Apart
<1>11. SegInv(seg', staged', GrainsOf(table') \cup GrainsHeld(cl'), GrainsHeld(cl'))
  <2>1. GrainsOf(table') \cup GrainsHeld(cl') = H
    BY <1>3, <1>7
  <2> QED
    BY <1>7, <1>8, <2>1
<1>12. seg[g[1]].state = "alloc"
  <2>1. SegInv(seg, staged, GrainsOf(table) \cup C, C)
    BY DEF KInv
  <2> HIDE DEF C, g
  <2> QED
    BY <1>3, <2>1, HeldAlloc
<1>13. cur' \in [Keys -> Grains \cup {NoPba}]
  BY <1>1, <1>2
<1>14. \A d \in Clients : SameCall(cl[d], cl'[d]) \/ CallOK(cl'[d], rec, seg')
  BY <1>5, IdleCall
<1>15. \A x \in GrainsOf(table') : x \in GrainsOf(table) \/ seg[x[1]].state = "alloc"
  BY <1>12
<1> HIDE DEF C, g, H, k
<1> QED
  BY <1>5, <1>9, <1>10, <1>11, <1>13, <1>14, <1>15, FrameStep

\* What a put under way that is not writing its record anew has in hand
LEMMA PutHolds ==
  ASSUME KInv, NEW c \in Clients, cl[c].op \in PutOps, cl[c].pc # "write"
  PROVE  /\ cl[c] \in Call /\ CallOK(cl[c], rec, seg)
         /\ cl[c].grain # NoPbaYet /\ cl[c].grain \in Grains /\ cl[c].key \in Keys
         /\ cl[c].grain \in GrainsHeld(cl) /\ cl[c].grain \notin GrainsOf(table)
         /\ rec[cl[c].grain].key = cl[c].key
<1>1. cl[c] \in Call /\ CallOK(cl[c], rec, seg) /\ Apart(table, cl)
  BY DEF KInv
<1>2. cl[c].grain # NoPbaYet /\ cl[c].key \in Keys /\ WrittenAt(cl[c].grain, cl[c].key, rec, seg)
  BY <1>1, Ops DEF CallOK
<1>3. cl[c].grain \in GrainsHeld(cl)
  BY <1>2 DEF GrainsHeld
<1> QED
  BY <1>1, <1>2, <1>3 DEF Apart, WrittenAt

\* The key is new to the table t, shifted or not.
LEMMA PutInsertStep ==
  ASSUME KInv, NEW c \in Clients, cl[c].op \in PutOps, cl[c].pc # "write",
         NEW t, GoodTable(t, rec), GrainsOf(t) = GrainsOf(table),
         NEW s \in Bucket(Hash[cl[c].key]), ~Used(t[s]),
         PutSettle(c, t, s, FALSE), UNCHANGED <<rec, gc>>
  PROVE  KInv'
<1> DEFINE g == cl[c].grain
           k == cl[c].key
           T == GrainsOf(table)
<1>1. g # NoPbaYet /\ g \in Grains /\ k \in Keys /\ g \notin GrainsOf(t) /\ rec[g].key = k
  BY PutHolds
<1>2. table' = insert(t, s, Hash[k], 1, g) /\ seg' = Released(seg, g)
  BY DEF PutSettle
<1>3. /\ cur' = [cur EXCEPT ![k] = g] /\ cl' = [Seen(cl, k, g) EXCEPT ![c] = Idle]
      /\ UNCHANGED <<staged, seg_alloc_nr>>
  BY DEF PutSettle
<1>4. GoodTable(table', rec) /\ GrainsOf(table') = T \cup {g}
  <2> HIDE DEF g, k
  <2>1. s \in Bucket(Hash[k])
    BY DEF k
  <2> QED
    BY <1>1, <1>2, <2>1, TableInsert
<1>5. SegInv(seg, staged, T \cup GrainsHeld(cl), GrainsHeld(cl)) /\ Frame(seg, seg) /\ T \subseteq GrainsOf(table)
  BY DEF KInv, Frame
<1> HIDE DEF T
<1> QED
  BY <1>1, <1>2, <1>3, <1>4, <1>5, SettledStep

\* The key has an entry, in slot s.
LEMMA PutUpdateStep ==
  ASSUME KInv, NEW c \in Clients, cl[c].op \in PutOps, cl[c].pc # "write",
         NEW s \in Slots, Used(table[s]), rec[table[s].pba].key = cl[c].key,
         PutSettle(c, table, s, TRUE), UNCHANGED <<rec, gc>>
  PROVE  KInv'
<1> DEFINE g == cl[c].grain
           k == cl[c].key
           p == table[s].pba
           T == GrainsOf(table) \ {p}
           H == GrainsOf(table) \cup GrainsHeld(cl)
           sg == Invalidated(seg, p)
<1>1. g # NoPbaYet /\ g \in Grains /\ k \in Keys /\ g \notin GrainsOf(table) /\ rec[g].key = k
  BY PutHolds
<1>2. table' = update_inplace(table, s, Hash[k], 1, g) /\ seg' = Released(sg, g)
  BY DEF PutSettle
<1>3. /\ cur' = [cur EXCEPT ![k] = g] /\ cl' = [Seen(cl, k, g) EXCEPT ![c] = Idle]
      /\ UNCHANGED <<staged, seg_alloc_nr>>
  BY DEF PutSettle
<1>4. GoodTable(table, rec) /\ Apart(table, cl) /\ SegInv(seg, staged, H, GrainsHeld(cl))
  BY DEF KInv
<1>5. GoodTable(table', rec) /\ GrainsOf(table') = T \cup {g}
  <2> HIDE DEF g, k
  <2>1. rec[table[s].pba].key = k
    BY DEF k
  <2> QED
    BY <1>1, <1>2, <1>4, <2>1, TableUpdate
<1>6. p \in GrainsOf(table)
  BY DEF GrainsOf
<1>7. SegInv(sg, staged, H \ {p}, GrainsHeld(cl)) /\ Frame(sg, seg)
  <2>1. p \in H
    BY <1>6
  <2> HIDE DEF p, H
  <2> QED
    BY <1>4, <2>1, SegInvalidate
<1>8. H \ {p} = T \cup GrainsHeld(cl)
  BY <1>4, <1>6 DEF Apart
<1>9. SegInv(sg, staged, T \cup GrainsHeld(cl), GrainsHeld(cl)) /\ T \subseteq GrainsOf(table)
  BY <1>7, <1>8
<1> HIDE DEF T, sg, H, p
<1> QED
  BY <1>1, <1>2, <1>3, <1>5, <1>7, <1>9, SettledStep

\* A put gives up its grain, with the segments sg and their streams stg, and
\* x is what becomes of its call.
LEMMA GiveUpStep ==
  ASSUME KInv, NEW c \in Clients, cl[c].op \in PutOps, cl[c].pc # "write",
         GoodTable(table', rec), GrainsOf(table') = GrainsOf(table),
         NEW sg, SegInv(sg, staged', GrainsOf(table) \cup GrainsHeld(cl), GrainsHeld(cl)), Frame(sg, seg),
         seg' = Released(Invalidated(sg, cl[c].grain), cl[c].grain),
         NEW x, x.grain = NoPbaYet, \A r2, sg2 : CallOK(x, r2, sg2), cl' = [cl EXCEPT ![c] = x],
         UNCHANGED <<rec, gc, cur, seg_alloc_nr>>
  PROVE  KInv'
<1> DEFINE g == cl[c].grain
           C == GrainsHeld(cl)
           H == GrainsOf(table) \cup C
           s1 == Invalidated(sg, g)
<1>1. g # NoPbaYet /\ g \in Grains /\ g \in C /\ g \notin GrainsOf(table)
  BY PutHolds
<1>2. cl \in [Clients -> Call] /\ Apart(table, cl) /\ cur \in [Keys -> Grains \cup {NoPba}]
  BY DEF KInv
<1>3. x \in Call
  BY DEF CallOK
<1>4. cl' \in [Clients -> Call] /\ cl'[c] = x /\ \A d \in Clients : d # c => cl'[d] = cl[d]
  BY <1>2, <1>3
<1>5. GrainsHeld(cl') = C \ {g} /\ Apart(table, cl')
  <2> DEFINE E == cl'
  <2>1. E[c].grain = NoPbaYet /\ \A d \in Clients : d # c => E[d].grain = cl[d].grain
    BY <1>4
  <2> HIDE DEF E
  <2>2. GrainsHeld(E) = C \ {g} /\ Apart(table, E)
    <3>1. cl[c].grain = g /\ g # NoPbaYet /\ Apart(table, cl) /\ C = GrainsHeld(cl)
      BY <1>1, <1>2
    <3> HIDE DEF g, C, H, s1
    <3> QED
      BY <2>1, <3>1, HeldLess
  <2> QED
    BY <2>2 DEF E
<1>6. SegInv(s1, staged', H \ {g}, C) /\ Frame(s1, sg)
  <2>1. g \in H /\ SegInv(sg, staged', H, C)
    BY <1>1
  <2> HIDE DEF g, H, C
  <2> QED
    BY <2>1, SegInvalidate
<1>7. SegInv(seg', staged', H \ {g}, C \ {g}) /\ Frame(seg', s1)
  <2>1. seg' = Released(s1, g)
    OBVIOUS
  <2> DEFINE G == H \ {g}
  <2>2. SegInv(s1, staged', G, C)
    BY <1>6
  <2> HIDE DEF g, H, C, s1, G
  <2>3. SegInv(seg', staged', G, C \ {g}) /\ Frame(seg', s1)
    BY <1>1, <2>1, <2>2, SegRelease
  <2> QED
    BY <2>3 DEF G
<1>8. Frame(seg', seg)
  <2> HIDE DEF s1
  <2> QED
    BY <1>6, <1>7, FrameTrans
<1>9. GrainsOf(table') \cup GrainsHeld(cl') = H \ {g}
  BY <1>1, <1>5
<1>10. SegInv(seg', staged', GrainsOf(table') \cup GrainsHeld(cl'), GrainsHeld(cl'))
  BY <1>5, <1>7, <1>9
<1>11. Apart(table', cl')
  BY <1>5 DEF Apart
<1>12. \A d \in Clients : SameCall(cl[d], cl'[d]) \/ CallOK(cl'[d], rec, seg')
  BY <1>2, <1>4, SameCallRefl
<1> QED
  BY <1>2, <1>4, <1>8, <1>10, <1>11, <1>12, FrameStep

\* A put that is refused gives its grain up, also after it has shifted entries.
LEMMA PutRejectStep ==
  ASSUME KInv, NEW c \in Clients, cl[c].op \in PutOps, cl[c].pc # "write",
         NEW t, GoodTable(t, rec), GrainsOf(t) = GrainsOf(table), PutReject(c, t), UNCHANGED <<rec, gc>>
  PROVE  KInv'
<1>1. /\ table' = t /\ seg' = Released(Invalidated(seg, cl[c].grain), cl[c].grain)
      /\ cl' = [cl EXCEPT ![c] = Idle] /\ UNCHANGED <<cur, staged, seg_alloc_nr>>
  BY DEF PutReject, Done
<1>2. SegInv(seg, staged', GrainsOf(table) \cup GrainsHeld(cl), GrainsHeld(cl)) /\ Frame(seg, seg)
  BY <1>1 DEF KInv, Frame
<1>3. Idle.grain = NoPbaYet /\ \A r2, sg2 : CallOK(Idle, r2, sg2)
  BY IdleCall DEF Idle
<1> HIDE DEF Idle
<1> QED
  BY <1>1, <1>2, <1>3, GiveUpStep

\* A put that finds its record out of order drains its segment and gives its
\* grain up.
LEMMA PutDrainStep ==
  ASSUME KInv, NEW c \in Clients, PutDrain(c)
  PROVE  KInv'
<1> DEFINE st == salsa_stream_get_id(cl[c].key)
           drain == cl[c].cpy.pba[1] # cl[c].grain[1]
           sg == IF drain THEN Drained(st) ELSE seg
           x == [cl[c] EXCEPT !.pc = "write", !.cpy = Unused, !.grain = NoPbaYet]
           H == GrainsOf(table) \cup GrainsHeld(cl)
<1>1. cl[c].pc = "drain" /\ cl[c] \in Call /\ CallOK(cl[c], rec, seg)
  BY DEF KInv, PutDrain
<1>2. cl[c].op \in PutOps
  BY <1>1, Ops DEF CallOK, Call
<1>3. /\ seg' = Released(Invalidated(sg, cl[c].grain), cl[c].grain)
      /\ staged' = IF drain THEN StagedDrained(st) ELSE staged
      /\ cl' = [cl EXCEPT ![c] = x] /\ UNCHANGED <<table, rec, gc, cur, seg_alloc_nr>>
  BY DEF PutDrain
<1>4. cl[c].key \in Keys /\ st \in Streams
  BY <1>1, <1>2, StreamOf, PutHolds
<1>5. SegInv(seg, staged, H, GrainsHeld(cl)) /\ GoodTable(table, rec)
  BY DEF KInv
<1>6. SegInv(sg, staged', H, GrainsHeld(cl)) /\ Frame(sg, seg)
  <2>1. CASE drain
    <3>1. sg = Drained(st) /\ staged' = StagedDrained(st)
      BY <1>3, <2>1
    <3> HIDE DEF H, sg, st, drain
    <3> QED
      BY <1>4, <1>5, <3>1, SegDrain
  <2>2. CASE ~drain
    BY <1>3, <1>5, <2>2 DEF Frame
  <2> QED
    BY <2>1, <2>2
<1>7. x \in Call
  <2>1. Idle \in Call /\ Idle.cpy = Unused
    BY IdleCall DEF Idle
  <2>2. Unused \in HashEntry
    BY <2>1 DEF Call
  <2> QED
    BY <1>1, <2>2 DEF Call, Pcs
<1>8. x.grain = NoPbaYet /\ x.op = cl[c].op /\ x.pc = "write" /\ x.key = cl[c].key
  BY <1>1 DEF Call
<1> HIDE DEF x, sg, drain
<1>9. \A r2, sg2 : CallOK(x, r2, sg2)
  BY <1>2, <1>4, <1>7, <1>8, Ops DEF CallOK
<1>10. GoodTable(table', rec) /\ GrainsOf(table') = GrainsOf(table)
  BY <1>3, <1>5
<1> QED
  BY <1>1, <1>2, <1>3, <1>6, <1>8, <1>9, <1>10, GiveUpStep

\* A round of a put's lookup
LEMMA PutRoundStep ==
  ASSUME KInv, NEW c \in Clients, cl[c].op \in PutOps, cl[c].pc \in {"lock", "recheck"},
         NEW visited \in SUBSET (Grains \cup {NoPba}), PutRound(c, visited), UNCHANGED <<rec, gc>>
  PROVE  KInv'
<1> DEFINE k == cl[c].key
           r == lookup_put(k, visited)
           sh == try_shift(table, Hash[k])
<1>1. k \in Keys /\ GoodTable(table, rec) /\ Hash[k] \in Nat
  BY PutHolds, KVAssumption DEF KInv
<1>2. CASE r[1] = "0" /\ ReadEntry(c, r[2], visited) /\ UNCHANGED <<table, cur, segVars>>
  <2>1. lookup_common(k, visited)[1] = "0" /\ lookup_common(k, visited)[2] # NoSlot
        /\ r = lookup_common(k, visited)
    <3>1. lookup_common(k, visited) # <<"0", NoSlot>> /\ r = lookup_common(k, visited)
      BY <1>2 DEF lookup_put
    <3>2. lookup_common(k, visited) = <<lookup_common(k, visited)[1], lookup_common(k, visited)[2]>>
      BY DEF lookup_common, lookup
    <3> QED
      BY <1>2, <3>1, <3>2
  <2>2. lookup_common(k, visited) = <<"0", r[2]>>
    <3>1. lookup_common(k, visited) = <<lookup_common(k, visited)[1], lookup_common(k, visited)[2]>>
      BY DEF lookup_common, lookup
    <3> QED
      BY <2>1, <3>1
  <2> HIDE DEF r, k
  <2>3. r[2] \in Slots /\ Used(table[r[2]])
    BY <1>1, <2>1, <2>2, ReadSlot
  <2> QED
    BY <1>2, <2>3, ReadEntryStep
<1>3. CASE r[1] = "ENODATA"
  <2>1. r[2] \in Bucket(Hash[k]) /\ ~Used(table[r[2]])
    <3> HIDE DEF k
    <3> QED
      BY <1>1, <1>3, InsertSlot
  <2> HIDE DEF r
  <2>2. CASE PutSettle(c, table, r[2], FALSE)
    BY <1>1, <2>1, <2>2, PutInsertStep
  <2>3. CASE PutReject(c, table)
    BY <1>1, <2>3, PutRejectStep
  <2> QED
    BY <1>3, <2>2, <2>3 DEF PutRound, r
<1>4. CASE r[1] = "ENOSPC"
  <2>1. \A p \in Bucket(Hash[k]) : Used(table[p])
    <3> HIDE DEF k
    <3> QED
      BY <1>1, <1>4, FullBucket
  <2>2. /\ GoodTable(sh.table, rec) /\ GrainsOf(sh.table) = GrainsOf(table)
        /\ sh.rc = "0" => sh.free \in Bucket(Hash[k]) /\ ~Used(sh.table[sh.free])
    <3> HIDE DEF k
    <3> QED
      BY <1>1, <2>1, ShiftKeeps
  <2> HIDE DEF r, sh
  <2>3. CASE sh.rc = "0" /\ PutSettle(c, sh.table, sh.free, FALSE)
    BY <2>2, <2>3, PutInsertStep
  <2>4. CASE PutReject(c, sh.table)
    BY <2>2, <2>4, PutRejectStep
  <2> QED
    BY <1>4, <2>3, <2>4 DEF PutRound, r, sh
<1>5. CASE r[1] = "assert_visited" /\ VisitedOverflow(c)
  BY <1>5, OverflowStep DEF VisitedOverflow
<1> QED
  BY <1>2, <1>3, <1>4, <1>5 DEF PutRound

\* The first round of a put in the table: it inserts, is refused or reads on.
LEMMA PutLookupStep ==
  ASSUME KInv, NEW c \in Clients, PutLookup(c)
  PROVE  KInv'
BY PutRoundStep DEF PutLookup

\* With the lock held again, the slot found is that of an entry of the key.
LEMMA EntryAgainSlot ==
  ASSUME KInv, NEW c \in Clients, cl[c].op \in PutOps, cl[c].pc = "recheck",
         IsKey(c, cl[c].md), EntryAgain(c) # NoSlot
  PROVE  /\ EntryAgain(c) \in Slots /\ Used(table[EntryAgain(c)])
         /\ rec[table[EntryAgain(c)].pba].key = cl[c].key
<1> DEFINE k == cl[c].key
           p == cl[c].cpy.pba
           s == EntryAgain(c)
           S == {x \in Bucket(Hash[k]) : table[x].pba = p}
<1>1. CallOK(cl[c], rec, seg) /\ k \in Keys
  BY PutHolds
<1>2. cl[c].slot \in Slots /\ p \in Grains /\ rec[p].key = k
  BY <1>1 DEF CallOK, IsKey
<1>3. CASE table[cl[c].slot] = cl[c].cpy
  <2>1. s = cl[c].slot
    BY <1>3 DEF EntryAgain
  <2> HIDE DEF s
  <2> QED
    BY <1>2, <1>3, <2>1, Ops DEF Used, s
<1>4. CASE table[cl[c].slot] # cl[c].cpy
  <2>1. s = MinOr(S)
    BY <1>4 DEF EntryAgain, lookup_pba
  <2>2. S \subseteq Slots
    <3>1. Hash[k] \in Nat
      BY <1>1, KVAssumption
    <3> QED
      BY <3>1, Homes
  <2>3. s \in S
    <3> HIDE DEF S
    <3> QED
      BY <2>1, <2>2, MinOrSlot
  <2> HIDE DEF s
  <2>4. s \in Slots /\ table[s].pba = p
    BY <2>2, <2>3
  <2> QED
    BY <1>2, <2>4, Ops DEF Used, s
<1> QED
  BY <1>3, <1>4

\* A put that takes the lock again after a read: it updates the entry, drains,
\* is refused or reads on.
LEMMA PutRecheckStep ==
  ASSUME KInv, NEW c \in Clients, PutRecheck(c)
  PROVE  KInv'
<1> DEFINE s == EntryAgain(c)
<1>1. cl[c].op \in PutOps /\ cl[c].pc = "recheck" /\ UNCHANGED <<rec, gc>>
  BY DEF PutRecheck
<1>2. cl[c] \in Call /\ CallOK(cl[c], rec, seg) /\ cl[c].key \in Keys /\ GoodTable(table, rec)
  BY <1>1, PutHolds DEF KInv
<1>3. CASE IsKey(c, cl[c].md) /\ EntryAgain(c) # NoSlot
  <2>1. PutFound(c, s)
    BY <1>3 DEF PutRecheck
  <2>2. s \in Slots /\ Used(table[s]) /\ rec[table[s].pba].key = cl[c].key
    BY <1>1, <1>3, EntryAgainSlot
  <2> HIDE DEF s
  <2>3. CASE PutReject(c, table)
    BY <1>1, <1>2, <2>3, PutRejectStep
  <2>4. CASE PutSettle(c, table, s, TRUE)
    BY <1>1, <2>2, <2>4, PutUpdateStep
  <2> DEFINE x == [cl[c] EXCEPT !.pc = "drain", !.cpy = table[s], !.slot = NoSlot,
                                !.md = NoRec, !.visited = {}]
  <2>5. CASE cl' = [cl EXCEPT ![c] = x] /\ UNCHANGED <<table, cur, segVars>>
    <3>1. NoRec \in LogRec /\ table[s] \in HashEntry
      BY <1>2, <2>2 DEF NoRec, LogRec, GoodTable, Tables
    <3>2. x \in Call
      BY <1>2, <3>1 DEF Call, Pcs
    <3>3. x.op = cl[c].op /\ x.pc = "drain" /\ x.key = cl[c].key /\ x.grain = cl[c].grain
      BY <1>2 DEF Call
    <3> HIDE DEF x
    <3>4. CallOK(x, rec, seg)
      BY <1>1, <1>2, <3>2, <3>3, Ops DEF CallOK
    <3> QED
      BY <1>1, <2>5, <3>3, <3>4, ClientStep
  <2> QED
    BY <2>1, <2>3, <2>4, <2>5 DEF PutFound
<1>4. CASE ~(IsKey(c, cl[c].md) /\ EntryAgain(c) # NoSlot)
  <2> DEFINE v == cl[c].visited \cup {cl[c].cpy.pba}
  <2>1. PutRound(c, v)
    BY <1>4 DEF PutRecheck
  <2>2. v \in SUBSET (Grains \cup {NoPba})
    BY <1>2, KVAssumption DEF Call, HashEntry
  <2> HIDE DEF v
  <2> QED
    BY <1>1, <2>1, <2>2, PutRoundStep
<1> QED
  BY <1>3, <1>4

\* Every step of a put keeps the invariant.
LEMMA PutSteps ==
  ASSUME KInv, NEW c \in Clients, PutStep(c)
  PROVE  KInv'
BY PutStartStep, PutLookupStep, PutRecheckStep, PutDrainStep, PutRewriteStep DEF PutStep

-----------------------------------------------------------------------------
(* The collector and the segments *)

\* A step on the segments alone that leaves every nr3 as it is
LEMMA SegsOnly ==
  ASSUME KInv, SegInv(seg', staged', GrainsOf(table) \cup GrainsHeld(cl), GrainsHeld(cl)),
         \A x \in Segs : seg'[x].nr3 = seg[x].nr3, Collecting(gc', seg', GrainsOf(table)),
         UNCHANGED <<table, rec, cl, cur>>, seg_alloc_nr' \in Nat
  PROVE  KInv'
<1>1. KeepsLog(rec, seg, rec, seg') /\ Written(rec, seg')
  BY FrameKeeps, FrameWritten DEF KInv
<1>2. ASSUME NEW d \in Clients PROVE CallOK(cl[d], rec, seg')
  <2>1. CallOK(cl[d], rec, seg) /\ SameCall(cl[d], cl[d])
    BY SameCallRefl DEF KInv
  <2> QED
    BY <1>1, <2>1, CallKept
<1> QED
  BY <1>1, <1>2 DEF KInv

\* A segment goes from one queue to another.
LEMMA MoveStep ==
  ASSUME KInv, NEW s \in Segs, NEW q \in {"gc", "reloc", "free"},
         seg[s].state \in {"done", "gc", "reloc"},
         q = "free" => InSeg(GrainsOf(table) \cup GrainsHeld(cl), s) = {},
         seg' = [seg EXCEPT ![s].state = q],
         SameBut(seg', seg, s) /\ seg'[s].state = q => Collecting(gc', seg', GrainsOf(table)),
         UNCHANGED <<table, rec, cl, cur, staged, seg_alloc_nr>>
  PROVE  KInv'
<1> DEFINE H == GrainsOf(table) \cup GrainsHeld(cl)
<1>1. SegInv(seg, staged, H, GrainsHeld(cl)) /\ (q = "free" => InSeg(H, s) = {}) /\ seg_alloc_nr \in Nat
  BY DEF KInv
<1> HIDE DEF H
<1>2. /\ SegInv(seg', staged, H, GrainsHeld(cl)) /\ SameBut(seg', seg, s) /\ seg'[s].state = q
      /\ \A x \in Segs : seg'[x].nr3 = seg[x].nr3
  <2> DEFINE new == QueuedAs(s, q)
  <2>1. /\ SegInv(new, staged, H, GrainsHeld(cl)) /\ SameBut(new, seg, s) /\ new[s].state = q
        /\ \A x \in Segs : new[x].nr3 = seg[x].nr3
    BY <1>1, SegMove
  <2>2. seg' = new
    BY DEF QueuedAs
  <2> HIDE DEF new
  <2> QED
    BY <2>1, <2>2
<1> QED
  BY <1>1, <1>2, SegsOnly DEF H

\* A collection under way is not the value that stands for none.
LEMMA NoGcSeg ==
  /\ \A s \in Segs : \A n : [seg |-> s, off |-> n] # NoGc
  /\ NoGc \notin [seg : Segs, off : 0 .. SegSize]
BY SegmentsAssumption DEF NoGc

\* The segment under collection holds no grain of a put.
LEMMA GcParts ==
  ASSUME KInv, gc # NoGc
  PROVE  /\ gc \in [seg : Segs, off : 0 .. SegSize]
         /\ gc.seg \in Segs /\ gc.off \in 0 .. SegSize /\ seg[gc.seg].state = "reloc"
         /\ \A g \in GrainsOf(table) : g[1] = gc.seg => g[2] >= gc.off
         /\ \A g \in GrainsHeld(cl) : g[1] # gc.seg
<1> DEFINE H == GrainsOf(table) \cup GrainsHeld(cl)
<1>1. gc \in [seg : Segs, off : 0 .. SegSize]
  BY DEF KInv, Collecting
<1>2. gc.seg \in Segs /\ gc.off \in 0 .. SegSize
  BY <1>1
<1>3. seg[gc.seg].state = "reloc" /\ \A g \in GrainsOf(table) : g[1] = gc.seg => g[2] >= gc.off
  BY DEF KInv, Collecting
<1>4. \A g \in GrainsHeld(cl) : seg[g[1]].state = "alloc"
  <2>1. SegInv(seg, staged, H, GrainsHeld(cl))
    BY DEF KInv
  <2> HIDE DEF H
  <2> QED
    BY <2>1, HeldAlloc
<1> QED
  BY <1>1, <1>2, <1>3, <1>4

\* The collector takes an eligible segment, and has passed none of its grains.
LEMMA GcSelectStep ==
  ASSUME KInv, NEW s \in Segs, GcSelect(s)
  PROVE  KInv'
<1> DEFINE x == [seg |-> s, off |-> 0]
<1>1. seg[s].state = "gc" /\ seg' = [seg EXCEPT ![s].state = "reloc"] /\ gc' = x
      /\ UNCHANGED <<table, rec, cl, cur, staged, seg_alloc_nr>>
  BY DEF GcSelect
<1>2. x \in [seg : Segs, off : 0 .. SegSize] /\ x.seg = s /\ x.off = 0
  BY SegmentsAssumption
<1> HIDE DEF x
<1>3. ASSUME SameBut(seg', seg, s) /\ seg'[s].state = "reloc"
      PROVE  Collecting(gc', seg', GrainsOf(table))
  <2>1. \A g \in GrainsOf(table) : g[2] >= 0
    <3>1. GrainsOf(table) \subseteq Grains
      BY DEF KInv, SegInv
    <3> QED
      BY <3>1, GrainParts
  <2> QED
    BY <1>1, <1>2, <1>3, <2>1 DEF Collecting
<1> QED
  BY <1>1, <1>3, MoveStep

\* A collector that stops or fails puts its segment back.
LEMMA GcGiveBackStep ==
  ASSUME KInv, GcStop \/ GcFail
  PROVE  KInv'
<1>1. gc # NoGc /\ seg' = [seg EXCEPT ![gc.seg].state = "gc"] /\ gc' = NoGc
      /\ UNCHANGED <<table, rec, cl, cur, staged, seg_alloc_nr>>
  BY DEF GcStop, GcFail, GcAt
<1>2. gc.seg \in Segs /\ seg[gc.seg].state = "reloc"
  BY <1>1, GcParts
<1>3. Collecting(gc', seg', GrainsOf(table))
  BY <1>1 DEF Collecting
<1> QED
  BY <1>1, <1>2, <1>3, MoveStep

\* A segment the collector has been through is named by no entry, and is freed.
LEMMA GcReleaseStep ==
  ASSUME KInv, GcRelease
  PROVE  KInv'
<1>1. gc # NoGc /\ gc.off = SegSize /\ seg' = [seg EXCEPT ![gc.seg].state = "free"] /\ gc' = NoGc
      /\ UNCHANGED <<table, rec, cl, cur, staged, seg_alloc_nr>>
  BY DEF GcRelease
<1>2. /\ gc.seg \in Segs /\ seg[gc.seg].state = "reloc"
      /\ \A g \in GrainsOf(table) : g[1] = gc.seg => g[2] >= SegSize
      /\ \A g \in GrainsHeld(cl) : g[1] # gc.seg
  BY <1>1, GcParts
<1>3. Collecting(gc', seg', GrainsOf(table))
  BY <1>1 DEF Collecting
<1>4. InSeg(GrainsOf(table) \cup GrainsHeld(cl), gc.seg) = {}
  <2>1. GrainsOf(table) \subseteq Grains
    BY DEF KInv, SegInv
  <2>2. \A g \in GrainsOf(table) : g[2] < SegSize /\ g[2] \in Nat
    BY <2>1, GrainParts, SegmentsAssumption
  <2>3. \A g \in GrainsOf(table) : g[1] # gc.seg
    BY <1>2, <2>2, SegmentsAssumption
  <2> QED
    BY <1>2, <2>3 DEF InSeg
<1> QED
  BY <1>1, <1>2, <1>3, <1>4, MoveStep

\* The slot the collector finds is that of the entry that names its grain, and
\* it finds the entry if there is one.
LEMMA GcSlotIs ==
  ASSUME KInv, GcAt
  PROVE  /\ GcGrain \in Grains /\ GcGrain[1] = gc.seg /\ GcGrain[2] = gc.off
         /\ gc # NoGc /\ gc.off \in Nat /\ gc.off + 1 \in 0 .. SegSize
         /\ GcSlot # NoSlot =>
              /\ GcSlot \in Slots /\ Used(table[GcSlot]) /\ table[GcSlot].pba = GcGrain
              /\ rec[GcGrain].key \in Keys /\ rec[GcGrain] # NoRec /\ GcGrain \in GrainsOf(table)
         /\ GcSlot = NoSlot => GcGrain \notin GrainsOf(table)
<1> DEFINE g == GcGrain
           k == rec[g].key
           S == {x \in Bucket(Hash[k]) : table[x].pba = g}
<1>1. /\ gc # NoGc /\ gc.seg \in Segs /\ gc.off \in 0 .. SegSize /\ gc.off < SegSize
  BY GcParts DEF GcAt
<1>2. SegSize \in Nat /\ gc.off \in 0 .. SegSize - 1
  BY <1>1, SegmentsAssumption
<1>3. g \in Grains /\ g[1] = gc.seg /\ g[2] = gc.off
  BY <1>1, <1>2 DEF GcGrain, Grains
<1>4. gc.off \in Nat /\ gc.off + 1 \in 0 .. SegSize
  BY <1>2
<1> HIDE DEF g
<1>5. rec[g] = NoRec \/ k \in Keys
  BY <1>3 DEF KInv, Written
<1>6. rec[g] # NoRec => GcSlot = MinOr(S)
  BY DEF GcSlot, lookup_pba, g
<1>7. k \in Keys => S \subseteq Slots
  <2> SUFFICES ASSUME k \in Keys PROVE S \subseteq Slots
    OBVIOUS
  <2>1. Hash[k] \in Nat
    BY KVAssumption
  <2> QED
    BY <2>1, Homes
<1>8. ASSUME GcSlot # NoSlot
      PROVE  /\ GcSlot \in Slots /\ Used(table[GcSlot]) /\ table[GcSlot].pba = g
             /\ k \in Keys /\ rec[g] # NoRec /\ g \in GrainsOf(table)
  <2>1. rec[g] # NoRec
    BY <1>8 DEF GcSlot, g
  <2>2. GcSlot \in S
    <3>1. S \subseteq Slots /\ GcSlot = MinOr(S)
      BY <1>5, <1>6, <1>7, <2>1
    <3> HIDE DEF S
    <3> QED
      BY <1>8, <3>1, MinOrSlot
  <2>3. GcSlot \in Slots /\ table[GcSlot].pba = g
    BY <1>5, <1>7, <2>1, <2>2
  <2>4. Used(table[GcSlot])
    BY <1>3, <2>3, Ops DEF Used
  <2> HIDE DEF k
  <2> QED
    BY <1>5, <2>1, <2>3, <2>4 DEF GrainsOf, k
<1>9. ASSUME GcSlot = NoSlot, g \in GrainsOf(table) PROVE FALSE
  <2>1. PICK s \in Slots : Used(table[s]) /\ table[s].pba = g
    BY <1>9 DEF GrainsOf
  <2>2. k \in Keys /\ s \in Bucket(Hash[k])
    BY <2>1 DEF KInv, GoodTable, AtHome
  <2>3. s \in S
    BY <2>1, <2>2
  <2>4. rec[g] # NoRec
    BY <2>2, Ops DEF NoRec
  <2>5. S \subseteq Slots /\ GcSlot = MinOr(S) /\ S # {}
    BY <1>6, <1>7, <2>2, <2>3, <2>4
  <2> HIDE DEF S
  <2>6. GcSlot \in Slots
    BY <2>5, MinOrSlot
  <2> QED
    BY <1>9, <2>6, SlotType
<1> QED
  BY <1>1, <1>3, <1>4, <1>8, <1>9 DEF g

\* A record that no entry of its bucket names is named by no entry at all, and
\* behind a grain that was never written there are no records.
LEMMA GcSkipStep ==
  ASSUME KInv, GcSkip
  PROVE  KInv'
<1> DEFINE n == IF rec[GcGrain] = NoRec THEN SegSize ELSE gc.off + 1
           x == [gc EXCEPT !.off = n]
<1>1. GcAt /\ GcSlot = NoSlot /\ gc' = x /\ UNCHANGED <<table, rec, cl, cur, segVars>>
  BY DEF GcSkip
<1>2. /\ GcGrain \in Grains /\ GcGrain[1] = gc.seg /\ GcGrain[2] = gc.off /\ gc # NoGc
      /\ gc.off \in Nat /\ gc.off + 1 \in 0 .. SegSize /\ GcGrain \notin GrainsOf(table)
  BY <1>1, GcSlotIs
<1>3. /\ gc \in [seg : Segs, off : 0 .. SegSize] /\ gc.seg \in Segs /\ seg[gc.seg].state = "reloc"
      /\ \A g \in GrainsOf(table) : g[1] = gc.seg => g[2] >= gc.off
  BY <1>2, GcParts
<1>4. n \in 0 .. SegSize
  BY <1>2, SegmentsAssumption
<1>5. ASSUME NEW g \in GrainsOf(table), g[1] = gc.seg PROVE g[2] >= n
  <2>1. g \in Grains /\ g[2] < seg[g[1]].nr3
    BY DEF KInv, SegInv
  <2>2. g[1] \in Segs /\ g[2] \in Nat /\ g = <<g[1], g[2]>> /\ g[2] >= gc.off
    BY <1>3, <1>5, <2>1, GrainParts
  <2>3. rec[GcGrain] # NoRec
    <3>1. seg[gc.seg].nr3 \in Nat
      BY <1>3, SegmentsAssumption DEF KInv, SegInv, SegRec
    <3>2. GcGrain[2] < seg[GcGrain[1]].nr3
      BY <1>2, <1>5, <2>1, <2>2, <3>1
    <3>3. rec[GcGrain].key \in Keys
      BY <1>2, <3>2 DEF KInv, Written
    <3> QED
      BY <3>3, Ops DEF NoRec
  <2>4. g[2] # gc.off
    <3>1. GcGrain = <<gc.seg, gc.off>>
      BY DEF GcGrain
    <3> QED
      BY <1>2, <1>5, <2>2, <3>1
  <2> QED
    BY <1>2, <2>2, <2>3, <2>4
<1> HIDE DEF n
<1>6. x \in [seg : Segs, off : 0 .. SegSize] /\ x.seg = gc.seg /\ x.off = n
  BY <1>3, <1>4
<1> HIDE DEF x
<1>7. Collecting(gc', seg', GrainsOf(table))
  BY <1>1, <1>3, <1>5, <1>6 DEF Collecting, segVars
<1>8. SegInv(seg', staged', GrainsOf(table) \cup GrainsHeld(cl), GrainsHeld(cl)) /\ seg_alloc_nr' \in Nat
  BY <1>1 DEF KInv, segVars
<1> QED
  BY <1>1, <1>7, <1>8, SegsOnly DEF segVars

\* There are no tombstones.
LEMMA NotDeleted ==
  ASSUME KInv, GcAt, GcSlot # NoSlot
  PROVE  ~Deleted(table[GcSlot])
<1>1. GcSlot \in Slots /\ Used(table[GcSlot])
  BY GcSlotIs
<1> QED
  BY <1>1 DEF KInv, GoodTable, AtHome

\* The collector goes on behind a grain that no entry names any more.
LEMMA GcPasses ==
  ASSUME KInv, GcAt, NEW sg, sg[gc.seg].state = "reloc", NEW T,
         \A g \in T : (g \in GrainsOf(table) /\ g # GcGrain) \/ g[1] # gc.seg
  PROVE  Collecting([gc EXCEPT !.off = @ + 1], sg, T)
<1> DEFINE n == gc.off + 1
           x == [gc EXCEPT !.off = n]
<1>1. /\ GcGrain \in Grains /\ GcGrain[1] = gc.seg /\ GcGrain[2] = gc.off /\ gc # NoGc
      /\ gc.off \in Nat /\ n \in 0 .. SegSize
  BY GcSlotIs
<1>2. /\ gc \in [seg : Segs, off : 0 .. SegSize] /\ gc.seg \in Segs
      /\ \A g \in GrainsOf(table) : g[1] = gc.seg => g[2] >= gc.off
  BY <1>1, GcParts
<1>3. ASSUME NEW g \in T, g[1] = gc.seg PROVE g[2] >= n
  <2>1. g \in GrainsOf(table) /\ g # GcGrain /\ g[2] >= gc.off
    BY <1>2, <1>3
  <2>2. g \in Grains
    BY <2>1 DEF KInv, SegInv
  <2>3. g = <<g[1], g[2]>> /\ g[2] \in Nat
    BY <2>2, GrainParts
  <2>4. g[2] # gc.off
    BY <1>3, <2>1, <2>3 DEF GcGrain
  <2> QED
    BY <1>1, <2>1, <2>3, <2>4
<1> HIDE DEF n
<1>4. x \in [seg : Segs, off : 0 .. SegSize] /\ x.seg = gc.seg /\ x.off = n
  BY <1>1, <1>2
<1> HIDE DEF x
<1>5. Collecting(x, sg, T)
  BY <1>3, <1>4 DEF Collecting
<1> QED
  BY <1>5 DEF x, n

\* An evicted record leaves the table before the collector passes it.
LEMMA GcEvictStep ==
  ASSUME KInv, GcEvict
  PROVE  KInv'
<1> DEFINE g == GcGrain
           k == rec[g].key
           C == GrainsHeld(cl)
           H == GrainsOf(table) \cup C
           D == Seen(cl, k, NoPba)
<1>1. /\ GcAt /\ GcSlot # NoSlot
      /\ table' = purge(remove(table, GcSlot, g), GcSlot) /\ seg' = RelocInvalidated(seg, g)
      /\ gc' = [gc EXCEPT !.off = @ + 1] /\ cl' = D
      /\ cur' = [cur EXCEPT ![k] = IF @ = g THEN NoPba ELSE @]
      /\ UNCHANGED <<rec, staged, seg_alloc_nr>>
  BY DEF GcEvict
<1>2. /\ g \in Grains /\ g[1] = gc.seg /\ gc # NoGc /\ GcSlot \in Slots /\ Used(table[GcSlot])
      /\ table[GcSlot].pba = g /\ k \in Keys /\ g \in GrainsOf(table)
  BY <1>1, GcSlotIs
<1>3. /\ GoodTable(table, rec) /\ Apart(table, cl) /\ SegInv(seg, staged, H, C)
      /\ cl \in [Clients -> Call] /\ cur \in [Keys -> Grains \cup {NoPba}] /\ seg_alloc_nr \in Nat
  BY DEF KInv
<1>4. gc.seg \in Segs /\ seg[gc.seg].state = "reloc"
  BY <1>2, GcParts
<1> HIDE DEF g, k, C
<1>5. GoodTable(table', rec) /\ GrainsOf(table') = GrainsOf(table) \ {g}
  BY <1>1, <1>2, <1>3, TablePurge
<1>6. SegInv(seg', staged, H \ {g}, C) /\ Frame(seg', seg)
  <2>1. g \in H /\ seg[g[1]].state = "reloc"
    BY <1>2, <1>4
  <2> HIDE DEF H
  <2> QED
    BY <1>1, <1>3, <2>1, SegRelocInvalidate
<1>7. D \in [Clients -> Call] /\ \A d \in Clients : SameCall(cl[d], D[d])
  BY <1>3, SeenCalls
<1> HIDE DEF D
<1>8. GrainsHeld(cl') = C /\ Apart(table, cl')
  <2>1. \A d \in Clients : D[d].grain = cl[d].grain
    BY <1>7 DEF SameCall
  <2>2. GrainsHeld(D) = GrainsHeld(cl) /\ Apart(table, D)
    BY <1>3, <2>1, HeldSame
  <2> QED
    BY <1>1, <2>2 DEF C
<1>9. H \ {g} = GrainsOf(table') \cup C
  BY <1>2, <1>3, <1>5 DEF Apart, C
<1>10. SegInv(seg', staged', GrainsOf(table') \cup GrainsHeld(cl'), GrainsHeld(cl'))
  BY <1>1, <1>6, <1>8, <1>9
<1>11. \A s \in Segs : seg'[s].nr3 = seg[s].nr3
  BY <1>6 DEF Frame
<1>12. KeepsLog(rec, seg, rec, seg') /\ Written(rec, seg')
  BY <1>11, FrameKeeps, FrameWritten DEF KInv
<1>13. ASSUME NEW d \in Clients PROVE CallOK(cl'[d], rec', seg')
  <2>1. CallOK(cl[d], rec, seg) /\ SameCall(cl[d], cl'[d])
    BY <1>1, <1>7 DEF KInv
  <2> QED
    BY <1>1, <1>12, <2>1, CallKept
<1>14. Collecting(gc', seg', GrainsOf(table'))
  <2>1. seg'[gc.seg].state = "reloc"
    BY <1>4, <1>6 DEF Frame
  <2> QED
    BY <1>1, <1>5, <2>1, GcPasses DEF g
<1>15. Apart(table', cl')
  BY <1>5, <1>8 DEF Apart
<1>16. cur' \in [Keys -> Grains \cup {NoPba}]
  BY <1>1, <1>2, <1>3
<1> QED
  BY <1>1, <1>3, <1>5, <1>7, <1>10, <1>12, <1>13, <1>14, <1>15, <1>16 DEF KInv

\* A relocation changes the ghosts of operations, and nothing they rely on.
LEMMA MovedCalls ==
  ASSUME cl \in [Clients -> Call], NEW k, NEW p, NEW q \in Grains
  PROVE  /\ Moved(k, p, q) \in [Clients -> Call]
         /\ \A c \in Clients : SameCall(cl[c], Moved(k, p, q)[c])
<1> SUFFICES ASSUME NEW c \in Clients PROVE Moved(k, p, q)[c] \in Call /\ SameCall(cl[c], Moved(k, p, q)[c])
  <2>1. Moved(k, p, q) = [c \in Clients |-> Moved(k, p, q)[c]]
    BY DEF Moved
  <2> QED
    BY <2>1
<1> DEFINE n == cl[c].seen \cup {q}
           y == [cl[c] EXCEPT !.seen = n]
<1>1. cl[c] \in Call
  OBVIOUS
<1>2. Moved(k, p, q)[c] = IF cl[c].op \in GetOps /\ cl[c].key = k /\ p \in cl[c].seen THEN y ELSE cl[c]
  BY DEF Moved
<1>3. n \in SUBSET (Grains \cup {NoPba})
  BY <1>1 DEF Call
<1> HIDE DEF n
<1>4. y \in Call
  BY <1>1, <1>3 DEF Call
<1>5. /\ y.op = cl[c].op /\ y.pc = cl[c].pc /\ y.key = cl[c].key /\ y.grain = cl[c].grain
      /\ y.slot = cl[c].slot /\ y.cpy = cl[c].cpy /\ y.md = cl[c].md
  BY <1>1 DEF Call
<1> HIDE DEF y
<1>6. SameCall(cl[c], y) /\ SameCall(cl[c], cl[c])
  BY <1>1, <1>4, <1>5 DEF SameCall
<1> QED
  BY <1>1, <1>2, <1>4, <1>6

\* The segments when a record has been relocated from g to q
LEMMA SegRelocate ==
  ASSUME NEW H, NEW C, NEW g, NEW q, NEW sg, NEW stg, SegInv(sg, stg, H \cup {q}, C \cup {q}),
         q \notin C, g \in H, g # q, sg[g[1]].state = "reloc"
  PROVE  LET new == RelocInvalidated(Released(sg, q), g)
         IN SegInv(new, stg, (H \cup {q}) \ {g}, C) /\ Frame(new, sg)
<1> DEFINE G == H \cup {q}
           E == C \cup {q}
           s2 == Released(sg, q)
           new == RelocInvalidated(s2, g)
<1>1. q \in E /\ g \in G /\ E \ {q} = C /\ SegInv(sg, stg, G, E)
  OBVIOUS
<1> HIDE DEF G, E, s2, new
<1>2. SegInv(s2, stg, G, C) /\ Frame(s2, sg)
  <2>1. SegInv(Released(sg, q), stg, G, E \ {q}) /\ Frame(Released(sg, q), sg)
    BY <1>1, SegRelease
  <2> QED
    BY <1>1, <2>1 DEF s2
<1>3. s2[g[1]].state = "reloc"
  <2>1. g[1] \in Segs
    BY <1>1, GrainParts DEF SegInv
  <2> QED
    BY <1>2, <2>1 DEF Frame
<1>4. SegInv(new, stg, G \ {g}, C) /\ Frame(new, s2)
  BY <1>1, <1>2, <1>3, SegRelocInvalidate DEF new
<1>5. Frame(new, sg)
  BY <1>2, <1>4, FrameTrans
<1> QED
  BY <1>4, <1>5 DEF G, new, s2

\* A relocated record is named in its new place before the collector passes the
\* old one.
LEMMA GcRelocateStep ==
  ASSUME KInv, GcRelocate
  PROVE  KInv'
<1> DEFINE g == GcGrain
           r == rec[g]
           q == NextGrain(Reloc)
           C == GrainsHeld(cl)
           H == GrainsOf(table) \cup C
           sg == Allocated(seg, q)
           D == Moved(r.key, g, q)
<1>1. /\ GcAt /\ GcSlot # NoSlot /\ CanAllocate(Reloc)
      /\ rec' = [rec EXCEPT ![q] = r]
      /\ table' = update_inplace(table, GcSlot, Hash[r.key], 1, q)
      /\ seg' = RelocInvalidated(Released(sg, q), g)
      /\ staged' = StagedAfter(Reloc)
      /\ gc' = [gc EXCEPT !.off = @ + 1]
      /\ cur' = [cur EXCEPT ![r.key] = IF @ = g THEN q ELSE @]
      /\ cl' = D /\ seg_alloc_nr' = seg_alloc_nr
  BY DEF GcRelocate
<1>2. /\ g \in Grains /\ g[1] = gc.seg /\ gc # NoGc /\ GcSlot \in Slots /\ Used(table[GcSlot])
      /\ table[GcSlot].pba = g /\ r.key \in Keys /\ g \in GrainsOf(table)
  BY <1>1, GcSlotIs
<1>3. /\ GoodTable(table, rec) /\ Apart(table, cl) /\ rec \in [Grains -> LogRec]
      /\ cl \in [Clients -> Call] /\ cur \in [Keys -> Grains \cup {NoPba}] /\ seg_alloc_nr \in Nat
  BY DEF KInv, Written
<1>4. gc.seg \in Segs /\ seg[gc.seg].state = "reloc"
  BY <1>2, GcParts
<1>5. Reloc \in Streams /\ r \in LogRec
  BY <1>2, <1>3, SegmentsAssumption DEF Reloc, Streams
<1>6. /\ KeepsLog(rec, seg, rec', sg)
      /\ Written(rec', sg)
      /\ GoodTable(table, rec')
      /\ WrittenAt(q, r.key, rec', sg)
      /\ SegInv(sg, staged', H \cup {q}, C \cup {q})
      /\ q \notin H /\ q \in Grains
      /\ \A x \in Segs : sg[x].state = seg[x].state
      /\ seg[q[1]].state = "alloc"
  <2> HIDE DEF r, q
  <2>1. q = NextGrain(Reloc)
    BY DEF q
  <2> QED
    BY <1>1, <1>2, <1>5, <2>1, LogWrite
<1> HIDE DEF g, r, q, C, H, sg, D
<1>7. g # q /\ g \in H /\ q \notin C /\ q \notin GrainsOf(table)
  BY <1>2, <1>6 DEF H
<1>8. GoodTable(table', rec') /\ GrainsOf(table') = (GrainsOf(table) \ {g}) \cup {q}
  <2>1. rec'[g] = r /\ rec'[q] = r
    BY <1>1, <1>2, <1>3, <1>6, <1>7 DEF r
  <2>2. rec'[table[GcSlot].pba].key = r.key /\ rec'[q].key = r.key
    BY <1>2, <2>1
  <2> DEFINE k == r.key
             rc == rec'
  <2>3. rc[table[GcSlot].pba].key = k /\ rc[q].key = k /\ GoodTable(table, rc)
        /\ table' = update_inplace(table, GcSlot, Hash[k], 1, q)
    BY <1>1, <1>6, <2>2
  <2> HIDE DEF k, rc
  <2>4. /\ GoodTable(update_inplace(table, GcSlot, Hash[k], 1, q), rc)
        /\ GrainsOf(update_inplace(table, GcSlot, Hash[k], 1, q)) = (GrainsOf(table) \ {table[GcSlot].pba}) \cup {q}
    BY <1>2, <1>6, <1>7, <2>3, TableUpdate
  <2> QED
    BY <1>2, <2>3, <2>4 DEF rc
<1>9. SegInv(seg', staged', (H \cup {q}) \ {g}, C) /\ Frame(seg', sg)
  <2>1. sg[g[1]].state = "reloc"
    BY <1>2, <1>4, <1>6
  <2> QED
    BY <1>1, <1>6, <1>7, <2>1, SegRelocate
<1>10. D \in [Clients -> Call] /\ \A d \in Clients : SameCall(cl[d], D[d])
  BY <1>3, <1>6, MovedCalls DEF D
<1>11. GrainsHeld(cl') = C /\ Apart(table, cl')
  <2>1. \A d \in Clients : D[d].grain = cl[d].grain
    BY <1>10 DEF SameCall
  <2>2. GrainsHeld(D) = GrainsHeld(cl) /\ Apart(table, D)
    BY <1>3, <2>1, HeldSame
  <2> QED
    BY <1>1, <2>2 DEF C
<1>12. (H \cup {q}) \ {g} = GrainsOf(table') \cup C
  BY <1>2, <1>3, <1>7, <1>8 DEF Apart, C, H
<1>13. SegInv(seg', staged', GrainsOf(table') \cup GrainsHeld(cl'), GrainsHeld(cl'))
  BY <1>9, <1>11, <1>12
<1>14. \A s \in Segs : seg'[s].nr3 = sg[s].nr3
  BY <1>9 DEF Frame
<1>15. Written(rec', seg')
  <2> DEFINE rc == rec'
  <2>1. Written(rc, sg)
    BY <1>6
  <2> HIDE DEF rc
  <2>2. Written(rc, seg')
    BY <1>14, <2>1, FrameWritten
  <2> QED
    BY <2>2 DEF rc
<1>16. KeepsLog(rec, seg, rec', seg')
  <2>1. \A x \in Grains : x[1] \in Segs
    BY GrainParts
  <2> QED
    BY <1>6, <1>14, <2>1 DEF KeepsLog
<1>17. ASSUME NEW d \in Clients PROVE CallOK(cl'[d], rec', seg')
  <2>1. CallOK(cl[d], rec, seg) /\ SameCall(cl[d], cl'[d])
    BY <1>1, <1>10 DEF KInv
  <2> QED
    BY <1>16, <2>1, CallKept
<1>18. Collecting(gc', seg', GrainsOf(table'))
  <2>1. seg'[gc.seg].state = "reloc"
    BY <1>4, <1>6, <1>9 DEF Frame
  <2>2. q[1] # gc.seg
    BY <1>4, <1>6
  <2>3. \A x \in GrainsOf(table') : (x \in GrainsOf(table) /\ x # GcGrain) \/ x[1] # gc.seg
    BY <1>8, <2>2 DEF g
  <2> QED
    BY <1>1, <2>1, <2>3, GcPasses
<1>19. Apart(table', cl')
  BY <1>7, <1>8, <1>11 DEF Apart
<1>20. cur' \in [Keys -> Grains \cup {NoPba}]
  BY <1>1, <1>2, <1>3, <1>6
<1> QED
  BY <1>1, <1>3, <1>8, <1>10, <1>13, <1>15, <1>17, <1>18, <1>19, <1>20 DEF KInv

\* Every step of the collector keeps the invariant.
LEMMA GcSteps ==
  ASSUME KInv, GcStep
  PROVE  KInv'
<1>1. ~GcPurge
  BY NotDeleted DEF GcPurge
<1> QED
  BY <1>1, GcSelectStep, GcSkipStep, GcRelocateStep, GcEvictStep, GcGiveBackStep, GcReleaseStep DEF GcStep

\* A segment is taken that no lookup remembers a grain of.
LEMMA TakeStep ==
  ASSUME KInv, NEW st \in Streams, NEW s \in Segs,
         \A c \in Clients : \A g \in Remembered(c) : g[1] # s,
         TakeSegment(st, s), UNCHANGED <<table, rec, cl, gc, cur>>
  PROVE  KInv'
<1> DEFINE C == GrainsHeld(cl)
           H == GrainsOf(table) \cup C
<1>1. SegInv(seg, staged, H, C) /\ Written(rec, seg) /\ Collecting(gc, seg, GrainsOf(table))
  BY DEF KInv
<1>2. /\ SegInv(seg', staged', H, C) /\ SameBut(seg', seg, s) /\ seg[s].state = "free"
      /\ seg'[s].nr3 = 0 /\ InSeg(H, s) = {}
  <2> HIDE DEF H, C
  <2> QED
    BY <1>1, SegTake
<1>3. seg_alloc_nr' \in Nat
  BY DEF KInv, TakeSegment
<1>4. \A x \in Segs : x # s => seg'[x] = seg[x]
  BY <1>2 DEF SameBut
<1>5. \A g \in Grains : g[1] \in Segs /\ g[2] \in Nat
  BY GrainParts
<1>6. Written(rec, seg')
  <2> SUFFICES ASSUME NEW g \in Grains, g[2] < seg'[g[1]].nr3 PROVE rec[g].key \in Keys
    BY <1>1 DEF Written
  <2>1. g[1] # s
    BY <1>2, <1>5
  <2> QED
    BY <1>1, <1>4, <1>5, <2>1 DEF Written
<1>7. Collecting(gc, seg', GrainsOf(table))
  <2>1. ASSUME gc # NoGc PROVE seg'[gc.seg].state = "reloc"
    <3>1. gc.seg \in Segs /\ seg[gc.seg].state = "reloc"
      BY <2>1, GcParts
    <3> QED
      BY <1>2, <1>4, <3>1
  <2> QED
    BY <1>1, <2>1 DEF Collecting
<1>8. ASSUME NEW c \in Clients PROVE CallOK(cl[c], rec, seg')
  <2>1. CallOK(cl[c], rec, seg)
    BY DEF KInv
  <2>2. cl[c].grain # NoPbaYet => WrittenAt(cl[c].grain, cl[c].key, rec, seg')
    <3> SUFFICES ASSUME cl[c].grain # NoPbaYet PROVE WrittenAt(cl[c].grain, cl[c].key, rec, seg')
      OBVIOUS
    <3>1. WrittenAt(cl[c].grain, cl[c].key, rec, seg)
      BY <2>1 DEF CallOK
    <3>2. cl[c].grain \in H
      BY DEF GrainsHeld
    <3>3. cl[c].grain[1] # s
      BY <1>2, <3>2 DEF InSeg
    <3> QED
      BY <1>4, <1>5, <3>1, <3>3 DEF WrittenAt
  <2>3. cl[c].pc \in {"read", "recheck"} => cl[c].cpy.pba[2] < seg'[cl[c].cpy.pba[1]].nr3
    <3> SUFFICES ASSUME cl[c].pc \in {"read", "recheck"}
                 PROVE  cl[c].cpy.pba[2] < seg'[cl[c].cpy.pba[1]].nr3
      OBVIOUS
    <3>1. cl[c].cpy.pba \in Grains /\ cl[c].cpy.pba[2] < seg[cl[c].cpy.pba[1]].nr3
      BY <2>1 DEF CallOK
    <3>2. cl[c].cpy.pba[1] # s
      BY DEF Remembered
    <3> QED
      BY <1>4, <1>5, <3>1, <3>2
  <2> QED
    BY <2>1, <2>2, <2>3 DEF CallOK
<1> QED
  BY <1>2, <1>3, <1>6, <1>7, <1>8 DEF KInv

\* A segment that gets its timestamp is staged with all of its grains valid.
LEMMA StampStep ==
  ASSUME KInv, NEW st \in Streams, StampSegment(st), UNCHANGED <<table, rec, cl, gc, cur>>
  PROVE  KInv'
<1> DEFINE C == GrainsHeld(cl)
           H == GrainsOf(table) \cup C
<1>1. SegInv(seg, staged, H, C) /\ seg_alloc_nr \in Nat /\ Collecting(gc, seg, GrainsOf(table))
  BY DEF KInv
<1>2. /\ SegInv(seg', staged', H, C)
      /\ \A x \in Segs : seg'[x].nr3 = seg[x].nr3 /\ (seg[x].state = "reloc" => seg'[x].state = "reloc")
  <2> HIDE DEF H, C
  <2> QED
    BY <1>1, SegStamp
<1>3. Collecting(gc, seg', GrainsOf(table))
  <2>1. gc # NoGc => gc.seg \in Segs
    BY GcParts
  <2> QED
    BY <1>1, <1>2, <2>1 DEF Collecting
<1>4. seg_alloc_nr' \in Nat
  BY <1>1 DEF StampSegment
<1> QED
  BY <1>2, <1>3, <1>4, SegsOnly

\* A segment that is destaged has no grain of a put, and is free if it has none
\* at all.
LEMMA DestageStep ==
  ASSUME KInv, NEW s \in Segs, Destage(s), UNCHANGED <<table, rec, cl, gc, cur>>
  PROVE  KInv'
<1> DEFINE C == GrainsHeld(cl)
           H == GrainsOf(table) \cup C
           q == IF seg[s].valid = 0 THEN "free" ELSE "gc"
<1>1. SegInv(seg, staged, H, C) /\ Collecting(gc, seg, GrainsOf(table))
  BY DEF KInv
<1>2. seg[s].state = "done" /\ seg' = [seg EXCEPT ![s].state = q] /\ UNCHANGED <<staged, seg_alloc_nr>>
  BY DEF Destage
<1>3. q = "free" => InSeg(H, s) = {}
  <2> SUFFICES ASSUME seg[s].valid = 0 PROVE InSeg(H, s) = {}
    OBVIOUS
  <2> HIDE DEF H, C
  <2>1. Cardinality(InSeg(H, s)) = 0
    BY <1>1, <1>2 DEF SegInv, SegOK
  <2> QED
    BY <1>1, <2>1, CountZero DEF SegInv, InSeg
<1>4. q \in {"gc", "reloc", "free"}
  OBVIOUS
<1> HIDE DEF q
<1>5. ASSUME SameBut(seg', seg, s) /\ seg'[s].state = q PROVE Collecting(gc', seg', GrainsOf(table))
  <2>1. gc # NoGc => gc.seg \in Segs /\ gc.seg # s
    BY <1>2, GcParts
  <2> QED
    BY <1>1, <1>5, <2>1 DEF Collecting, SameBut
<1> QED
  BY <1>2, <1>3, <1>4, <1>5, MoveStep

\* Every step of the allocator on its own keeps the invariant, unless it takes a
\* segment that a lookup remembers a grain of.
LEMMA SegmentSteps ==
  ASSUME KInv, SegmentStep, ~reused'
  PROVE  KInv'
<1>1. ASSUME NEW st \in Streams, NEW s \in Segs, TakeSegment(st, s),
             reused' = (reused \/ \E c \in Clients : \E g \in Remembered(c) : g[1] = s)
      PROVE  \A c \in Clients : \A g \in Remembered(c) : g[1] # s
  <2>1. ~\E c \in Clients : \E g \in Remembered(c) : g[1] = s
    BY <1>1, Zenon
  <2> QED
    BY <2>1, Zenon
<1> QED
  BY <1>1, TakeStep, StampStep, DestageStep DEF SegmentStep

\* What has happened stays remembered.
LEMMA ReusedStays ==
  ASSUME [Next]_vars, ~reused'
  PROVE  ~reused
<1>1. CASE UNCHANGED reused
  BY <1>1
<1>2. CASE SegmentStep
  BY <1>1, <1>2, Zenon DEF SegmentStep
<1> QED
  BY <1>1, <1>2, Zenon DEF Next, vars

-----------------------------------------------------------------------------
(* The theorems *)

\* Clients put, get and ask for keys; none deletes.
PutsOnly == DelKeys = {}

\* Without keys to delete no operation is a delete.
LEMMA NoDeletes ==
  ASSUME KInv, PutsOnly, NEW c \in Clients
  PROVE  ~DelStep(c)
<1>1. cl[c].op # "DEL" /\ cl[c].pc \notin {"tomb", "remove"}
  BY Ops DEF KInv, Call, Pcs
<1> QED
  BY <1>1 DEF DelStep, DelLookup, DelRecheck, DelTomb, DelRemove, PutsOnly

\* An empty table and free segments satisfy the invariant.
LEMMA InitKInv ==
  ASSUME Init
  PROVE  KInv
<1>1. Unused \in HashEntry /\ ~Used(Unused)
  BY HopscotchAssumption DEF Unused, HashEntry, Used, OffRange
<1>2. table \in [Slots -> HashEntry] /\ \A s \in Slots : ~Used(table[s])
  BY <1>1 DEF Init, EmptyTable
<1>3. GoodTable(table, rec) /\ GrainsOf(table) = {}
  BY <1>2 DEF GoodTable, GrainsOf, Tables
<1>4. cl \in [Clients -> Call] /\ \A c \in Clients : cl[c] = Idle
  BY IdleCall DEF Init
<1>5. Idle.grain = NoPbaYet
  BY DEF Idle
<1>6. \A c \in Clients : cl[c].grain = NoPbaYet
  BY <1>4, <1>5
<1>7. GrainsHeld(cl) = {} /\ Apart(table, cl)
  BY <1>3, <1>6 DEF GrainsHeld, Apart
<1>8. Written(rec, seg)
  <2>1. NoRec \in LogRec
    BY DEF NoRec, LogRec
  <2>2. \A g \in Grains : rec[g] = NoRec /\ seg[g[1]].nr3 = 0 /\ g[2] \in Nat
    BY GrainParts DEF Init, SegInit
  <2>3. rec \in [Grains -> LogRec]
    BY <2>1 DEF Init
  <2> QED
    BY <2>2, <2>3 DEF Written
<1>9. SegInv(seg, staged, {}, {})
  <2>1. seg \in [Segs -> SegRec] /\ \A s \in Segs : seg[s].state = "free"
    BY SegmentsAssumption DEF Init, SegInit, SegRec, SegStates
  <2>2. staged \in [Streams -> Segs \cup {NoSeg}] /\ \A st \in Streams : staged[st] = NoSeg
    BY DEF Init, SegInit
  <2>3. \A s \in Segs : InSeg({}, s) = {} /\ Rest(seg, staged, s) = 0
    BY <2>2, SegmentsAssumption DEF InSeg, Rest
  <2>4. Cardinality({}) = 0
    BY FS_EmptySet
  <2>5. \A s \in Segs : SegOK(seg[s], Cardinality(InSeg({}, s)), Cardinality(InSeg({}, s)), Rest(seg, staged, s))
    BY <2>1, <2>3, <2>4 DEF SegOK
  <2> QED
    BY <2>1, <2>2, <2>5 DEF SegInv, Staging
<1>10. Collecting(gc, seg, GrainsOf(table))
  BY DEF Init, Collecting
<1>11. \A c \in Clients : CallOK(cl[c], rec, seg)
  BY <1>4, IdleCall
<1>12. cur \in [Keys -> Grains \cup {NoPba}] /\ seg_alloc_nr \in Nat
  BY DEF Init, SegInit
<1>13. SegInv(seg, staged, GrainsOf(table) \cup GrainsHeld(cl), GrainsHeld(cl))
  BY <1>3, <1>7, <1>9
<1> QED
  BY <1>3, <1>4, <1>7, <1>8, <1>10, <1>11, <1>12, <1>13 DEF KInv

\* Every step of a store without deletes keeps the invariant, unless it takes a
\* segment that a lookup remembers a grain of.
LEMMA NextKInv ==
  ASSUME KInv, PutsOnly, [Next]_vars, ~reused'
  PROVE  KInv'
<1>1. CASE \E c \in Clients : PutStep(c)
  BY <1>1, PutSteps
<1>2. CASE \E c \in Clients : GetStep(c)
  BY <1>2, GetSteps
<1>3. CASE \E c \in Clients : HeaderRead(c)
  BY <1>3, HeaderReadStep
<1>4. CASE GcStep
  BY <1>4, GcSteps
<1>5. CASE SegmentStep
  BY <1>5, SegmentSteps
<1>6. CASE UNCHANGED vars
  BY <1>6 DEF vars, segVars, KInv
<1> QED
  BY <1>1, <1>2, <1>3, <1>4, <1>5, <1>6, NoDeletes DEF Next

\* A map that is one to one counts its values.
LEMMA OneToOne ==
  ASSUME NEW S, IsFiniteSet(S), NEW f, f = [x \in S |-> f[x]],
         \A x, y \in S : f[x] = f[y] => x = y
  PROVE  Cardinality({f[x] : x \in S}) = Cardinality(S)
<1> DEFINE T == {f[x] : x \in S}
<1>1. f \in [S -> T]
  OBVIOUS
<1>2. f \in Injection(S, T)
  BY <1>1 DEF Injection, IsInjective
<1>3. f \in Surjection(S, T)
  BY <1>1 DEF Surjection
<1>4. ExistsBijection(S, T)
  BY <1>2, <1>3 DEF ExistsBijection, Bijection
<1> QED
  BY <1>4, FS_Bijection

\* The entries that name a grain of a segment are as many as the grains.
LEMMA NamedCount ==
  ASSUME KInv, NEW s \in Segs
  PROVE  Cardinality(Named(s)) = Cardinality(InSeg(GrainsOf(table), s))
<1> DEFINE f == [e \in Named(s) |-> table[e].pba]
<1>1. IsFiniteSet(Named(s))
  <2>1. IsFiniteSet(Slots)
    BY HopscotchAssumption, FS_Interval DEF Slots, EntryNr
  <2> QED
    BY <2>1, FS_Subset DEF Named
<1>2. \A x, y \in Named(s) : f[x] = f[y] => x = y
  BY DEF Named, KInv, GoodTable
<1>3. {f[x] : x \in Named(s)} = InSeg(GrainsOf(table), s)
  BY DEF Named, InSeg, GrainsOf
<1>4. Cardinality({f[x] : x \in Named(s)}) = Cardinality(Named(s))
  <2>1. f = [x \in Named(s) |-> f[x]]
    OBVIOUS
  <2> HIDE DEF f
  <2> QED
    BY <1>1, <1>2, <2>1, OneToOne
<1> HIDE DEF f
<1> QED
  BY <1>3, <1>4

\* The puts that hold a grain of a segment are as many as the grains.
LEMMA UnmappedCount ==
  ASSUME KInv, NEW s \in Segs
  PROVE  Cardinality(Unmapped(s)) = Cardinality(InSeg(GrainsHeld(cl), s))
<1> DEFINE f == [c \in Unmapped(s) |-> cl[c].grain]
<1>1. IsFiniteSet(Unmapped(s))
  BY KVAssumption, FS_Subset DEF Unmapped
<1>2. NoPbaYet[1] # s
  BY SegmentsAssumption DEF NoPbaYet
<1>3. \A c \in Unmapped(s) : c \in Clients /\ cl[c].grain # NoPbaYet
  BY <1>2 DEF Unmapped
<1>4. \A x, y \in Unmapped(s) : f[x] = f[y] => x = y
  BY <1>3 DEF KInv, Apart
<1>5. {f[x] : x \in Unmapped(s)} = InSeg(GrainsHeld(cl), s)
  BY <1>3 DEF Unmapped, InSeg, GrainsHeld
<1>6. Cardinality({f[x] : x \in Unmapped(s)}) = Cardinality(Unmapped(s))
  <2>1. f = [x \in Unmapped(s) |-> f[x]]
    OBVIOUS
  <2> HIDE DEF f
  <2> QED
    BY <1>1, <1>4, <2>1, OneToOne
<1> HIDE DEF f
<1> QED
  BY <1>5, <1>6

\* What entries name is in segments that hold it.
LEMMA KInvNamed ==
  ASSUME KInv
  PROVE  NamedGrainsKept
<1> DEFINE C == GrainsHeld(cl)
           H == GrainsOf(table) \cup C
<1> SUFFICES ASSUME NEW e \in Slots, Used(table[e])
             PROVE  /\ seg[table[e].pba[1]].state \in {"alloc", "done", "gc", "reloc"}
                    /\ table[e].pba[2] < seg[table[e].pba[1]].nr3
  BY DEF NamedGrainsKept
<1> DEFINE g == table[e].pba
           s == g[1]
           h == Cardinality(InSeg(H, s))
           c == Cardinality(InSeg(C, s))
           r == Rest(seg, staged, s)
<1>1. SegInv(seg, staged, H, C)
  BY DEF KInv
<1>2. g \in H
  BY DEF GrainsOf
<1> HIDE DEF H, C, g
<1>3. g \in Grains /\ s \in Segs /\ g[2] < seg[s].nr3 /\ seg[s] \in SegRec
  BY <1>1, <1>2, GrainParts DEF SegInv
<1>4. h >= 1 /\ h \in Nat
  BY <1>1, <1>2, <1>3, CountMember, InSegFinite DEF SegInv
<1>5. SegOK(seg[s], h, c, r) /\ seg[s].state \in SegStates
  BY <1>1, <1>3 DEF SegInv, SegRec
<1> HIDE DEF h, c, r
<1>6. seg[s].state \in {"alloc", "done", "gc", "reloc"}
  BY <1>4, <1>5 DEF SegOK, SegStates
<1> QED
  BY <1>3, <1>6 DEF g

\* The valid counts are exact in every state of the invariant.
LEMMA KInvCounts ==
  ASSUME KInv
  PROVE  ValidCounts
<1> DEFINE T == GrainsOf(table)
           C == GrainsHeld(cl)
           H == T \cup C
<1> SUFFICES ASSUME NEW s \in Segs, seg[s].state \in {"alloc", "done", "gc", "reloc"}
             PROVE  seg[s].valid = Cardinality(Named(s)) + Cardinality(Unmapped(s)) + Rest(seg, staged, s)
  BY DEF ValidCounts, Rest
<1>1. SegInv(seg, staged, H, C) /\ T \cap C = {}
  BY DEF KInv, Apart
<1>2. T \subseteq Grains /\ C \subseteq Grains
  BY <1>1 DEF SegInv
<1>3. /\ Cardinality(Named(s)) = Cardinality(InSeg(T, s))
      /\ Cardinality(Unmapped(s)) = Cardinality(InSeg(C, s))
  BY NamedCount, UnmappedCount
<1> HIDE DEF T, C
<1>4. Cardinality(InSeg(H, s)) = Cardinality(InSeg(T, s)) + Cardinality(InSeg(C, s))
  <2>1. InSeg(H, s) = InSeg(T, s) \cup InSeg(C, s) /\ InSeg(T, s) \cap InSeg(C, s) = {}
    BY <1>1 DEF InSeg
  <2>2. IsFiniteSet(InSeg(T, s)) /\ IsFiniteSet(InSeg(C, s))
        /\ Cardinality(InSeg(T, s)) \in Nat /\ Cardinality(InSeg(C, s)) \in Nat
    BY <1>2, InSegFinite
  <2>3. Cardinality({}) = 0
    BY FS_EmptySet
  <2>4. Cardinality(InSeg(T, s) \cup InSeg(C, s)) =
          Cardinality(InSeg(T, s)) + Cardinality(InSeg(C, s)) - Cardinality(InSeg(T, s) \cap InSeg(C, s))
    BY <2>2, FS_Union
  <2>5. Cardinality(InSeg(T, s) \cap InSeg(C, s)) = 0
    BY <2>1, <2>3
  <2>6. Cardinality(InSeg(H, s)) = Cardinality(InSeg(T, s) \cup InSeg(C, s))
    BY <2>1
  <2> HIDE DEF H
  <2> QED
    BY <2>2, <2>4, <2>5, <2>6
<1>5. SegOK(seg[s], Cardinality(InSeg(H, s)), Cardinality(InSeg(C, s)), Rest(seg, staged, s))
  BY <1>1 DEF SegInv
<1>6. Cardinality(InSeg(H, s)) \in Nat /\ Rest(seg, staged, s) \in Nat
  <2> HIDE DEF H
  <2> QED
    BY <1>1, RestType
<1>7. seg[s].valid = Cardinality(InSeg(H, s)) + Rest(seg, staged, s)
  <2> DEFINE h == Cardinality(InSeg(H, s))
             c == Cardinality(InSeg(C, s))
             r == Rest(seg, staged, s)
  <2>1. SegOK(seg[s], h, c, r) /\ h \in Nat /\ r \in Nat
    BY <1>5, <1>6
  <2> HIDE DEF h, c, r
  <2>2. seg[s].valid = h + r
    BY <2>1 DEF SegOK
  <2> QED
    BY <2>2 DEF h, r
<1> QED
  BY <1>3, <1>4, <1>7

\* The table, the log, the puts under way, the segments' counts and the
\* collector's progress agree in every state of a store that only puts, gets,
\* relocates and evicts, until a segment is taken while a lookup remembers a
\* grain of it.
THEOREM StoreInvariant ==
  ASSUME PutsOnly
  PROVE  Spec => [](~reused => KInv)
<1>1. Init => (~reused => KInv)
  BY InitKInv
<1>2. (~reused => KInv) /\ [Next]_vars => (~reused => KInv)'
  BY NextKInv, ReusedStays
<1> QED
  BY <1>1, <1>2, PTL DEF Spec

\* No segment is freed or taken again under a record that an entry names,
\* whatever puts, shifts, relocations and evictions run meanwhile: the entry
\* leads to a grain handed out since its segment was taken.  The property, and
\* so the theorem, ends where a segment is taken that a lookup remembers.
THEOREM RecordsKept ==
  ASSUME PutsOnly
  PROVE  Spec => []NamedGrainsKept
<1>1. (~reused => KInv) => NamedGrainsKept
  BY KInvNamed DEF NamedGrainsKept
<1> QED
  BY <1>1, StoreInvariant, PTL

\* The allocator's count of the valid grains of a segment is that of the
\* entries that name one, of the puts that hold one and of the grains still to
\* be handed out.  The property, and so the theorem, ends where a segment is
\* taken that a lookup remembers.
THEOREM CountsExact ==
  ASSUME PutsOnly
  PROVE  Spec => []ValidCounts
<1>1. (~reused => KInv) => ValidCounts
  BY KInvCounts DEF ValidCounts
<1> QED
  BY <1>1, StoreInvariant, PTL
=============================================================================
