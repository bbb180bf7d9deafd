---------------------------- MODULE HopscotchMap ----------------------------
(***************************************************************************)
(* The hash table uDepotMap as operators on a table value.  A table maps   *)
(* every slot to a HashEntry; a key's entry lies in the bucket of          *)
(* BucketSize slots that begins at the key's home slot.  Every operator is *)
(* called with the map lock held, so each is one step of its caller.       *)
(***************************************************************************)
EXTENDS Integers, FiniteSetsExt

CONSTANTS
  HomesNr,      \* home slots, entry_nr_m - BUCKET_SIZE: a power of two
  BucketSize,   \* _UDEPOT_HOP_SCOTCH_BUCKET_SIZE
  MaxDisplace,  \* _UDEPOT_HOP_MAX_BUCKET_DISPLACE
  TagsNr,       \* 2 ^ UDEPOT_SALSA_KEYTAG_BITS
  MaxKvSize,    \* UDEPOT_SALSA_MAX_KV_SIZE
  Pbas,         \* the grains an entry can point to
  NoPba         \* UDEPOT_SALSA_UNUSED_PBA_ENTRY

ASSUME HopscotchAssumption ==
  /\ HomesNr \in Nat \ {0}
  /\ BucketSize \in Nat \ {0}
  /\ MaxDisplace \in Nat \ {0}
  /\ TagsNr \in Nat \ {0}
  /\ MaxKvSize \in Nat \ {0}
  /\ NoPba \notin Pbas

EntryNr == HomesNr + BucketSize
Slots == 0 .. EntryNr - 1
NoSlot == -1

\* bucket_offset has UDEPOT_SALSA_HOP_OFF_BITS = NUM_BITS(BUCKET_SIZE) bits
OffRange == 2 * BucketSize

HashEntry == [bucket_offset : 0 .. OffRange - 1, key_tag : 0 .. TagsNr - 1,
              kv_size : 0 .. MaxKvSize, pba : Pbas \cup {NoPba}]

\* an entry as purge() leaves it; what an unused entry holds is never read
Unused == [bucket_offset |-> 0, key_tag |-> 0, kv_size |-> MaxKvSize, pba |-> NoPba]

Tables == [Slots -> HashEntry]
EmptyTable == [s \in Slots |-> Unused]

Used(e) == e.pba # NoPba
Deleted(e) == e.kv_size = 0
Live(e) == Used(e) /\ ~Deleted(e)
Free(e) == ~Used(e) \/ Deleted(e)

-----------------------------------------------------------------------------
(* What the table reads off a hash *)

hash_to_hb(h) == h % HomesNr
hash_to_keytag(h) == (h \div HomesNr) % TagsNr
hash_to_keyfp(h) == h % (HomesNr * TagsNr)

\* The home slot is the entry's slot less its bucket offset
entry_keyfp(t, s) == t[s].key_tag * HomesNr + (s - t[s].bucket_offset)

Bucket(h) == hash_to_hb(h) .. hash_to_hb(h) + BucketSize - 1

Matches(t, h, S) == {s \in S : Live(t[s]) /\ entry_keyfp(t, s) = hash_to_keyfp(h)}

MinOr(S) == IF S = {} THEN NoSlot ELSE Min(S)

-----------------------------------------------------------------------------
(* Lookups: <<return code, slot>>, or a slot that may be NoSlot *)

\* The search for a match stops at the first unused slot; the candidate for
\* an insertion is that slot, or else the last deleted one.
lookup(t, h) ==
  LET holes == {s \in Bucket(h) : ~Used(t[s])}
      tombs == {s \in Bucket(h) : Used(t[s]) /\ Deleted(t[s])}
      found == Matches(t, h, {s \in Bucket(h) : \A o \in holes : s < o})
  IN CASE found # {} -> <<"0", Min(found)>>
       [] found = {} /\ holes # {} -> <<"ENODATA", Min(holes)>>
       [] found = {} /\ holes = {} /\ tombs # {} -> <<"ENODATA", Max(tombs)>>
       [] OTHER -> <<"ENOSPC", NoSlot>>

next_free(t, h) == MinOr({s \in Bucket(h) : Free(t[s])})

\* Defect: the search ends with the first match
offered_FirstOnly(t, h) ==
  LET first == lookup(t, h) IN IF first[1] = "0" THEN {first[2]} ELSE {}

\* The slots a search offers one after the other: the one lookup() finds,
\* then the ones next() finds behind it, which steps over unused slots
offered(t, h) ==
  LET first == lookup(t, h)
  IN IF first[1] = "0"
       THEN {first[2]} \cup Matches(t, h, {s \in Bucket(h) : s > first[2]})
       ELSE {}

lookup_pba(t, h, pba) == MinOr({s \in Bucket(h) : t[s].pba = pba})

-----------------------------------------------------------------------------
(* Updates: the new table *)

insert(t, s, h, kv_size, pba) ==
  [t EXCEPT ![s] = [bucket_offset |-> s - hash_to_hb(h), key_tag |-> hash_to_keytag(h),
                    kv_size |-> Min({kv_size, MaxKvSize}), pba |-> pba]]

update_inplace(t, s, h, kv_size, pba) ==
  [t EXCEPT ![s].key_tag = hash_to_keytag(h),
            ![s].kv_size = Min({kv_size, MaxKvSize}),
            ![s].pba = pba]

remove(t, s, pba) == [t EXCEPT ![s].pba = pba, ![s].kv_size = 0]

purge(t, s) == [t EXCEPT ![s] = Unused]

-----------------------------------------------------------------------------
(* Making room in a full bucket *)

\* Defect: the offset of the entry that moves is not adjusted
try_shift_one_SameOffset(t, c, v) == [t EXCEPT ![v] = t[c], ![c] = t[v]]

\* Swap the entry in slot c with the free slot v of its own bucket.  A
\* tombstone that comes back to c is given the home slot that its offset
\* names at c, not the one it had at v.
try_shift_one(t, c, v) ==
  LET home(s) == entry_keyfp(t, s) % HomesNr
      back == (c - t[v].bucket_offset) % HomesNr
  IN [t EXCEPT
       ![v] = [t[c] EXCEPT !.bucket_offset = v - home(c)],
       ![c] = IF Used(t[v]) THEN [t[v] EXCEPT !.bucket_offset = (c - back) % OffRange]
                            ELSE t[v]]

\* The slots whose entry has a free slot in its own bucket
Shiftable(t, S) == {s \in S : next_free(t, entry_keyfp(t, s)) # NoSlot}

\* Move the free slot one hop towards the bucket that begins at first; the
\* lowest shiftable slot within a bucket's reach of it is taken.
Hop(st, first) ==
  LET near == {p \in st.free - BucketSize + 1 .. st.free - 1 : p >= first}
      can == Shiftable(st.table, near)
      c == Min(can)
  IN IF can = {}
       THEN [st EXCEPT !.rc = "ENOSPC"]
       ELSE [table |-> try_shift_one(st.table, c, next_free(st.table, entry_keyfp(st.table, c))),
             free |-> c,
             rc |-> IF c - first < BucketSize THEN "0" ELSE "going"]

\* The result [table, free, rc]: with rc "0" the slot free is free for h.
\* A displacement that gets stuck half-way keeps the hops it has made.
try_shift(t, h) ==
  LET first == hash_to_hb(h)
      last == Min({first + BucketSize * MaxDisplace, HomesNr - 1})
      room == {p \in first + BucketSize .. last - 1 : Free(t[p])}
      hops[n \in 0 .. EntryNr] ==
        IF n = 0 THEN [table |-> t, free |-> Min(room), rc |-> "going"]
        ELSE LET st == hops[n - 1] IN IF st.rc = "going" THEN Hop(st, first) ELSE st
  IN IF room = {} THEN [table |-> t, free |-> NoSlot, rc |-> "ENOSPC"]
                  ELSE hops[EntryNr]
=============================================================================
