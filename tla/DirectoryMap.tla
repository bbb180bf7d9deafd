---------------------------- MODULE DirectoryMap ----------------------------
(***************************************************************************)
(* The directory of hash tables and the operations uDepotSalsa performs on *)
(* it, each in the critical section of the key's map lock: put, delete,    *)
(* the garbage collector's callback for one record, and grow(), which      *)
(* copies every table into two and runs with all other operations shut     *)
(* out (RwlockPagefault).  The log is a set of records: what lies at a     *)
(* grain until the collector frees it.                                     *)
(***************************************************************************)
EXTENDS HopscotchMap, FiniteSets

CONSTANTS
  Keys,
  Hash,         \* the hash of each key
  DelKeys,      \* the keys some client deletes
  PutOps,       \* the put variants clients use: "UPSERT", "CREATE", "REPLACE"
  MaxDir        \* bound: tables in the directory

ASSUME DirectoryAssumption ==
  /\ Hash \in [Keys -> Nat]
  /\ DelKeys \subseteq Keys
  /\ PutOps \subseteq {"UPSERT", "CREATE", "REPLACE"}
  /\ MaxDir \in Nat \ {0}

VARIABLES
  dir,          \* the tables, indexed from 0
  disk,         \* the record at each grain, or NoRec
  full,         \* a put met ENOSPC and has not called grow() yet
  newest        \* ghost: where the current version of each key lies, or NoPba

vars == <<dir, disk, full, newest>>

Records == [key : Keys, tomb : BOOLEAN]
NoRec == [key |-> NoPba, tomb |-> FALSE]

DirSize(d) == Cardinality(DOMAIN d)

\* The table index is the top bits of the key's fingerprint
hash_to_dir_idx(h, d) == hash_to_keyfp(h) \div ((HomesNr * TagsNr) \div DirSize(d))

Idx(k) == hash_to_dir_idx(Hash[k], dir)
TableOf(k) == dir[Idx(k)]

Init ==
  /\ dir = [i \in {0} |-> EmptyTable]
  /\ disk = [p \in Pbas |-> NoRec]
  /\ full = FALSE
  /\ newest = [k \in Keys |-> NoPba]

FreePbas == {p \in Pbas : disk[p] = NoRec}

\* The first slot offered whose record on disk has the key
FindKey(t, k) == MinOr({s \in offered(t, Hash[k]) : disk[t[s].pba].key = k})

\* Where lookup_mbuff_put() would insert k: the lookup's own candidate, or
\* the first free slot when other keys have the same fingerprint
InsertSlot(t, k) ==
  IF lookup(t, Hash[k])[1] = "0" THEN next_free(t, Hash[k]) ELSE lookup(t, Hash[k])[2]

-----------------------------------------------------------------------------

\* The record is written before the map is looked at, whatever comes of it
WriteRec(p, k, tomb) == disk' = [disk EXCEPT ![p] = [key |-> k, tomb |-> tomb]]

SetTable(k, t) == dir' = [dir EXCEPT ![Idx(k)] = t]

PutUpdate(k, op, p) ==
  LET t == TableOf(k)
      s == FindKey(t, k)
  IN /\ s # NoSlot
     /\ WriteRec(p, k, FALSE)
     /\ IF op = "CREATE"
          THEN UNCHANGED <<dir, newest>>
          ELSE /\ SetTable(k, update_inplace(t, s, Hash[k], 1, p))
               /\ newest' = [newest EXCEPT ![k] = p]
     /\ UNCHANGED full

PutInsert(k, op, p) ==
  LET t == TableOf(k)
      s == InsertSlot(t, k)
  IN /\ FindKey(t, k) = NoSlot
     /\ s # NoSlot
     /\ WriteRec(p, k, FALSE)
     /\ IF op = "REPLACE"
          THEN UNCHANGED <<dir, newest>>
          ELSE /\ SetTable(k, insert(t, s, Hash[k], 1, p))
               /\ newest' = [newest EXCEPT ![k] = p]
     /\ UNCHANGED full

\* A full bucket: shift, and only then see that REPLACE has nothing to replace.
\* When the shift fails the caller goes on to grow() and tries again.
PutShift(k, op, p) ==
  LET t == TableOf(k)
      r == try_shift(t, Hash[k])
  IN /\ FindKey(t, k) = NoSlot
     /\ InsertSlot(t, k) = NoSlot
     /\ WriteRec(p, k, FALSE)
     /\ IF r.rc = "0" /\ op # "REPLACE"
          THEN /\ SetTable(k, insert(r.table, r.free, Hash[k], 1, p))
               /\ newest' = [newest EXCEPT ![k] = p]
          ELSE SetTable(k, r.table) /\ UNCHANGED newest
     /\ full' = (full \/ r.rc # "0")

Put(k, op, p) == PutUpdate(k, op, p) \/ PutInsert(k, op, p) \/ PutShift(k, op, p)

Del(k, p) ==
  LET t == TableOf(k)
      s == FindKey(t, k)
  IN /\ s # NoSlot
     /\ WriteRec(p, k, TRUE)
     /\ SetTable(k, remove(t, s, p))
     /\ newest' = [newest EXCEPT ![k] = NoPba]
     /\ UNCHANGED full

-----------------------------------------------------------------------------
(* The garbage collector: local_gc_callback() for the record at grain p,    *)
(* after which the grain is free.                                           *)

GcDrop(p) ==
  LET k == disk[p].key
      t == TableOf(k)
      s == lookup_pba(t, Hash[k], p)
  IN /\ disk[p] # NoRec
     /\ s # NoSlot => Deleted(t[s])
     /\ SetTable(k, IF s = NoSlot THEN t ELSE purge(t, s))
     /\ disk' = [disk EXCEPT ![p] = NoRec]
     /\ UNCHANGED <<full, newest>>

GcRelocate(p, q) ==
  LET k == disk[p].key
      t == TableOf(k)
      s == lookup_pba(t, Hash[k], p)
  IN /\ disk[p] # NoRec
     /\ s # NoSlot /\ ~Deleted(t[s])
     /\ SetTable(k, update_inplace(t, s, Hash[k], 1, q))
     /\ disk' = [disk EXCEPT ![p] = NoRec, ![q] = disk[p]]
     /\ newest' = [newest EXCEPT ![k] = IF @ = p THEN q ELSE @]
     /\ UNCHANGED full

-----------------------------------------------------------------------------
(* grow(): copy the tables into a directory of twice the size *)

\* Copy entry e with fingerprint h into directory d.  rc is "EFAULT" when no
\* room can be made.
CopyEntry(d, h, e) ==
  LET i == hash_to_dir_idx(h, d)
      found == lookup(d[i], h)
      spare == next_free(d[i], h)
      r == try_shift(d[i], h)
      Placed(t, s) == [dir |-> [d EXCEPT ![i] = insert(t, s, h, e.kv_size, e.pba)], rc |-> "0"]
  IN CASE found[1] = "ENODATA" -> Placed(d[i], found[2])
       [] found[1] = "0" -> Placed(d[i], IF spare = NoSlot THEN found[2] ELSE spare)
       [] found[1] = "ENOSPC" /\ r.rc = "0" -> Placed(r.table, r.free)
       [] OTHER -> [dir |-> d, rc |-> "EFAULT"]

\* Defect: the slots of a table are copied from the last to the first
CopyDir_Backwards(old) ==
  LET Fresh == [dir |-> [i \in 0 .. 2 * DirSize(old) - 1 |-> EmptyTable], rc |-> "0"]
      copied[n \in 0 .. DirSize(old) * EntryNr] ==
        IF n = 0 THEN Fresh
        ELSE LET prev == copied[n - 1]
                 t == old[(n - 1) \div EntryNr]
                 s == EntryNr - 1 - ((n - 1) % EntryNr)
             IN IF prev.rc = "0" /\ Used(t[s])
                  THEN CopyEntry(prev.dir, entry_keyfp(t, s), t[s])
                  ELSE prev
  IN copied[DirSize(old) * EntryNr]

\* All used entries, tombstones too, table by table and slot by slot
CopyDir(old) ==
  LET Fresh == [dir |-> [i \in 0 .. 2 * DirSize(old) - 1 |-> EmptyTable], rc |-> "0"]
      copied[n \in 0 .. DirSize(old) * EntryNr] ==
        IF n = 0 THEN Fresh
        ELSE LET prev == copied[n - 1]
                 t == old[(n - 1) \div EntryNr]
                 s == (n - 1) % EntryNr
             IN IF prev.rc = "0" /\ Used(t[s])
                  THEN CopyEntry(prev.dir, entry_keyfp(t, s), t[s])
                  ELSE prev
  IN copied[DirSize(old) * EntryNr]

\* The old tables are protected and unmapped and the new directory is
\* published; a copy that failed is unmapped and the old tables are writable
\* again
Installed(new) == IF new.rc = "0" THEN new.dir ELSE dir

\* Segments for the new tables are allocated first: when there are none grow()
\* reports an error, and nothing the map sees has changed
Grow ==
  /\ full
  /\ DirSize(dir) < MaxDir
  /\ full' = FALSE
  /\ dir' = Installed(CopyDir(dir))
  /\ UNCHANGED <<disk, newest>>

-----------------------------------------------------------------------------

Puts(ks, ops) == \E k \in ks, op \in ops, p \in FreePbas : Put(k, op, p)
Deletes == \E k \in DelKeys, p \in FreePbas : Del(k, p)
Moves == \/ \E p \in Pbas : GcDrop(p) \/ \E q \in FreePbas : GcRelocate(p, q)
         \/ Grow
Next == Puts(Keys, PutOps) \/ Deletes \/ Moves

Spec == Init /\ [][Next]_vars

-----------------------------------------------------------------------------
(* Properties *)

\* Every variable has its type.
TypeOK ==
  /\ \E n \in 1 .. MaxDir : dir \in [0 .. n - 1 -> Tables]
  /\ disk \in [Pbas -> Records \cup {NoRec}]
  /\ full \in BOOLEAN
  /\ newest \in [Keys -> Pbas \cup {NoPba}]

\* A key that is in the map is found, and found at its current version, except
\* while a failed shift waits for grow().
LookupFindsNewest ==
  ~full => \A k \in Keys :
    LET s == FindKey(TableOf(k), k)
    IN IF s = NoSlot THEN newest[k] = NoPba ELSE newest[k] = TableOf(k)[s].pba

\* No key is lost: its current version has an entry where the collector's lookup
\* finds it.
CurrentHasEntry ==
  \A k \in Keys : newest[k] # NoPba =>
    LET s == lookup_pba(TableOf(k), Hash[k], newest[k])
    IN s # NoSlot /\ Live(TableOf(k)[s])

\* A live entry is in a bucket and under a tag that its key hashes to, so no
\* shift or copy has given it another key's place.
EntriesAtHome ==
  \A i \in DOMAIN dir : \A s \in Slots : Live(dir[i][s]) =>
    LET k == disk[dir[i][s].pba].key
    IN /\ k \in Keys
       /\ entry_keyfp(dir[i], s) = hash_to_keyfp(Hash[k])
       /\ i = Idx(k)
       /\ s \in Bucket(Hash[k])

\* Two live entries never name the same grain: it would be invalidated twice.
OneEntryPerGrain ==
  LET live == {x \in (DOMAIN dir) \X Slots : Live(dir[x[1]][x[2]])}
  IN Cardinality({dir[x[1]][x[2]].pba : x \in live}) = Cardinality(live)

\* No operation loses or doubles an entry: shifts half-done, grows, deletes and
\* relocations keep exactly one for every current version, in its own place.
\* Its scope is tables in which no displacement meets a tombstone: try_shift_one()
\* takes a deleted victim out of its own bucket, where the collector misses it.
LiveEntriesKept == CurrentHasEntry /\ EntriesAtHome /\ OneEntryPerGrain

\* The copy never runs out of room, so grow() cannot fail half-way: no live
\* entry is pushed behind the slot it had, and that slot is free when its turn
\* comes.  A tombstone is copied as well, but an entry whose fingerprint is
\* already in the new table takes the first slot that is free or deleted and so
\* may overwrite it: then grow() forgets the delete, though its own check (with
\* _UDEPOT_DATA_DEBUG_VERIFY) expects every used entry in the new tables.
GrowHasRoom ==
  full => LET new == CopyDir(dir)
              Kept(i, s) == \E j \in DOMAIN new.dir : \E u \in Slots :
                              u <= s /\ new.dir[j][u].pba = dir[i][s].pba
              Twins(i) == \E s, u \in Slots : /\ s # u /\ Live(dir[i][s]) /\ Used(dir[i][u])
                                              /\ entry_keyfp(dir[i], s) = entry_keyfp(dir[i], u)
          IN /\ new.rc = "0"
             /\ \A i \in DOMAIN dir : \A s \in Slots :
                  Used(dir[i][s]) => Kept(i, s) \/ (Deleted(dir[i][s]) /\ Twins(i))
=============================================================================
