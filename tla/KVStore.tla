------------------------------ MODULE KVStore ------------------------------
(***************************************************************************)
(* uDepotSalsa: clients that put, get and delete keys or ask whether they  *)
(* exist, and the garbage collector, which relocates the records it meets  *)
(* or, in the memcache runtimes, evicts them, over one hash table and the  *)
(* segments of the log.  The map                                           *)
(* lock of a key is dropped while a record is read from or written to the  *)
(* device; each action is what a client does in one critical section, or   *)
(* one device access between two of them.  The lock itself is not a        *)
(* variable: the table is one lock's range.  Every record takes one grain. *)
(***************************************************************************)
EXTENDS HopscotchMap, SalsaSegments

CONSTANTS
  Clients, Keys, NoKey,
  Hash,         \* the hash of each key
  PutOps,       \* the put variants used: "UPSERT", "CREATE", "REPLACE"
  PutKeys, GetKeys, DelKeys,  \* what clients put, get and delete
  Putters, Getters, Deleters,  \* which clients do so
  HighWm,       \* HIGH_WATERMARK: the collector runs below it
  Evicting      \* the runtimes: TRUE - one of memcache

ASSUME KVAssumption ==
  /\ IsFiniteSet(Clients)
  /\ Pbas = Grains
  /\ "ENOSPC" \notin Grains   \* a return code is not a place
  /\ Hash \in [Keys -> Nat]
  /\ NoKey \notin Keys
  /\ PutOps \subseteq {"UPSERT", "CREATE", "REPLACE"}
  /\ PutKeys \subseteq Keys /\ GetKeys \subseteq Keys /\ DelKeys \subseteq Keys
  /\ Putters \cup Getters \cup Deleters \subseteq Clients
  /\ HighWm \in Nat
  /\ Evicting \subseteq BOOLEAN

VARIABLES
  table,        \* the hash table
  rec,          \* the record at each grain
  cl,           \* the clients' operations in progress
  gc,           \* the segment under collection and the offset it has reached
  evicts,       \* the runtime is one of memcache
  cur,          \* ghost: where the version of each key lies that the last map
                \* update made current, or NoPba
  reused        \* ghost: some segment was taken while a lookup under way remembered
                \* a grain of it, which is no entry's any more

vars == <<table, rec, cl, gc, evicts, cur, reused, segVars>>

NoPbaYet == <<NoSeg, 0>>
\* A version of a key is identified by where its record lies; ts is the
\* timestamp in the record's header.
Records == [key : Keys \cup {NoKey}, ts : 0 .. MaxTs]
NoRec == [key |-> NoKey, ts |-> 0]

\* pc: "lock" - about to take the map lock for a lookup; "read" - reading the
\* record of the entry copied to cpy; "recheck" - about to take the lock again;
\* "tomb" - writing a tombstone; "remove" - about to take the lock to remove;
\* "drain", "write" - on the way to another attempt of a put; "done" - a get
\* that returns res; the rest are assertions that failed.
Idle == [op |-> "IDLE", pc |-> "idle", key |-> NoKey, grain |-> NoPbaYet,
         slot |-> NoSlot, cpy |-> Unused, md |-> NoRec, visited |-> {}, seen |-> {},
         res |-> NoPba]

GetOps == {"GET", "EXISTS"}

NoGc == [seg |-> NoSeg, off |-> 0]

Init ==
  /\ table = EmptyTable
  /\ rec = [g \in Grains |-> NoRec]
  /\ cl = [c \in Clients |-> Idle]
  /\ gc = NoGc
  /\ evicts \in Evicting
  /\ cur = [k \in Keys |-> NoPba]
  /\ reused = FALSE
  /\ SegInit

salsa_stream_get_id(k) == Hash[k] % StreamsNr

-----------------------------------------------------------------------------
(* Lookups *)

\* <<return code, slot>>; NoSlot when every slot offered has been visited.
\* The array of visited grains has room for a bucket's.
lookup_common(k, visited) ==
  LET r == lookup(table, Hash[k])
  IN IF r[1] # "0" THEN r
     ELSE IF Cardinality(visited) >= BucketSize THEN <<"assert_visited", NoSlot>>
     ELSE <<"0", MinOr({s \in offered(table, Hash[k]) : table[s].pba \notin visited})>>

\* One round of lookup_mbuff_put(): a slot whose record must be read ("0"), or
\* the slot to insert the key into
lookup_put(k, visited) ==
  LET r == lookup_common(k, visited)
      spare == next_free(table, Hash[k])
  IN IF r # <<"0", NoSlot>> THEN r
     ELSE <<IF spare = NoSlot THEN "ENOSPC" ELSE "ENODATA", spare>>

\* The header timestamp of the old record stands for its segment's
is_pba_order_equal_to_total_order(old_pba, new_pba, old_md) ==
  IF old_pba[1] # new_pba[1] THEN old_md.ts < seg[new_pba[1]].ts ELSE old_pba[2] < new_pba[2]

-----------------------------------------------------------------------------
(* Steps common to the operations *)

Goto(c, pc) == cl' = [cl EXCEPT ![c].pc = pc]
Done(c) == cl' = [cl EXCEPT ![c] = Idle]

\* Gets under way remember every version their key takes
Seen(clients, k, v) ==
  [c \in Clients |-> IF clients[c].op \in GetOps /\ clients[c].key = k
                       THEN [clients[c] EXCEPT !.seen = @ \cup {v}] ELSE clients[c]]

\* local_put_mbuff_io(): the record is in the log, in a grain of its own
WriteRecord(st, k) ==
  /\ CanAllocate(st)
  /\ LET g == NextGrain(st)
     IN /\ rec' = [rec EXCEPT ![g] = [key |-> k, ts |-> seg[g[1]].ts]]
        /\ seg' = Allocated(seg, g)
        /\ staged' = StagedAfter(st)
  /\ UNCHANGED seg_alloc_nr

\* Copy the entry in slot s, drop the lock and go and read its record
ReadEntry(c, s, visited) ==
  cl' = [cl EXCEPT ![c].pc = "read", ![c].slot = s, ![c].cpy = table[s],
                   ![c].visited = visited]

\* Defect: a matching fingerprint passes for a matching key
IsKey_Tag(c, r) == r.key # NoKey

\* A record that is read has the key or not
IsKey(c, r) == r.key = cl[c].key

\* Defect: the slot is taken for granted when the lock is held again
EntryAgain_Stale(c) == IF Used(table[cl[c].slot]) THEN cl[c].slot ELSE NoSlot

\* lookup_mbuff_put() with the lock held again: the entry has changed unless
\* the copy still equals it, and is then searched by its grain
EntryAgain(c) ==
  IF table[cl[c].slot] = cl[c].cpy THEN cl[c].slot
  ELSE lookup_pba(table, Hash[cl[c].key], cl[c].cpy.pba)

\* The lookup of c would go beyond the array of visited grains
VisitedOverflow(c) == Goto(c, "assert_visited") /\ UNCHANGED <<table, cur, segVars>>

-----------------------------------------------------------------------------
(* put() *)

PutStart(c, k, op) ==
  /\ cl[c].op = "IDLE"
  /\ WriteRecord(salsa_stream_get_id(k), k)
  /\ cl' = [cl EXCEPT ![c] = [Idle EXCEPT !.op = op, !.pc = "lock", !.key = k,
                                          !.grain = NextGrain(salsa_stream_get_id(k))]]
  /\ UNCHANGED <<table, gc, cur>>

\* set_mapping() of c's record into slot s of table t, and release_grains().
\* An entry that is replaced, a tombstone as well, gives up its grain.
PutSettle(c, t, s, update) ==
  LET k == cl[c].key
      g == cl[c].grain
      old == t[s]
  IN /\ table' = IF update THEN update_inplace(t, s, Hash[k], 1, g) ELSE insert(t, s, Hash[k], 1, g)
     /\ seg' = Released(IF Used(old) THEN Invalidated(seg, old.pba) ELSE seg, g)
     /\ cur' = [cur EXCEPT ![k] = g]
     /\ cl' = [Seen(cl, k, g) EXCEPT ![c] = Idle]
     /\ UNCHANGED <<staged, seg_alloc_nr>>

\* The put returns an error, and its grain is given up
PutReject(c, t) ==
  /\ table' = t
  /\ seg' = Released(Invalidated(seg, cl[c].grain), cl[c].grain)
  /\ Done(c)
  /\ UNCHANGED <<cur, staged, seg_alloc_nr>>

\* A round of the lookup, and the rest of local_put_mbuff() when the key is not
\* found.  A table that cannot be shifted cannot grow either (one table).
PutRound(c, visited) ==
  LET k == cl[c].key
      r == lookup_put(k, visited)
      sh == try_shift(table, Hash[k])
  IN \/ r[1] = "0" /\ ReadEntry(c, r[2], visited) /\ UNCHANGED <<table, cur, segVars>>
     \/ r[1] = "ENODATA" /\ cl[c].op # "REPLACE" /\ PutSettle(c, table, r[2], FALSE)
     \/ r[1] = "ENODATA" /\ cl[c].op = "REPLACE" /\ PutReject(c, table)
     \/ r[1] = "ENOSPC" /\ IF sh.rc = "0" /\ cl[c].op # "REPLACE"
                              THEN PutSettle(c, sh.table, sh.free, FALSE)
                              ELSE PutReject(c, sh.table)
     \/ r[1] = "assert_visited" /\ VisitedOverflow(c)

PutLookup(c) ==
  /\ cl[c].op \in PutOps /\ cl[c].pc = "lock"
  /\ PutRound(c, {})
  /\ UNCHANGED <<rec, gc>>

\* The header and the key of a record, for a put or a delete
HeaderRead(c) ==
  /\ cl[c].op \in PutOps \cup {"DEL"} /\ cl[c].pc = "read"
  /\ LET r == rec[cl[c].cpy.pba]
     IN cl' = [cl EXCEPT ![c].pc = "recheck", ![c].md = IF IsKey(c, r) THEN r ELSE NoRec]
  /\ UNCHANGED <<table, rec, gc, cur, segVars>>

\* The key was found: update it, unless the new record would come before the
\* old one in the total order
PutFound(c, s) ==
  IF cl[c].op = "CREATE" THEN PutReject(c, table)
  ELSE IF is_pba_order_equal_to_total_order(table[s].pba, cl[c].grain, cl[c].md)
    THEN PutSettle(c, table, s, TRUE)
    ELSE /\ cl' = [cl EXCEPT ![c].pc = "drain", ![c].cpy = table[s], ![c].slot = NoSlot,
                             ![c].md = NoRec, ![c].visited = {}]
         /\ UNCHANGED <<table, cur, segVars>>

PutRecheck(c) ==
  /\ cl[c].op \in PutOps /\ cl[c].pc = "recheck"
  /\ IF IsKey(c, cl[c].md) /\ EntryAgain(c) # NoSlot
       THEN PutFound(c, EntryAgain(c))
       ELSE PutRound(c, cl[c].visited \cup {cl[c].cpy.pba})
  /\ UNCHANGED <<rec, gc>>

\* EALREADY: give up the grain, and the rest of the stream's segment when the
\* newer record is in another one
PutDrain(c) ==
  LET st == salsa_stream_get_id(cl[c].key)
      g == cl[c].grain
      drain == cl[c].cpy.pba[1] # g[1]
  IN /\ cl[c].pc = "drain"
     /\ seg' = Released(Invalidated(IF drain THEN Drained(st) ELSE seg, g), g)
     /\ staged' = IF drain THEN StagedDrained(st) ELSE staged
     /\ cl' = [cl EXCEPT ![c].pc = "write", ![c].cpy = Unused, ![c].grain = NoPbaYet]
     /\ UNCHANGED <<table, rec, gc, cur, seg_alloc_nr>>

PutRewrite(c) ==
  LET st == salsa_stream_get_id(cl[c].key)
  IN /\ cl[c].pc = "write"
     /\ WriteRecord(st, cl[c].key)
     /\ cl' = [cl EXCEPT ![c].pc = "lock", ![c].grain = NextGrain(st)]
     /\ UNCHANGED <<table, gc, cur>>

-----------------------------------------------------------------------------
(* get() and exists() *)

ReadStart(c, k, op) ==
  /\ cl[c].op = "IDLE"
  /\ cl' = [cl EXCEPT ![c] = [Idle EXCEPT !.op = op, !.pc = "lock", !.key = k,
                                          !.seen = {cur[k]}]]
  /\ UNCHANGED <<table, rec, gc, cur, segVars>>

GetStart(c, k) == ReadStart(c, k, "GET")

\* The operation that local_op_execute() runs between rd_enter() and rd_exit()
ExistsStart(c, k) == ReadStart(c, k, "EXISTS")

GetResult(c, res) ==
  cl' = [cl EXCEPT ![c] = [Idle EXCEPT !.op = cl[c].op, !.pc = "done",
                                       !.seen = cl[c].seen, !.res = res]]

LookupRound(c) ==
  LET r == lookup_common(cl[c].key, cl[c].visited)
  IN \/ r[1] = "0" /\ r[2] # NoSlot /\ ReadEntry(c, r[2], cl[c].visited)
     \/ r[1] = "ENODATA" /\ GetResult(c, NoPba)
     \/ r = <<"0", NoSlot>> /\ GetResult(c, NoPba)
     \/ r[1] = "ENOSPC" /\ GetResult(c, "ENOSPC")
     \/ r[1] = "assert_visited" /\ Goto(c, "assert_visited")

\* update_visited_pba(), before the lock is taken again
NextRound(c) ==
  cl' = [cl EXCEPT ![c].pc = "lock", ![c].visited = @ \cup {cl[c].cpy.pba},
                   ![c].slot = NoSlot, ![c].cpy = Unused]

\* A round of lookup_mbuff(), whose error codes get() returns
GetLookup(c) ==
  /\ cl[c].op = "GET" /\ cl[c].pc = "lock"
  /\ LookupRound(c)
  /\ UNCHANGED <<table, rec, gc, cur, segVars>>

\* The whole record is read; its value is returned if it has the key, with no
\* other look at the table
GetRead(c) ==
  /\ cl[c].op = "GET" /\ cl[c].pc = "read"
  /\ IF IsKey(c, rec[cl[c].cpy.pba]) THEN GetResult(c, cl[c].cpy.pba) ELSE NextRound(c)
  /\ UNCHANGED <<table, rec, gc, cur, segVars>>

\* A round of lookup_exists()
ExistsLookup(c) ==
  /\ cl[c].op = "EXISTS" /\ cl[c].pc = "lock"
  /\ LookupRound(c)
  /\ UNCHANGED <<table, rec, gc, cur, segVars>>

\* The header and the key are read, and the size in the header is returned
ExistsRead(c) ==
  /\ cl[c].op = "EXISTS" /\ cl[c].pc = "read"
  /\ IF IsKey(c, rec[cl[c].cpy.pba]) THEN GetResult(c, cl[c].cpy.pba) ELSE NextRound(c)
  /\ UNCHANGED <<table, rec, gc, cur, segVars>>

GetReturn(c) ==
  /\ cl[c].pc = "done"
  /\ Done(c)
  /\ UNCHANGED <<table, rec, gc, cur, segVars>>

-----------------------------------------------------------------------------
(* del() *)

DelStart(c, k) ==
  /\ cl[c].op = "IDLE"
  /\ cl' = [cl EXCEPT ![c] = [Idle EXCEPT !.op = "DEL", !.pc = "lock", !.key = k]]
  /\ UNCHANGED <<table, rec, gc, cur, segVars>>

DelRound(c, visited) ==
  LET r == lookup_put(cl[c].key, visited)
  IN \/ r[1] = "0" /\ ReadEntry(c, r[2], visited) /\ UNCHANGED <<table, cur, segVars>>
     \/ r[1] \in {"ENODATA", "ENOSPC"} /\ Done(c) /\ UNCHANGED <<table, cur, segVars>>
     \/ r[1] = "assert_visited" /\ VisitedOverflow(c)

DelLookup(c) ==
  /\ cl[c].op = "DEL" /\ cl[c].pc = "lock"
  /\ DelRound(c, {})
  /\ UNCHANGED <<rec, gc>>

\* The slot found is kept while the lock is dropped to write the tombstone
DelRecheck(c) ==
  /\ cl[c].op = "DEL" /\ cl[c].pc = "recheck"
  /\ IF IsKey(c, cl[c].md) /\ EntryAgain(c) # NoSlot
       THEN /\ cl' = [cl EXCEPT ![c].pc = "tomb", ![c].slot = EntryAgain(c),
                                ![c].cpy = Unused, ![c].visited = {}]
            /\ UNCHANGED <<table, cur, segVars>>
       ELSE DelRound(c, cl[c].visited \cup {cl[c].cpy.pba})
  /\ UNCHANGED <<rec, gc>>

DelTomb(c) ==
  LET st == salsa_stream_get_id(cl[c].key)
  IN /\ cl[c].pc = "tomb"
     /\ WriteRecord(st, cl[c].key)
     /\ cl' = [cl EXCEPT ![c].pc = "remove", ![c].grain = NextGrain(st)]
     /\ UNCHANGED <<table, gc, cur>>

\* A tombstone that is out of order is written anew; its grain is neither
\* invalidated nor released
DelRemove(c) ==
  LET k == cl[c].key
      e == table[cl[c].slot]
      g == cl[c].grain
      ordered == is_pba_order_equal_to_total_order(e.pba, g, cl[c].md)
  IN /\ cl[c].pc = "remove"
     /\ \/ /\ Used(e) /\ ~ordered
           /\ cl' = [cl EXCEPT ![c] = [Idle EXCEPT !.op = "DEL", !.pc = "lock", !.key = k]]
           /\ UNCHANGED <<table, cur, segVars>>
        \/ /\ Live(e) /\ ordered
           /\ table' = remove(table, cl[c].slot, g)
           /\ seg' = Released(Invalidated(seg, e.pba), g)
           /\ cur' = [cur EXCEPT ![k] = NoPba]
           /\ cl' = [Seen(cl, k, NoPba) EXCEPT ![c] = Idle]
           /\ UNCHANGED <<staged, seg_alloc_nr>>
        \/ /\ ~Used(e) \/ (Deleted(e) /\ ordered)
           /\ Goto(c, "assert_remove")
           /\ UNCHANGED <<table, cur, segVars>>
     /\ UNCHANGED <<rec, gc>>

-----------------------------------------------------------------------------
(* The garbage collector *)

GcSelect(s) ==
  /\ gc = NoGc
  /\ Cardinality(FreeSegs) < HighWm
  /\ seg[s].state = "gc"
  /\ seg' = [seg EXCEPT ![s].state = "reloc"]
  /\ gc' = [seg |-> s, off |-> 0]
  /\ UNCHANGED <<table, rec, cl, cur, staged, seg_alloc_nr>>

\* The grain gc_callback() has reached, and the slot of the entry that names it
GcGrain == <<gc.seg, gc.off>>
GcSlot == IF rec[GcGrain] = NoRec THEN NoSlot
          ELSE lookup_pba(table, Hash[rec[GcGrain].key], GcGrain)

GcAt == gc # NoGc /\ gc.off < SegSize

\* No entry names the grain; a grain that was never written ends the segment
GcSkip ==
  /\ GcAt
  /\ GcSlot = NoSlot
  /\ gc' = [gc EXCEPT !.off = IF rec[GcGrain] = NoRec THEN SegSize ELSE @ + 1]
  /\ UNCHANGED <<table, rec, cl, cur, segVars>>

GcPurge ==
  /\ GcAt
  /\ GcSlot # NoSlot /\ Deleted(table[GcSlot])
  /\ table' = purge(table, GcSlot)
  /\ seg' = RelocInvalidated(seg, GcGrain)
  /\ gc' = [gc EXCEPT !.off = @ + 1]
  /\ UNCHANGED <<rec, cl, cur, staged, seg_alloc_nr>>

\* A version that is relocated is the same version to a get that has seen it
Moved(k, p, q) ==
  [c \in Clients |-> IF cl[c].op \in GetOps /\ cl[c].key = k /\ p \in cl[c].seen
                       THEN [cl[c] EXCEPT !.seen = @ \cup {q}] ELSE cl[c]]

\* The record is copied with its header, the old timestamp included
GcRelocate ==
  LET q == NextGrain(Reloc)
      r == rec[GcGrain]
  IN /\ GcAt /\ ~evicts
     /\ GcSlot # NoSlot /\ ~Deleted(table[GcSlot])
     /\ CanAllocate(Reloc)
     /\ rec' = [rec EXCEPT ![q] = r]
     /\ table' = update_inplace(table, GcSlot, Hash[r.key], 1, q)
     /\ seg' = RelocInvalidated(Released(Allocated(seg, q), q), GcGrain)
     /\ staged' = StagedAfter(Reloc)
     /\ gc' = [gc EXCEPT !.off = @ + 1]
     /\ cur' = [cur EXCEPT ![r.key] = IF @ = GcGrain THEN q ELSE @]
     /\ cl' = Moved(r.key, GcGrain, q)
     /\ UNCHANGED seg_alloc_nr

\* local_gc_callback_mc(): the entry is removed and purged at once
GcEvict ==
  LET k == rec[GcGrain].key
  IN /\ GcAt /\ evicts
     /\ GcSlot # NoSlot /\ ~Deleted(table[GcSlot])
     /\ table' = purge(remove(table, GcSlot, GcGrain), GcSlot)
     /\ seg' = RelocInvalidated(seg, GcGrain)
     /\ gc' = [gc EXCEPT !.off = @ + 1]
     /\ cur' = [cur EXCEPT ![k] = IF @ = GcGrain THEN NoPba ELSE @]
     /\ cl' = Seen(cl, k, NoPba)
     /\ UNCHANGED <<rec, staged, seg_alloc_nr>>

\* gc_callback_base() cannot read the record, or exit_gc_m is set: the segment
\* goes back to the collector's queues as far as it was collected
GcStop ==
  /\ GcAt
  /\ seg' = [seg EXCEPT ![gc.seg].state = "gc"]
  /\ gc' = NoGc
  /\ UNCHANGED <<table, rec, cl, cur, staged, seg_alloc_nr>>

\* No grain to relocate to, at once or in time: the segment goes back to the
\* collector's queues
GcFail ==
  /\ GcAt /\ ~evicts
  /\ GcSlot # NoSlot /\ ~Deleted(table[GcSlot])
  /\ ~CanAllocate(Reloc)
  /\ seg' = [seg EXCEPT ![gc.seg].state = "gc"]
  /\ gc' = NoGc
  /\ UNCHANGED <<table, rec, cl, cur, staged, seg_alloc_nr>>

GcRelease ==
  /\ gc # NoGc /\ gc.off = SegSize
  /\ seg' = [seg EXCEPT ![gc.seg].state = "free"]
  /\ gc' = NoGc
  /\ UNCHANGED <<table, rec, cl, cur, staged, seg_alloc_nr>>

-----------------------------------------------------------------------------

\* The grains a lookup under way has still to do with
Remembered(c) ==
  cl[c].visited \cup (IF cl[c].pc \in {"read", "recheck"} THEN {cl[c].cpy.pba} ELSE {})

\* Nothing keeps a segment from being freed and taken again during a lookup
\* that remembers a grain of it.
SegmentStep ==
  /\ \/ \E st \in Streams, s \in Segs :
          /\ st = Reloc => gc # NoGc
          /\ TakeSegment(st, s)
          /\ reused' = (reused \/ \E c \in Clients : \E g \in Remembered(c) : g[1] = s)
     \/ \E st \in Streams : StampSegment(st) /\ UNCHANGED reused
     \/ \E s \in Segs : Destage(s) /\ UNCHANGED reused
  /\ UNCHANGED <<table, rec, cl, gc, cur>>

PutStep(c) ==
  \/ c \in Putters /\ \E k \in PutKeys, op \in PutOps : PutStart(c, k, op)
  \/ PutLookup(c) \/ PutRecheck(c) \/ PutDrain(c) \/ PutRewrite(c)

GetStep(c) ==
  \/ c \in Getters /\ \E k \in GetKeys : GetStart(c, k)
  \/ c \in Getters /\ \E k \in GetKeys : ExistsStart(c, k)
  \/ GetLookup(c) \/ GetRead(c) \/ ExistsLookup(c) \/ ExistsRead(c) \/ GetReturn(c)

DelStep(c) ==
  \/ c \in Deleters /\ \E k \in DelKeys : DelStart(c, k)
  \/ DelLookup(c) \/ DelRecheck(c) \/ DelTomb(c) \/ DelRemove(c)

GcStep ==
  \/ \E s \in Segs : GcSelect(s)
  \/ GcSkip \/ GcPurge \/ GcRelocate \/ GcEvict \/ GcStop \/ GcFail \/ GcRelease

Next ==
  /\ \/ \E c \in Clients : (PutStep(c) \/ GetStep(c) \/ DelStep(c) \/ HeaderRead(c)) /\ UNCHANGED reused
     \/ GcStep /\ UNCHANGED reused
     \/ SegmentStep
  /\ UNCHANGED evicts

Spec == Init /\ [][Next]_vars

-----------------------------------------------------------------------------
(* Properties *)

Named(s) == {e \in Slots : Used(table[e]) /\ table[e].pba[1] = s}
Unmapped(s) == {c \in Clients : cl[c].grain[1] = s}
Entries(k) == {s \in Slots : Live(table[s]) /\ rec[table[s].pba].key = k}

\* Every variable has its type.
TypeOK ==
  /\ table \in Tables
  /\ rec \in [Grains -> Records]
  /\ seg \in [Segs -> Segment]
  /\ staged \in [Streams -> Segs \cup {NoSeg}]
  /\ seg_alloc_nr \in 0 .. MaxTs
  /\ gc \in [seg : Segs, off : 0 .. SegSize] \cup {NoGc}
  /\ cur \in [Keys -> Grains \cup {NoPba}]
  /\ \A c \in Clients :
       /\ cl[c].key \in Keys \cup {NoKey}
       /\ cl[c].grain \in Grains \cup {NoPbaYet}
       /\ cl[c].slot \in Slots \cup {NoSlot}
       /\ cl[c].visited \subseteq Grains
       /\ cl[c].seen \subseteq Grains \cup {NoPba}

\* As long as no lookup has met a segment taken anew: the table leads to the
\* value of the last put or delete that took effect, by one entry, whatever was
\* shifted, relocated or read meanwhile: concurrent puts of a key that is absent
\* do not both insert it.
MapHoldsCurrent ==
  ~reused =>
    \A k \in Keys : /\ Cardinality(Entries(k)) <= 1
                    /\ {table[s].pba : s \in Entries(k)} = {cur[k]} \ {NoPba}

\* As long as no lookup has met a segment taken anew: a get returns a value that
\* its key had at some time during the get, and reports a miss only if the key
\* was absent at some time during it.
GetReturnsCurrent ==
  ~reused =>
    \A c \in Clients : cl[c].pc = "done" =>
      (IF cl[c].res = "ENOSPC" THEN NoPba ELSE cl[c].res) \in cl[c].seen

\* As long as no lookup has met a segment taken anew: an entry names a grain
\* handed out since its segment was last taken; no segment is freed or reused
\* under a record the table needs.
NamedGrainsKept ==
  ~reused =>
    \A s \in Slots : Used(table[s]) =>
      LET g == table[s].pba
      IN seg[g[1]].state \in {"alloc", "done", "gc", "reloc"} /\ g[2] < seg[g[1]].nr3

\* As long as no lookup has met a segment taken anew, segment_valid_nr() counts
\* the grains entries name, those of puts under way and those not handed out;
\* too low a count frees the segment too early.
ValidCounts ==
  ~reused =>
    \A s \in Segs : seg[s].state \in {"alloc", "done", "gc", "reloc"} =>
      seg[s].valid = Cardinality(Named(s)) + Cardinality(Unmapped(s))
                     + (IF \E st \in Streams : staged[st] = s THEN SegSize - seg[s].nr3 ELSE 0)

\* A delete removes the entry of its own key: what it found before it dropped
\* the lock for the tombstone is still there.
RemoveMeetsItsKey ==
  \A c \in Clients : cl[c].pc = "remove" => cl[c].slot \in Entries(cl[c].key)
=============================================================================
