------------------------------ MODULE Recovery ------------------------------
(***************************************************************************)
(* What a store keeps on its device, and how it comes back: after a clean  *)
(* shutdown from the tables of its directory, after a crash from the data  *)
(* log.  Durable are the device metadata, the metadata of each segment,    *)
(* the records of the data segments and the tables of the directory        *)
(* segments with their headers and footers; everything else is lost when   *)
(* the process dies, which may happen between any two steps.               *)
(*                                                                         *)
(* A record or a table write is one step: the device is one that keeps     *)
(* what it acknowledged.  The slots of a table are abstracted to the set   *)
(* of its entries (HopscotchMap places them).                              *)
(***************************************************************************)
EXTENDS Integers, FiniteSets, Sequences, FiniteSetsExt, Functions

CONSTANTS
  Keys,
  SegNr,        \* segments, in address order
  SegSize,      \* data grains of a segment
  Threads,
  Hash,         \* table of each key when there are two
  Confs,        \* the ways the store is used, one of which is chosen; with it
                \* a bound on the times the store is opened
  MaxVal,       \* bound: operations started
  MaxTs         \* bound: data segments taken

ASSUME RecoveryAssumption ==
  /\ IsFiniteSet(Keys)
  /\ Hash \in [Keys -> 1 .. 2]
  /\ {SegNr, SegSize, MaxVal, MaxTs} \subseteq Nat \ {0}

Segs == 1 .. SegNr
Offs == 0 .. SegSize - 1
None == 0      \* no segment, and no key

VARIABLES
  conf,
  dev,          \* durable: seed in the device metadata, 0 when not valid
  smd,          \* durable: segment metadata
  recs,         \* durable: records of the data segments
  dimg,         \* durable: header, footer and entries of the directory segments
  mode,         \* what the process is doing
  seed,         \* seed_m
  map,          \* entries of the directory
  dir,          \* segment of each table of the directory
  synced,       \* tables that have their footer, during a shutdown
  segst,        \* owner of each segment
  valid,        \* valid grains of each segment
  open,         \* per stream, the staged segment and its next grain
  unstamped,    \* streams whose segment has not got its metadata
  seg_alloc_nr,
  op,           \* per thread, the operation under way
  vals,         \* values used so far (bound)
  starts,       \* times the store was opened (bound)
  may,          \* per key, what a caller may find: the acknowledged value and
                \* the values of operations cut off by a crash
  forgotten,    \* history: deleted keys whose tombstone was given up
  torn          \* history: the process died with a part of the footers on disk

durable == <<dev, smd, recs, dimg>>
volatile == <<mode, seed, map, dir, synced, segst, valid, open, unstamped, seg_alloc_nr, op>>
history == <<forgotten, torn>>
vars == <<conf, durable, volatile, vals, starts, may, history>>

User == "user"
Reloc == "reloc"
Streams == {User, Reloc}
Closed == [seg |-> None, nr |-> 0]
NoMd == [type |-> "none", seed |-> 0, ts |-> 0]
NoRec == [key |-> None, val |-> 0, ts |-> 0, crc |-> <<0, 0>>]
NoTag == [size |-> 0, idx |-> 0, seed |-> 0]
NoImg == [hdr |-> NoTag, ftr |-> NoTag, ents |-> {}]
Idle == [what |-> "idle"]

RecInit ==
  /\ conf \in Confs
  /\ dev = 0
  /\ smd = [s \in Segs |-> NoMd]
  /\ recs = [s \in Segs |-> [o \in Offs |-> NoRec]]
  /\ dimg = [s \in Segs |-> NoImg]
  /\ mode = "down"
  /\ seed = 0
  /\ map = {}
  /\ dir = <<>>
  /\ synced = {}
  /\ segst = [s \in Segs |-> "free"]
  /\ valid = [s \in Segs |-> 0]
  /\ open = [st \in Streams |-> Closed]
  /\ unstamped = {}
  /\ seg_alloc_nr = 0
  /\ op = [t \in Threads |-> Idle]
  /\ vals = 0
  /\ starts = 0
  /\ may = [k \in Keys |-> {0}]
  /\ forgotten = {}
  /\ torn = FALSE

-----------------------------------------------------------------------------
(* Segments and entries                                                    *)

Free == {s \in Segs : segst[s] = "free"}
Rec(g) == recs[g[1]][g[2]]
Live(m) == {e \in m : ~ e.del}
EntryOf(m, k) == {e \in Live(m) : e.key = k}

\* The value a get of k finds: a tombstone is a record without a value
Value(m, k) == IF EntryOf(m, k) = {} THEN 0 ELSE Rec((CHOOSE e \in EntryOf(m, k) : TRUE).pba).val

\* The checksum of the device metadata agrees
validate_dev_md == dev # 0

persist_seg_md(md, s, type, ts) == [md EXCEPT ![s] = [type |-> type, seed |-> seed, ts |-> ts]]

\* Type, checksum and seed of the segment metadata agree
validate_seg_md(s, type) == smd[s].type = type /\ smd[s].seed = seed

\* gc_page_invalidate(), end of destage: a segment that is not staged is free
\* when no grain of it is valid
Settled(v, ow, op_) ==
  [s \in Segs |-> IF ow[s] = "data" /\ v[s] <= 0 /\ \A st \in Streams : op_[st].seg # s
                  THEN "free" ELSE ow[s]]

Invalidated(v, gs) == [s \in Segs |-> v[s] - Cardinality({g \in gs : g[1] = s})]

is_pba_order_equal_to_total_order(old, new) ==
  IF old[1] # new[1] THEN Rec(old).ts < smd[new[1]].ts ELSE old[2] < new[2]

\* Defect: the counter starts over
seg_alloc_after_zero == 0

\* restore_seg_alloc_nr() with the newest segment of the log
seg_alloc_after == Max({0} \cup {smd[s].ts : s \in {x \in Segs : validate_seg_md(x, "data")}})

-----------------------------------------------------------------------------
(* Opening the store                                                       *)

\* The seconds of the monotonic clock, taken to be a number that no store had
default_seed == starts + 1

\* register_local_region(), and init_local() as far as the device metadata:
\* a valid one is taken over unless the caller asks for a new store
Open ==
  /\ mode = "down"
  /\ starts < conf.starts
  /\ starts' = starts + 1
  /\ \E destroy \in {FALSE} \cup {conf.destroy} :
       IF validate_dev_md /\ ~ destroy
       THEN /\ seed' = dev
            /\ mode' = "restore"
            /\ UNCHANGED may
       ELSE /\ seed' = default_seed
            /\ mode' = "create"
            /\ may' = [k \in Keys |-> 0 .. MaxVal]
  /\ segst' = [s \in Segs |-> "free"]
  /\ valid' = [s \in Segs |-> 0]
  /\ seg_alloc_nr' = 0
  /\ UNCHANGED <<conf, durable, map, dir, synced, open, unstamped, op, vals, history>>

\* The free segments of lowest address
FirstOf(S, n) == [i \in 1 .. n |-> CHOOSE s \in S : Cardinality({x \in S : x < s}) = i - 1]

\* grow(): the tables take a segment each, with metadata of the directory's
\* type; the old ones are given up.  The footers are left as they are
Grown(ss, image, st, md) ==
  /\ dir' = ss
  /\ segst' = [s \in Segs |-> IF s \in Range(ss) THEN "dir" ELSE
                              IF st[s] = "dir" THEN "free" ELSE st[s]]
  /\ smd' = [s \in Segs |-> IF s \in Range(ss)
                            THEN persist_seg_md(md, s, "dir", Len(dir))[s] ELSE md[s]]
  /\ recs' = [s \in Segs |-> IF s \in Range(ss) THEN [o \in Offs |-> NoRec] ELSE recs[s]]
  /\ dimg' = [s \in Segs |-> IF s \in Range(ss)
                THEN [hdr |-> [size |-> Len(ss), idx |-> CHOOSE i \in DOMAIN ss : ss[i] = s,
                               seed |-> seed],
                      ftr |-> image[s].ftr, ents |-> {}]
                ELSE image[s]]

grow ==
  /\ mode \in {"create", "up"}
  /\ mode = "up" => conf.tables = 2 /\ Len(dir) = 1 /\ \A t \in Threads : op[t] = Idle
  /\ LET n == IF dir = <<>> THEN 1 ELSE 2 * Len(dir) IN
     /\ n <= Cardinality(Free)
     /\ Grown(FirstOf(Free, n), dimg, segst, smd)
  /\ mode' = IF mode = "create" THEN "persist" ELSE "up"
  /\ UNCHANGED <<conf, dev, seed, synced, map, valid, open, unstamped, seg_alloc_nr, op,
                 vals, starts, may, history>>

\* The device metadata is written when all the rest has succeeded
persist_dev_md ==
  /\ mode = "persist"
  /\ dev' = seed
  /\ mode' = "up"
  /\ may' = [k \in Keys |-> {0}]
  /\ forgotten' = {} /\ torn' = FALSE
  /\ UNCHANGED <<conf, smd, recs, dimg, seed, synced, map, dir, segst, valid, open,
                 unstamped, seg_alloc_nr, op, vals, starts>>

-----------------------------------------------------------------------------
(* After a clean shutdown                                                  *)

Tables == {s \in Segs : /\ validate_seg_md(s, "dir")
                        /\ dimg[s].hdr.seed = seed /\ dimg[s].ftr.seed = seed}

\* Those of the largest directory found
Group == {s \in Tables : \A x \in Tables : dimg[x].hdr.size <= dimg[s].hdr.size}

\* A table that was not found is left out of the directory
RestoredDir ==
  [i \in 1 .. Cardinality(Group) |->
     LET at == {s \in Group : dimg[s].hdr.idx = i} IN IF at = {} THEN None ELSE Max(at)]

\* The valid grains of each segment: a deleted entry has a size of zero
RestoredCounts(m) == [s \in Segs |-> Cardinality({e \in Live(m) : e.pba[1] = s})]

\* Scm::restore_grain_range(): a segment with valid grains is not free
restore_grain_range(v, owner) ==
  [s \in Segs |-> IF owner[s] = "free" /\ v[s] > 0 THEN "data" ELSE owner[s]]

\* restore(): the directory and the map, without a look at how many tables it
\* had.  An index beyond the tables found writes past the vector
restore ==
  /\ mode = "restore"
  /\ Group # {}
  /\ IF \E s \in Group : dimg[s].hdr.idx > Cardinality(Group)
     THEN mode' = "undefined" /\ UNCHANGED <<map, dir, segst, valid, seg_alloc_nr>>
     ELSE /\ map' = UNION {dimg[s].ents : s \in Group}
          /\ dir' = RestoredDir
          /\ valid' = RestoredCounts(map')
          /\ segst' = restore_grain_range(valid',
                        [s \in Segs |-> IF s \in Group THEN "dir" ELSE "free"])
          /\ seg_alloc_nr' = seg_alloc_after
          /\ mode' = "invalidate"
  /\ UNCHANGED <<conf, durable, seed, synced, open, unstamped, op, vals, starts, may,
                 history>>

\* invalidate_ftr(): one table after the other
invalidate_ftr ==
  /\ mode = "invalidate"
  /\ LET left == {i \in DOMAIN dir : dir[i] # None /\ dimg[dir[i]].ftr # NoTag} IN
     IF left = {} THEN mode' = "up" /\ UNCHANGED dimg
     ELSE dimg' = [dimg EXCEPT ![dir[Min(left)]].ftr = NoTag] /\ UNCHANGED mode
  /\ UNCHANGED <<conf, dev, smd, recs, seed, synced, map, dir, segst, valid, open,
                 unstamped, seg_alloc_nr, op, vals, starts, may, history>>

TableIdx(k) == IF Len(dir) = 1 THEN 1 ELSE Hash[k]

\* uDepotSalsa::shutdown() and uDepotDirectoryMap::shutdown(): the server and
\* the collector have stopped; the tables get their footers one by one
shutdown ==
  /\ conf.clean
  /\ \/ mode = "up" /\ unstamped = {} /\ \A t \in Threads : op[t] = Idle
     \/ mode = "stop"
  /\ LET left == DOMAIN dir \ synced IN
     IF left = {}
     THEN /\ mode' = "down"
          /\ map' = {} /\ dir' = <<>> /\ synced' = {}
          /\ open' = [st \in Streams |-> Closed]
          /\ UNCHANGED dimg
     ELSE LET i == Min(left) IN
          /\ dimg' = [dimg EXCEPT ![dir[i]].ftr = [size |-> Len(dir), idx |-> i, seed |-> seed],
                                  ![dir[i]].ents = {e \in map : TableIdx(e.key) = i}]
          /\ mode' = "stop"
          /\ synced' = synced \cup {i}
          /\ UNCHANGED <<map, dir, open>>
  /\ UNCHANGED <<conf, dev, smd, recs, seed, segst, valid, unstamped, seg_alloc_nr, op,
                 vals, starts, may, history>>

-----------------------------------------------------------------------------
(* After a crash                                                           *)

Log == {s \in Segs : validate_seg_md(s, "data")}

\* prep_crash_recovery(): every segment of the log is taken whole, and a new
\* directory of one table put in one of the others
prep_crash_recovery ==
  /\ mode = "restore"
  /\ Group = {}
  /\ IF Log = {} \/ Log = Segs
     THEN mode' = "failed" /\ UNCHANGED <<smd, recs, dimg, dir, segst>>
     ELSE   /\ Grown(FirstOf(Segs \ Log, 1), dimg, [x \in Segs |-> IF x \in Log THEN "data" ELSE "free"], smd)
            /\ mode' = "scan"
  /\ UNCHANGED <<conf, dev, seed, synced, map, valid, open, unstamped, seg_alloc_nr, op,
                 vals, starts, may, history>>

\* The scan of a segment goes on while the checksum agrees, which is seeded
\* with the timestamp of the segment
Scannable(g) ==
  \A o \in 0 .. g[2] : recs[g[1]][o] # NoRec /\ recs[g[1]][o].crc = <<seed, smd[g[1]].ts>>


\* try_restore_entry(): of two records of a key the one that comes later in
\* the total order stays
try_restore_entry(at, g) ==
  LET old == at[Rec(g).key] IN
  IF old = <<>> \/ is_pba_order_equal_to_total_order(old, g)
  THEN [at EXCEPT ![Rec(g).key] = g] ELSE at

\* The grain that is left for each key when the log has been scanned in
\* address order
Scanned ==
  LET grain(i) == <<1 + ((i - 1) \div SegSize), (i - 1) % SegSize>>
      at[i \in 0 .. SegNr * SegSize] ==
        IF i = 0 THEN [k \in Keys |-> <<>>]
        ELSE IF grain(i)[1] \in Log /\ Scannable(grain(i))
             THEN try_restore_entry(at[i - 1], grain(i)) ELSE at[i - 1]
  IN  at[SegNr * SegSize]

\* The entries of those grains.  A tombstone is taken off the counts of the
\* store, by kv_remove_restored_tombstone(), and stays in the map
RestoredLog ==
  {[key |-> k, pba |-> Scanned[k], del |-> FALSE] : k \in {x \in Keys : Scanned[x] # <<>>}}

\* crash_recovery(): a segment without any record fails it
crash_recovery ==
  /\ mode = "scan"
  /\ IF \E s \in Log : ~ Scannable(<<s, 0>>)
     THEN mode' = "failed" /\ UNCHANGED <<map, valid, segst, seg_alloc_nr>>
     ELSE /\ map' = RestoredLog
          /\ valid' = RestoredCounts(map')
          /\ segst' = Settled(valid', segst, open)
          /\ seg_alloc_nr' = seg_alloc_after
          /\ mode' = "up"
  /\ UNCHANGED <<conf, durable, seed, synced, dir, open, unstamped, op, vals, starts,
                 may, history>>

\* Some tables of the directory have their footers and some do not
Signed == {i \in DOMAIN dir : dir[i] # None /\ dimg[dir[i]].ftr.seed = seed}
Torn == mode \in {"stop", "invalidate"} /\ Signed # {} /\ Signed # DOMAIN dir

\* The process dies: what it had in memory is gone.  Of an operation that was
\* under way the caller knows nothing
crash ==
  /\ conf.crash
  /\ mode \notin {"down", "failed", "undefined"}
  /\ mode' = "down"
  /\ map' = {}
  /\ dir' = <<>>
  /\ synced' = {}
  /\ open' = [st \in Streams |-> Closed]
  /\ may' = [k \in Keys |-> may[k] \cup {op[t].val : t \in {x \in Threads :
                                              op[x] # Idle /\ op[x].key = k}}]
  /\ op' = [t \in Threads |-> Idle]
  /\ unstamped' = {}
  /\ torn' = (torn \/ Torn)
  /\ UNCHANGED <<conf, durable, seed, segst, valid, seg_alloc_nr, vals, starts, forgotten>>

-----------------------------------------------------------------------------
(* The store in use                                                        *)

\* allocator_allocate_segment(), as far as seg_md_callback(), which counts the
\* segment.  A full segment leaves the stream
TakeSegment(st) ==
  /\ mode = "up"
  /\ open[st].seg = None \/ open[st].nr = SegSize
  /\ IF st = User THEN \E t \in Threads : op[t] # Idle /\ op[t].what = "alloc"
                  ELSE conf.gc
  /\ seg_alloc_nr < MaxTs
  /\ seg_alloc_nr' = seg_alloc_nr + 1
  /\ unstamped' = unstamped \cup {st}
  /\ \E s \in Free :
       /\ valid' = [valid EXCEPT ![s] = SegSize]
       /\ open' = [open EXCEPT ![st] = [seg |-> s, nr |-> 0]]
       /\ segst' = Settled(valid', [segst EXCEPT ![s] = "data"], open')
  /\ UNCHANGED <<conf, durable, mode, seed, synced, map, dir, op, vals, starts, may,
                 history>>

\* uDepotSalsa::seg_md_callback(): the timestamp is the count as it is now,
\* which another stream may have moved on.  The metadata of a segment is
\* written before the segment is staged
seg_md_callback(st) ==
  /\ mode = "up"
  /\ st \in unstamped
  /\ unstamped' = unstamped \ {st}
  /\ smd' = persist_seg_md(smd, open[st].seg, "data", seg_alloc_nr)
  /\ UNCHANGED <<conf, dev, recs, dimg, mode, seed, synced, map, dir, segst, valid, open,
                 seg_alloc_nr, op, vals, starts, may, history>>

\* The stream has a segment to write to
Staged(st) == open[st].seg # None /\ st \notin unstamped

\* put() and del() begin; a delete of a key that is not there ends at once
Begin(t, k, del) ==
  /\ mode = "up"
  /\ op[t] = Idle
  /\ vals < MaxVal
  /\ vals' = vals + 1
  /\ del => conf.dels /\ EntryOf(map, k) # {}
  /\ op' = [op EXCEPT ![t] = [what |-> "alloc", key |-> k, val |-> IF del THEN 0 ELSE vals + 1]]
  /\ UNCHANGED <<conf, durable, mode, seed, synced, map, dir, segst, valid, open,
                 unstamped, seg_alloc_nr, starts, may, history>>

Allocate(t) ==
  /\ mode = "up"
  /\ op[t].what = "alloc"
  /\ Staged(User) /\ open[User].nr < SegSize
  /\ op' = [op EXCEPT ![t] = [what |-> "write", key |-> op[t].key, val |-> op[t].val,
                              g |-> <<open[User].seg, open[User].nr>>]]
  /\ open' = [open EXCEPT ![User].nr = @ + 1]
  /\ UNCHANGED <<conf, durable, mode, seed, synced, map, dir, segst, valid, unstamped,
                 seg_alloc_nr, vals, starts, may, history>>

\* The images of a table that a record overwrites
Overwritten(img, g) ==
  [img EXCEPT ![g[1]].hdr = IF g[2] = 0 THEN NoTag ELSE @,
              ![g[1]].ftr = IF g[2] = SegSize - 1 THEN NoTag ELSE @]

\* local_put_mbuff_io(): the record carries the timestamp of its segment
Write(t) ==
  /\ mode = "up"
  /\ op[t].what = "write"
  /\ LET g == op[t].g IN
     /\ recs' = [recs EXCEPT ![g[1]][g[2]] = [key |-> op[t].key, val |-> op[t].val,
                    ts |-> smd[g[1]].ts, crc |-> <<seed, smd[g[1]].ts>>]]
     /\ dimg' = Overwritten(dimg, g)
  /\ op' = [op EXCEPT ![t].what = "map"]
  /\ UNCHANGED <<conf, dev, smd, mode, seed, synced, map, dir, segst, valid, open,
                 unstamped, seg_alloc_nr, vals, starts, may, history>>

Settle(gs, op_) ==
  /\ valid' = Invalidated(valid, gs)
  /\ open' = op_
  /\ segst' = Settled(valid', segst, op_)

\* The operation ends: its value is what a caller finds.  Of the deleted
\* entries that are gone no tombstone is left
Acknowledge(t, gone) ==
  /\ op' = [op EXCEPT ![t] = Idle]
  /\ may' = [may EXCEPT ![op[t].key] = {op[t].val}]
  /\ forgotten' = (forgotten \cup {e.key : e \in gone \ Live(gone)}) \ {op[t].key}

\* Defect: an update invalidates its own grain, not the one it replaces
SetMapping_keep(t) ==
  /\ mode = "up" /\ op[t].what = "map"
  /\ LET e == EntryOf(map, op[t].key) IN
     /\ map' = (map \ e) \cup {[key |-> op[t].key, pba |-> op[t].g, del |-> op[t].val = 0]}
     /\ Acknowledge(t, e)
  /\ Settle({op[t].g}, open)
  /\ UNCHANGED <<conf, durable, mode, seed, synced, dir, unstamped, seg_alloc_nr, vals,
                 starts, torn>>

\* local_put_mbuff() with set_mapping(), and the end of local_del_mbuff(): the
\* entry of the key changes in place; a new one takes a slot that is free or
\* one of a deleted entry, whose tombstone is given up
SetMapping(t) ==
  /\ mode = "up" /\ op[t].what = "map"
  /\ LET k == op[t].key
         old == EntryOf(map, k)
         new == [key |-> k, pba |-> op[t].g, del |-> op[t].val = 0] IN
     /\ op[t].val = 0 => old # {}
     /\ \A e \in old : is_pba_order_equal_to_total_order(e.pba, op[t].g)
     /\ \E gone \in IF old # {} THEN {old} ELSE {{}} \cup {{e} : e \in map \ Live(map)} :
          /\ map' = (map \ gone) \cup {new}
          /\ Settle({e.pba : e \in gone}, open)
          /\ Acknowledge(t, gone)
  /\ UNCHANGED <<conf, durable, mode, seed, synced, dir, unstamped, seg_alloc_nr, vals,
                 starts, torn>>

\* The order of the log is not that of the operations: the operation writes
\* again.  A put gives up its grain, and its stream the rest of the segment
\* unless the entry is in it; a delete gives up neither
WriteAgain(t) ==
  /\ mode = "up" /\ op[t].what = "map"
  /\ LET g == op[t].g
         put == op[t].val # 0
         old == EntryOf(map, op[t].key)
         drain == put /\ Staged(User) /\ \A e \in old : e.pba[1] # g[1] IN
     /\ \E e \in old : ~ is_pba_order_equal_to_total_order(e.pba, g)
     /\ Settle((IF put THEN {g} ELSE {}) \cup
                  (IF drain THEN {<<open[User].seg, o>> : o \in open[User].nr .. SegSize - 1} ELSE {}),
               IF drain THEN [open EXCEPT ![User] = Closed] ELSE open)
  /\ op' = [op EXCEPT ![t] = [what |-> "alloc", key |-> op[t].key, val |-> op[t].val]]
  /\ UNCHANGED <<conf, durable, mode, seed, synced, map, dir, unstamped, seg_alloc_nr,
                 vals, starts, may, history>>

\* A delete whose entry is gone when its tombstone is written
DelGone(t) ==
  /\ mode = "up" /\ op[t].what = "map"
  /\ op[t].val = 0 /\ EntryOf(map, op[t].key) = {}
  /\ op' = [op EXCEPT ![t] = Idle]
  /\ UNCHANGED <<conf, durable, mode, seed, synced, map, dir, segst, valid, open,
                 unstamped, seg_alloc_nr, vals, starts, may, history>>

Collectable == {s \in Segs : segst[s] = "data" /\ \A st \in Streams : open[st].seg # s}

\* local_gc_callback(): a live record moves, and keeps the timestamp in its
\* header; a tombstone is dropped
relocate ==
  /\ mode = "up" /\ conf.gc
  /\ Staged(Reloc) /\ open[Reloc].nr < SegSize
  /\ \E e \in Live(map) :
       LET g == <<open[Reloc].seg, open[Reloc].nr>> IN
       /\ e.pba[1] \in Collectable
       /\ recs' = [recs EXCEPT ![g[1]][g[2]] =
                     [Rec(e.pba) EXCEPT !.crc = <<seed, smd[g[1]].ts>>]]
       /\ dimg' = Overwritten(dimg, g)
       /\ map' = (map \ {e}) \cup {[e EXCEPT !.pba = g]}
       /\ Settle({e.pba}, [open EXCEPT ![Reloc].nr = @ + 1])
  /\ UNCHANGED <<conf, dev, smd, mode, seed, synced, dir, unstamped, seg_alloc_nr, op,
                 vals, starts, may, history>>

purge ==
  /\ mode = "up" /\ conf.gc
  /\ \E e \in map \ Live(map) :
       /\ e.pba[1] \in Collectable
       /\ map' = map \ {e}
       /\ forgotten' = forgotten \cup {e.key}
       /\ Settle({e.pba}, open)
  /\ UNCHANGED <<conf, durable, mode, seed, synced, dir, unstamped, seg_alloc_nr, op, vals,
                 starts, may, torn>>

Running(t) ==
  \/ \E k \in Keys, del \in BOOLEAN : Begin(t, k, del)
  \/ op[t] # Idle /\ (Allocate(t) \/ Write(t) \/ SetMapping(t) \/ WriteAgain(t) \/ DelGone(t))

Next ==
  \/ Open \/ grow \/ persist_dev_md
  \/ restore \/ invalidate_ftr \/ shutdown
  \/ prep_crash_recovery \/ crash_recovery \/ crash
  \/ \E st \in Streams : TakeSegment(st) \/ seg_md_callback(st)
  \/ \E t \in Threads : (t = 1 \/ conf.threads = 2) /\ Running(t)
  \/ relocate \/ purge

Spec == RecInit /\ [][Next]_vars

-----------------------------------------------------------------------------


\* An entry's segment is not free, and counts at least as many valid grains as
\* entries name: what restore(), crash_recovery() and the operations that
\* follow do to the counts never lets a segment be reused under an entry
EntriesKeepSegments ==
  mode = "up" => \A s \in Segs :
    LET named == {e \in map : e.pba[1] = s} IN
    named # {} => segst[s] = "data" /\ valid[s] >= Cardinality(named)

\* The timestamp a segment is stamped with is carried by none of its records,
\* those of its earlier lives, so that none of them passes the scan, whatever
\* crashes and restarts there were and whichever streams were stamping at the
\* same time: restore_seg_alloc_nr(), seg_md_callback().  (Two segments may
\* well get the same timestamp: the counter is read again after it was moved.)
StampsNew ==
  [][\A s \in Segs : smd'[s] # smd[s] /\ smd'[s].type = "data" =>
       \A o \in Offs : recs[s][o].crc # <<smd'[s].seed, smd'[s].ts>>]_vars

=============================================================================
