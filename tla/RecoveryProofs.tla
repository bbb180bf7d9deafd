--------------------------- MODULE RecoveryProofs ---------------------------
(***************************************************************************)
(* No segment is free under an entry, whether the entry was restored from  *)
(* a table or from the log or was written since; and over any number of    *)
(* restarts, clean or not, and of new stores made on the same device, a    *)
(* segment never gets a timestamp that one of its old records carries.     *)
(***************************************************************************)
EXTENDS Recovery, NumberLemmas, FiniteSetTheorems

-----------------------------------------------------------------------------
(* Seeds and the counter *)

\* The metadata of a segment, as far as data segments are concerned
MdOK(m) == m.type = "data" => m.ts \in Nat /\ m.seed \in Nat

\* No seed is ahead of the number of times the store was opened.
SeedsUsed ==
  /\ starts \in Nat /\ seed \in Nat /\ dev \in Nat
  /\ seed <= starts /\ dev <= starts
  /\ \A s \in Segs : smd[s].type = "data" => smd[s].seed <= starts

\* The counter is not behind the log from the moment it has been restored; a
\* new store has no log.
CounterAhead ==
  /\ mode \in {"up", "invalidate", "stop"} => \A s \in Log : smd[s].ts <= seg_alloc_nr
  /\ mode \in {"create", "persist"} => Log = {}

TsInv ==
  /\ \A s \in Segs : MdOK(smd[s])
  /\ smd = [s \in Segs |-> smd[s]]
  /\ seg_alloc_nr \in Nat
  /\ SeedsUsed /\ CounterAhead

\* restore_seg_alloc_nr(): the counter is not behind the log.
LEMMA CounterRestored ==
  ASSUME TsInv
  PROVE  seg_alloc_after \in Nat /\ \A s \in Log : smd[s].ts <= seg_alloc_after
<1> DEFINE f == [s \in Segs |-> IF s \in Log THEN smd[s].ts ELSE 0]
           S == {0} \cup {smd[s].ts : s \in {x \in Segs : validate_seg_md(x, "data")}}
<1>1. SegNr \in Nat /\ Segs = 1 .. SegNr
  BY RecoveryAssumption DEF Segs
<1>2. \A i \in 1 .. SegNr : f[i] \in Nat
  BY <1>1 DEF TsInv, MdOK, Log, validate_seg_md
<1> HIDE DEF f
<1>3. PICK b \in Nat : \A i \in 1 .. SegNr : f[i] <= b
  BY <1>1, <1>2, Bounded
<1>4. S \subseteq Nat /\ S # {} /\ \A x \in S : x <= b
  BY <1>1, <1>2, <1>3 DEF f, Log
<1>5. \A s \in Log : smd[s].ts \in S
  BY DEF Log
<1> HIDE DEF S
<1>6. Max(S) \in S /\ \A x \in S : x <= Max(S)
  BY <1>4, MaxOfBounded
<1>7. seg_alloc_after = Max(S)
  BY DEF seg_alloc_after, S
<1> QED
  BY <1>4, <1>5, <1>6, <1>7

-----------------------------------------------------------------------------
(* The steps *)

\* A device without a store satisfies the invariant.
LEMMA InitTsInv == RecInit => TsInv
<1> SUFFICES ASSUME RecInit PROVE TsInv
  OBVIOUS
<1>1. \A s \in Segs : smd[s] = NoMd /\ smd[s].type # "data"
  BY DEF RecInit, NoMd
<1>2. smd = [s \in Segs |-> smd[s]]
  BY DEF RecInit
<1>3. seg_alloc_nr = 0 /\ starts = 0 /\ seed = 0 /\ dev = 0 /\ mode = "down"
  BY DEF RecInit
<1> QED
  BY <1>1, <1>2, <1>3 DEF TsInv, MdOK, SeedsUsed, CounterAhead

\* The log and the counter stay as they are, and so does the store.
LEMMA Quiet ==
  ASSUME TsInv, UNCHANGED <<smd, dev, seed, starts, seg_alloc_nr>>,
         \/ mode' = mode
         \/ mode' \in {"down", "failed", "undefined", "scan", "restore"}
         \/ mode' \in {"up", "stop"} /\ mode \in {"up", "invalidate", "stop"}
  PROVE  TsInv'
<1>1. Log' = Log
  BY DEF Log, Segs, validate_seg_md
<1>2. CounterAhead'
  BY <1>1 DEF TsInv, CounterAhead, Log
<1>3. SeedsUsed'
  BY DEF TsInv, SeedsUsed, Segs
<1> QED
  BY <1>2, <1>3 DEF TsInv, MdOK, Segs

\* grow() only ever takes segments away from the log.
LEMMA GrownTsInv ==
  ASSUME TsInv, NEW ss, NEW image, NEW st, Grown(ss, image, st, smd),
         UNCHANGED <<dev, seed, starts, seg_alloc_nr>>,
         mode' = mode \/ mode' = "scan" \/ (mode = "create" /\ mode' = "persist")
  PROVE  TsInv'
<1>1. smd' = [s \in Segs |-> smd'[s]]
  BY DEF Grown
<1>2. ASSUME NEW s \in Segs PROVE smd'[s] = smd[s] \/ smd'[s].type = "dir"
  <2>1. CASE s \in Range(ss)
    <3>1. smd'[s] = [type |-> "dir", seed |-> seed, ts |-> Len(dir)]
      BY <2>1 DEF Grown, persist_seg_md, TsInv
    <3> QED
      BY <3>1
  <2>2. CASE s \notin Range(ss)
    BY <2>2 DEF Grown
  <2> QED
    BY <2>1, <2>2
<1>3. \A s \in Segs : smd'[s].type = "data" => smd'[s] = smd[s]
  BY <1>2
<1>4. Segs' = Segs
  BY DEF Segs
<1>5. Log' \subseteq Log /\ \A s \in Log' : smd'[s] = smd[s]
  BY <1>3, <1>4 DEF Log, validate_seg_md
<1>6. CounterAhead'
  BY <1>5 DEF TsInv, CounterAhead, Log
<1>7. SeedsUsed'
  BY <1>3, <1>4 DEF TsInv, SeedsUsed
<1> QED
  BY <1>1, <1>3, <1>4, <1>6, <1>7 DEF TsInv, MdOK

\* A new store has a seed that no segment has.
LEMMA OpenTsInv ==
  ASSUME TsInv, Open
  PROVE  TsInv'
<1>1. smd' = smd /\ dev' = dev /\ starts' = starts + 1 /\ seg_alloc_nr' = 0
  BY DEF Open, durable
<1>2. \/ seed' = dev /\ mode' = "restore"
      \/ seed' = starts + 1 /\ mode' = "create"
  BY DEF Open, default_seed
<1>3. Segs' = Segs
  BY DEF Segs
<1>4. SeedsUsed'
  BY <1>1, <1>2, <1>3 DEF TsInv, SeedsUsed, MdOK
<1>6. mode' = "create" => Log' = {}
  <2> SUFFICES ASSUME mode' = "create", NEW s \in Segs, smd[s].type = "data"
               PROVE  smd[s].seed # seed'
    BY <1>1, <1>3 DEF Log, validate_seg_md
  <2>1. smd[s].seed \in Nat /\ smd[s].seed <= starts /\ starts \in Nat
    BY DEF TsInv, SeedsUsed, MdOK
  <2>2. seed' = starts + 1
    BY <1>2
  <2> QED
    BY <2>1, <2>2
<1>7. CounterAhead'
  BY <1>2, <1>6 DEF CounterAhead
<1> QED
  BY <1>1, <1>3, <1>4, <1>7 DEF TsInv, MdOK

\* A counter that restore_seg_alloc_nr() has set.
LEMMA RestoredTsInv ==
  ASSUME TsInv, UNCHANGED <<smd, dev, seed, starts>>, seg_alloc_nr' = seg_alloc_after,
         mode' \in {"invalidate", "up"}
  PROVE  TsInv'
<1>1. Log' = Log
  BY DEF Log, Segs, validate_seg_md
<1>2. seg_alloc_after \in Nat /\ \A s \in Log : smd[s].ts <= seg_alloc_after
  BY CounterRestored
<1>3. CounterAhead'
  BY <1>1, <1>2 DEF CounterAhead
<1>4. SeedsUsed'
  BY DEF TsInv, SeedsUsed, Segs
<1> QED
  BY <1>2, <1>3, <1>4 DEF TsInv, MdOK, Segs

\* A segment that is taken moves the counter on.
LEMMA TakeTsInv ==
  ASSUME TsInv, NEW st \in Streams, TakeSegment(st)
  PROVE  TsInv'
<1>1. mode = "up" /\ seg_alloc_nr' = seg_alloc_nr + 1 /\ UNCHANGED <<smd, dev, mode, seed, starts>>
  BY DEF TakeSegment, durable
<1>2. Log' = Log
  BY <1>1 DEF Log, Segs, validate_seg_md
<1>3. seg_alloc_nr \in Nat /\ \A s \in Log : smd[s].ts \in Nat /\ smd[s].ts <= seg_alloc_nr
  BY <1>1 DEF TsInv, CounterAhead, MdOK, Log, validate_seg_md
<1>4. CounterAhead'
  BY <1>1, <1>2, <1>3 DEF CounterAhead
<1>5. SeedsUsed'
  BY <1>1 DEF TsInv, SeedsUsed, Segs
<1> QED
  BY <1>1, <1>3, <1>4, <1>5 DEF TsInv, MdOK, Segs

\* A timestamp is not ahead of the counter.
LEMMA StampTsInv ==
  ASSUME TsInv, NEW st \in Streams, seg_md_callback(st)
  PROVE  TsInv'
<1> DEFINE n == open[st].seg
           md == [type |-> "data", seed |-> seed, ts |-> seg_alloc_nr]
<1>1. smd' = [smd EXCEPT ![n] = md]
  BY DEF seg_md_callback, persist_seg_md
<1>2. mode = "up" /\ UNCHANGED <<dev, mode, seed, starts, seg_alloc_nr>>
  BY DEF seg_md_callback
<1>3. Segs' = Segs
  BY DEF Segs
<1>4. md.type = "data" /\ md.seed = seed /\ md.ts = seg_alloc_nr
  OBVIOUS
<1> HIDE DEF md, n
<1>5. smd' = [s \in Segs |-> smd'[s]] /\ \A s \in Segs : smd'[s] \in {smd[s], md}
  BY <1>1 DEF TsInv
<1>6. seg_alloc_nr \in Nat /\ seed \in Nat /\ seed <= starts /\ starts \in Nat
  BY DEF TsInv, SeedsUsed
<1>7. ASSUME NEW s \in Segs
      PROVE  MdOK(smd'[s]) /\ (smd'[s].type = "data" => smd'[s].seed <= starts)
  <2>1. CASE smd'[s] = smd[s]
    BY <2>1 DEF TsInv, SeedsUsed, MdOK
  <2>2. CASE smd'[s] = md
    BY <2>2, <1>4, <1>6 DEF MdOK
  <2> QED
    BY <1>5, <2>1, <2>2
<1>8. ASSUME NEW s \in Log' PROVE smd'[s].ts <= seg_alloc_nr
  <2>1. s \in Segs /\ smd'[s].type = "data" /\ smd'[s].seed = seed
    BY <1>2, <1>3 DEF Log, validate_seg_md
  <2>2. CASE smd'[s] = smd[s]
    BY <1>2, <2>1, <2>2 DEF TsInv, CounterAhead, Log, validate_seg_md
  <2>3. CASE smd'[s] = md
    BY <2>3, <1>4, <1>6
  <2> QED
    BY <1>5, <2>1, <2>2, <2>3
<1>9. CounterAhead'
  BY <1>2, <1>8 DEF CounterAhead
<1>10. SeedsUsed'
  BY <1>2, <1>3, <1>7 DEF TsInv, SeedsUsed
<1> QED
  BY <1>2, <1>3, <1>5, <1>6, <1>7, <1>9, <1>10 DEF TsInv

\* The device metadata names the store once there is one.
LEMMA PersistTsInv ==
  ASSUME TsInv, persist_dev_md
  PROVE  TsInv'
<1>1. dev' = seed /\ mode = "persist" /\ mode' = "up" /\ UNCHANGED <<smd, seed, starts, seg_alloc_nr>>
  BY DEF persist_dev_md
<1>2. Log' = Log /\ Log = {}
  BY <1>1 DEF Log, Segs, validate_seg_md, TsInv, CounterAhead
<1>3. CounterAhead'
  BY <1>1, <1>2 DEF CounterAhead
<1>4. SeedsUsed'
  BY <1>1 DEF TsInv, SeedsUsed, Segs
<1> QED
  BY <1>1, <1>3, <1>4 DEF TsInv, MdOK, Segs

\* Every step, a crash and a start included, keeps the invariant.
LEMMA NextTsInv ==
  ASSUME TsInv, [Next]_vars
  PROVE  TsInv'
<1>1. CASE UNCHANGED vars
  BY <1>1, Quiet DEF vars, durable, volatile
<1>2. CASE Open
  BY <1>2, OpenTsInv
<1>3. CASE grow
  <2>1. PICK n : Grown(FirstOf(Free, n), dimg, segst, smd)
    BY <1>3 DEF grow
  <2>2. /\ UNCHANGED <<dev, seed, starts, seg_alloc_nr>>
        /\ mode' = mode \/ (mode = "create" /\ mode' = "persist")
    BY <1>3 DEF grow
  <2> QED
    BY <2>1, <2>2, GrownTsInv
<1>4. CASE persist_dev_md
  BY <1>4, PersistTsInv
<1>5. CASE restore
  <2>1. UNCHANGED <<smd, dev, seed, starts>>
    BY <1>5 DEF restore, durable
  <2>2. CASE mode' = "undefined" /\ UNCHANGED seg_alloc_nr
    BY <2>1, <2>2, Quiet
  <2>3. CASE mode' = "invalidate" /\ seg_alloc_nr' = seg_alloc_after
    BY <2>1, <2>3, RestoredTsInv
  <2> QED
    BY <1>5, <2>2, <2>3 DEF restore
<1>6. CASE invalidate_ftr
  BY <1>6, Quiet DEF invalidate_ftr
<1>7. CASE shutdown
  BY <1>7, Quiet DEF shutdown
<1>8. CASE prep_crash_recovery
  <2>1. UNCHANGED <<dev, seed, starts, seg_alloc_nr>>
    BY <1>8 DEF prep_crash_recovery
  <2>2. CASE mode' = "failed" /\ UNCHANGED smd
    BY <2>1, <2>2, Quiet
  <2>3. CASE /\ mode' = "scan"
             /\ Grown(FirstOf(Segs \ Log, 1), dimg,
                      [x \in Segs |-> IF x \in Log THEN "data" ELSE "free"], smd)
    BY <2>1, <2>3, GrownTsInv
  <2> QED
    BY <1>8, <2>2, <2>3 DEF prep_crash_recovery
<1>9. CASE crash_recovery
  <2>1. UNCHANGED <<smd, dev, seed, starts>>
    BY <1>9 DEF crash_recovery, durable
  <2>2. CASE mode' = "failed" /\ UNCHANGED seg_alloc_nr
    BY <2>1, <2>2, Quiet
  <2>3. CASE mode' = "up" /\ seg_alloc_nr' = seg_alloc_after
    BY <2>1, <2>3, RestoredTsInv
  <2> QED
    BY <1>9, <2>2, <2>3 DEF crash_recovery
<1>10. CASE crash
  BY <1>10, Quiet DEF crash, durable
<1>11. CASE \E st \in Streams : TakeSegment(st) \/ seg_md_callback(st)
  BY <1>11, TakeTsInv, StampTsInv
<1>12. CASE \E t \in Threads : Running(t)
  <2>1. PICK t \in Threads : Running(t)
    BY <1>12
  <2>2. CASE \E k \in Keys, del \in BOOLEAN : Begin(t, k, del)
    BY <2>2, Quiet DEF Begin, durable
  <2>3. CASE Allocate(t)
    BY <2>3, Quiet DEF Allocate, durable
  <2>4. CASE Write(t)
    BY <2>4, Quiet DEF Write
  <2>5. CASE SetMapping(t)
    BY <2>5, Quiet DEF SetMapping, durable
  <2>6. CASE WriteAgain(t)
    BY <2>6, Quiet DEF WriteAgain, durable
  <2>7. CASE DelGone(t)
    BY <2>7, Quiet DEF DelGone, durable
  <2> QED
    BY <2>1, <2>2, <2>3, <2>4, <2>5, <2>6, <2>7 DEF Running
<1>13. CASE relocate
  BY <1>13, Quiet DEF relocate
<1>14. CASE purge
  BY <1>14, Quiet DEF purge, durable
<1> QED
  BY <1>1, <1>2, <1>3, <1>4, <1>5, <1>6, <1>7, <1>8, <1>9, <1>10, <1>11, <1>12, <1>13, <1>14
  DEF Next

-----------------------------------------------------------------------------
(* Segments under entries *)

Grain == Segs \X Offs
Entry == [key : Keys, pba : Grain, del : BOOLEAN]
Tag == [size : Nat, idx : Nat, seed : Nat]
Img == [hdr : Tag, ftr : Tag, ents : SUBSET Entry]
Slot == [seg : Segs \cup {None}, nr : 0 .. SegSize]
Waiting == [what : {"alloc"}, key : Keys, val : Nat]
Writing == [what : {"write", "map"}, key : Keys, val : Nat, g : Grain]

\* The grains that operations hold and those that no one was given yet
Writers(o) == {t \in Threads : o[t].what \in {"write", "map"}}
Rest(p) == {g \in Grain : \E st \in Streams : p[st].seg = g[1] /\ p[st].nr <= g[2]}
Held(m, o, p) == {e.pba : e \in m} \cup {o[t].g : t \in Writers(o)} \cup Rest(p)
In(G, s) == {g \in G : g[1] = s}

\* A grain is held once.
Apart(m, o, p) ==
  /\ \A e, f \in m : e.pba = f.pba => e = f
  /\ \A t, u \in Writers(o) : o[t].g = o[u].g => t = u
  /\ \A e \in m, t \in Writers(o) : e.pba # o[t].g
  /\ \A g \in Rest(p) : (\A e \in m : e.pba # g) /\ \A t \in Writers(o) : o[t].g # g

\* The counts do not forget a grain that is held, and its segment is not free.
Covered(G, v, ow) ==
  \A s \in Segs : /\ v[s] \in Int /\ v[s] >= Cardinality(In(G, s))
                  /\ In(G, s) # {} => ow[s] = "data"

StreamsOK(p, ow) ==
  /\ p \in [Streams -> Slot]
  /\ \A st \in Streams : p[st].seg # None => ow[p[st].seg] = "data"
  /\ p[User].seg # None => p[User].seg # p[Reloc].seg

\* The segments that are taken and not stamped
Fresh(p, u) == {p[st].seg : st \in u}

OpsOK(o) ==
  /\ o \in [Threads -> {Idle} \cup Waiting \cup Writing]
  /\ ~conf.dels => \A t \in Threads : o[t] # Idle => o[t].val # 0

\* A segment of the directory of the store on the device, and one whose image
\* a restart takes over
IsDir(s) == smd[s].type = "dir" /\ smd[s].seed = dev
Image == {s \in Segs : IsDir(s) /\ dimg[s].hdr.seed = dev /\ dimg[s].ftr.seed = dev}
Full == {s \in Image : dimg[s].ents # {}}

Loaded == {"persist", "scan", "invalidate", "up", "stop"}

TypesOK ==
  /\ conf.clean => ~conf.dels
  /\ smd = [s \in Segs |-> smd[s]]
  /\ dimg \in [Segs -> Img]
  /\ segst = [s \in Segs |-> segst[s]]
  /\ valid = [s \in Segs |-> valid[s]]
  /\ map \subseteq Entry
  /\ ~conf.dels => \A e \in map : ~e.del
  /\ open \in [Streams -> Slot]
  /\ unstamped \subseteq Streams
  /\ OpsOK(op)
  /\ {starts, seed, dev, vals} \subseteq Nat
  /\ dir = [i \in 1 .. Len(dir) |-> dir[i]] /\ Len(dir) \in Nat

SeedsOK ==
  /\ dev <= starts
  /\ \A s \in Segs : dimg[s].ftr.seed <= starts
  /\ mode \in {"restore", "scan", "invalidate", "up", "stop"} => seed = dev /\ dev # 0
  /\ mode \in {"create", "persist"} => /\ dev < seed /\ seed <= starts
                                       /\ \A s \in Segs : dimg[s].ftr.seed < seed

EmptyOK ==
  /\ mode \in {"down", "restore", "create", "persist", "scan"} =>
       map = {} /\ (\A t \in Threads : op[t] = Idle) /\ open = [st \in Streams |-> Closed]
  /\ mode \in {"down", "restore", "create"} => dir = <<>>
  /\ mode \in {"restore", "create", "persist", "scan"} => \A s \in Segs : valid[s] = 0
  /\ mode = "create" => \A s \in Segs : segst[s] = "free"
  /\ mode = "persist" => \A s \in Segs : segst[s] # "data"
  /\ mode = "scan" => \A s \in Log : segst[s] = "data"
  /\ mode = "stop" => \A t \in Threads : op[t] = Idle
  /\ mode # "up" => unstamped = {}

\* What the images lead to
ImagesOK ==
  /\ \A s \in Image : \A e \in dimg[s].ents : ~e.del /\ ~IsDir(e.pba[1])
  /\ \A s, x \in Image : \A e \in dimg[s].ents, f \in dimg[x].ents : e.pba = f.pba => e = f
  /\ \A s \in Full, x \in Image : dimg[x].hdr.size <= dimg[s].hdr.size
  /\ \A s, x \in Image : dimg[x].hdr.size = dimg[s].hdr.size /\ dimg[x].hdr.idx = dimg[s].hdr.idx => s = x
  /\ \A s \in Image : dimg[s].hdr.idx >= 1 /\ dimg[s].hdr.size \in {1, 2}

\* The directory in use and the images on the device
DirOK ==
  mode \in Loaded =>
    /\ \E z \in {1, 2} :
         /\ \A i \in DOMAIN dir : dir[i] \in Segs =>
              segst[dir[i]] = "dir" /\ dimg[dir[i]].hdr.idx = i /\ dimg[dir[i]].hdr.size = z
         /\ mode # "persist" => \A x \in Image \ Range(dir) : dimg[x].hdr.size < z
    /\ mode \in {"scan", "up"} => \A i \in DOMAIN dir : dir[i] \in Image => dimg[dir[i]].hdr.size = Len(dir)
    /\ mode \in {"scan", "up"} => Full = {}
    /\ mode \in {"invalidate", "stop"} => Full \subseteq Range(dir)
    /\ mode = "stop" => \A s \in Image : dimg[s].ents \subseteq map

StoreOK ==
  mode \in Loaded =>
    /\ Apart(map, op, open)
    /\ Covered(Held(map, op, open), valid, segst)
    /\ StreamsOK(open, segst)
    /\ \A s \in Segs : segst[s] = "data" => ~IsDir(s) \/ s \in Fresh(open, unstamped)
    /\ \A st \in unstamped : open[st].seg # None /\ open[st].nr = 0

KeepInv == TypesOK /\ SeedsOK /\ EmptyOK /\ ImagesOK /\ DirOK /\ StoreOK

-----------------------------------------------------------------------------
(* Counts of grains *)

\* A grain is a segment and an offset.
LEMMA GrainIs ==
  ASSUME NEW g \in Grain
  PROVE  g[1] \in Segs /\ g[2] \in Offs /\ g = <<g[1], g[2]>>
BY DEF Grain

\* A segment has finitely many grains.
LEMMA InFinite ==
  ASSUME NEW G, G \subseteq Grain, NEW s
  PROVE  IsFiniteSet(In(G, s)) /\ Cardinality(In(G, s)) \in Nat
<1>1. IsFiniteSet(0 .. SegSize - 1) /\ IsFiniteSet(1 .. SegNr)
  BY RecoveryAssumption, FS_Interval
<1>2. IsFiniteSet(Grain)
  BY <1>1, FS_Product DEF Grain, Segs, Offs
<1>3. In(G, s) \subseteq Grain
  BY DEF In
<1>4. IsFiniteSet(In(G, s))
  BY <1>2, <1>3, FS_Subset
<1> QED
  BY <1>4, FS_CardinalityType

\* gc_page_invalidate() of grains that are held: the others stay covered.
LEMMA SettledCovers ==
  ASSUME NEW G, G \subseteq Grain, NEW v, NEW ow, Covered(G, v, ow), NEW gs, gs \subseteq G,
         NEW H, H \subseteq G \ gs, NEW p
  PROVE  Covered(H, Invalidated(v, gs), Settled(Invalidated(v, gs), ow, p))
<1> DEFINE w == Invalidated(v, gs)
<1> SUFFICES ASSUME NEW s \in Segs
             PROVE  /\ w[s] \in Int /\ w[s] >= Cardinality(In(H, s))
                    /\ In(H, s) # {} => Settled(w, ow, p)[s] = "data"
  BY DEF Covered
<1>1. v[s] \in Int /\ v[s] >= Cardinality(In(G, s)) /\ (In(G, s) # {} => ow[s] = "data")
  BY DEF Covered
<1>2. w[s] = v[s] - Cardinality(In(gs, s))
  BY DEF Invalidated, In
<1>3. /\ IsFiniteSet(In(G, s)) /\ Cardinality(In(G, s)) \in Nat
      /\ IsFiniteSet(In(gs, s)) /\ Cardinality(In(gs, s)) \in Nat
      /\ IsFiniteSet(In(H, s)) /\ Cardinality(In(H, s)) \in Nat
  <2>1. gs \subseteq Grain /\ H \subseteq Grain
    OBVIOUS
  <2> QED
    BY <2>1, InFinite
<1>4. Cardinality(In(H, s)) <= Cardinality(In(G, s)) - Cardinality(In(gs, s))
  <2> DEFINE A == In(G, s)
             B == In(gs, s)
  <2>1. A \cap B = B /\ In(H, s) \subseteq A \ B
    BY DEF In
  <2>2. IsFiniteSet(A \ B) /\ Cardinality(A \ B) = Cardinality(A) - Cardinality(A \cap B)
    BY <1>3, FS_Difference
  <2>3. Cardinality(In(H, s)) <= Cardinality(A \ B)
    BY <2>1, <2>2, FS_Subset
  <2> QED
    BY <2>1, <2>2, <2>3
<1>5. w[s] \in Int /\ w[s] >= Cardinality(In(H, s))
  BY <1>1, <1>2, <1>3, <1>4
<1>6. ASSUME In(H, s) # {} PROVE Settled(w, ow, p)[s] = "data"
  <2>1. Cardinality(In(H, s)) # 0
    BY <1>3, <1>6, FS_EmptySet
  <2>2. ~(w[s] <= 0)
    BY <1>3, <1>5, <2>1
  <2>3. ow[s] = "data"
    BY <1>1, <1>6 DEF In
  <2> HIDE DEF w
  <2> QED
    BY <2>2, <2>3 DEF Settled
<1> QED
  BY <1>5, <1>6

\* Fewer grains are covered as well.
LEMMA CoversFewer ==
  ASSUME NEW G, G \subseteq Grain, NEW v, NEW ow, Covered(G, v, ow), NEW H, H \subseteq G
  PROVE  Covered(H, v, ow)
<1> SUFFICES ASSUME NEW s \in Segs
             PROVE  /\ v[s] \in Int /\ v[s] >= Cardinality(In(H, s))
                    /\ In(H, s) # {} => ow[s] = "data"
  BY DEF Covered
<1>1. v[s] \in Int /\ v[s] >= Cardinality(In(G, s)) /\ (In(G, s) # {} => ow[s] = "data")
  BY DEF Covered
<1>2. /\ IsFiniteSet(In(G, s)) /\ Cardinality(In(G, s)) \in Nat
      /\ Cardinality(In(H, s)) \in Nat
  <2>1. H \subseteq Grain
    OBVIOUS
  <2> QED
    BY <2>1, InFinite
<1>3. In(H, s) \subseteq In(G, s)
  BY DEF In
<1>4. Cardinality(In(H, s)) <= Cardinality(In(G, s))
  BY <1>2, <1>3, FS_Subset
<1> QED
  BY <1>1, <1>2, <1>3, <1>4

\* What Settled() does to the owners
LEMMA SettledOwners ==
  ASSUME NEW v, NEW ow, NEW p, NEW s \in Segs
  PROVE  /\ Settled(v, ow, p)[s] = "data" => ow[s] = "data"
         /\ ow[s] # "data" => Settled(v, ow, p)[s] = ow[s]
         /\ ow[s] = "data" /\ (\E st \in Streams : p[st].seg = s) => Settled(v, ow, p)[s] = "data"
BY DEF Settled

\* Held grains are grains.
LEMMA HeldIn ==
  ASSUME NEW m, m \subseteq Entry, NEW o, OpsOK(o), NEW p
  PROVE  Held(m, o, p) \subseteq Grain
<1>1. \A e \in m : e.pba \in Grain
  BY DEF Entry
<1>2. \A t \in Writers(o) : o[t].g \in Grain
  <2> SUFFICES ASSUME NEW t \in Writers(o) PROVE o[t].g \in Grain
    OBVIOUS
  <2>1. t \in Threads /\ o[t].what \in {"write", "map"}
    BY DEF Writers
  <2>2. o[t] \in {Idle} \cup Waiting \cup Writing
    BY <2>1 DEF OpsOK
  <2>3. o[t] \in Writing
    BY <2>1, <2>2 DEF Idle, Waiting
  <2> QED
    BY <2>3 DEF Writing
<1>3. Rest(p) \subseteq Grain
  BY DEF Rest
<1> QED
  BY <1>1, <1>2, <1>3 DEF Held

-----------------------------------------------------------------------------
(* Steps that only lose images *)

\* The images left are as they were, and no segment joins the directory.
Lost ==
  /\ Image' \subseteq Image
  /\ \A s \in Image' : dimg'[s].hdr = dimg[s].hdr /\ dimg'[s].ents = dimg[s].ents
  /\ \A s \in Segs : IsDir(s)' => IsDir(s)

\* Losing images does no harm to those that are left.
LEMMA LostImages ==
  ASSUME TypesOK, ImagesOK, Lost
  PROVE  ImagesOK' /\ Full' \subseteq Full
<1>1. Full' \subseteq Full
  BY DEF Lost, Full
<1>2. ASSUME NEW s \in Image', NEW e \in dimg'[s].ents
      PROVE  ~e.del /\ ~IsDir(e.pba[1])'
  <2>1. s \in Image /\ e \in dimg[s].ents
    BY DEF Lost
  <2>2. ~e.del /\ ~IsDir(e.pba[1])
    BY <2>1 DEF ImagesOK
  <2>3. e.pba[1] \in Segs
    <3>1. s \in Segs /\ dimg[s] \in Img
      BY <2>1 DEF TypesOK, Image
    <3>2. e \in Entry
      BY <2>1, <3>1 DEF Img
    <3> QED
      BY <3>2, GrainIs DEF Entry
  <2> QED
    BY <2>2, <2>3 DEF Lost
<1>3. ASSUME NEW s \in Image', NEW x \in Image', NEW e \in dimg'[s].ents, NEW f \in dimg'[x].ents, e.pba = f.pba
      PROVE  e = f
  <2>1. s \in Image /\ x \in Image /\ e \in dimg[s].ents /\ f \in dimg[x].ents
    BY DEF Lost
  <2> QED
    BY <1>3, <2>1 DEF ImagesOK
<1>4. ASSUME NEW s \in Full', NEW x \in Image' PROVE dimg'[x].hdr.size <= dimg'[s].hdr.size
  <2>1. s \in Full /\ x \in Image /\ s \in Image'
    BY <1>1 DEF Lost, Full
  <2>2. dimg'[x].hdr = dimg[x].hdr /\ dimg'[s].hdr = dimg[s].hdr
    BY <2>1 DEF Lost
  <2> QED
    BY <2>1, <2>2 DEF ImagesOK
<1>5. ASSUME NEW s \in Image', NEW x \in Image',
             dimg'[x].hdr.size = dimg'[s].hdr.size, dimg'[x].hdr.idx = dimg'[s].hdr.idx
      PROVE  s = x
  BY <1>5 DEF Lost, ImagesOK
<1>6. ASSUME NEW s \in Image' PROVE dimg'[s].hdr.idx >= 1 /\ dimg'[s].hdr.size \in {1, 2}
  BY DEF Lost, ImagesOK
<1> QED
  BY <1>1, <1>2, <1>3, <1>4, <1>5, <1>6 DEF ImagesOK

\* Tags that are overwritten
Untagged(a, b) ==
  \A s \in Segs : b[s].ents = a[s].ents /\ b[s].hdr \in {a[s].hdr, NoTag} /\ b[s].ftr \in {a[s].ftr, NoTag}

\* A tag that is overwritten only ever loses an image.
LEMMA UntaggedLost ==
  ASSUME dev # 0, UNCHANGED dev, Untagged(dimg, dimg'), \A s \in Segs : IsDir(s)' => IsDir(s)
  PROVE  Lost
<1>1. ASSUME NEW s \in Image' PROVE s \in Image /\ dimg'[s].hdr = dimg[s].hdr /\ dimg'[s].ents = dimg[s].ents
  <2>1. s \in Segs /\ IsDir(s)' /\ dimg'[s].hdr.seed = dev /\ dimg'[s].ftr.seed = dev
    BY DEF Image, Segs
  <2>2. dimg'[s].hdr # NoTag /\ dimg'[s].ftr # NoTag
    BY <2>1 DEF NoTag
  <2>3. dimg'[s].hdr = dimg[s].hdr /\ dimg'[s].ftr = dimg[s].ftr /\ dimg'[s].ents = dimg[s].ents
    BY <2>1, <2>2 DEF Untagged
  <2> QED
    BY <2>1, <2>3 DEF Image
<1> QED
  BY <1>1 DEF Lost

-----------------------------------------------------------------------------
(* The store in use *)

\* What a step of the store in use has to show for itself: its grains are
\* apart and covered, and it wrote to data segments only.
LEMMA UseStep ==
  ASSUME KeepInv, mode = "up", UNCHANGED <<conf, mode, dev, seed, dir, starts>>,
         TypesOK',
         smd' = smd \/ \A s \in Segs : IsDir(s)' => IsDir(s),
         Untagged(dimg, dimg'), \A s \in Segs : segst[s] # "data" => dimg'[s] = dimg[s],
         \A s \in Segs : segst'[s] = "data" =>
           (segst[s] = "data" /\ s \notin Fresh(open, unstamped)) \/ ~IsDir(s)' \/ s \in Fresh(open', unstamped'),
         \A st \in unstamped' : open'[st].seg # None /\ open'[st].nr = 0,
         \A s \in Segs : segst[s] = "dir" => segst'[s] = "dir",
         Apart(map', op', open'), Covered(Held(map', op', open'), valid', segst'), StreamsOK(open', segst')
  PROVE  KeepInv'
<1>1. mode' = "up" /\ dev # 0 /\ seed = dev
  BY DEF KeepInv, SeedsOK
<1>2. \A s \in Segs : IsDir(s)' => IsDir(s)
  BY DEF IsDir
<1>3. Lost
  BY <1>1, <1>2, UntaggedLost
<1>4. ImagesOK' /\ Full' \subseteq Full
  BY <1>3, LostImages DEF KeepInv
<1>5. SeedsOK'
  <2>1. \A s \in Segs : dimg'[s].ftr.seed <= starts
    <3> SUFFICES ASSUME NEW s \in Segs PROVE dimg'[s].ftr.seed <= starts
      OBVIOUS
    <3>1. dimg[s].ftr.seed <= starts /\ 0 <= starts
      BY DEF KeepInv, SeedsOK, TypesOK
    <3>2. dimg'[s].ftr \in {dimg[s].ftr, NoTag}
      BY DEF Untagged
    <3> QED
      BY <3>1, <3>2 DEF NoTag
  <2> QED
    BY <1>1, <2>1 DEF KeepInv, SeedsOK, Segs
<1>6. EmptyOK'
  BY <1>1 DEF EmptyOK
<1>7. DirOK'
  <2>1. PICK z \in {1, 2} :
           /\ \A i \in DOMAIN dir : dir[i] \in Segs =>
                segst[dir[i]] = "dir" /\ dimg[dir[i]].hdr.idx = i /\ dimg[dir[i]].hdr.size = z
           /\ \A x \in Image \ Range(dir) : dimg[x].hdr.size < z
    BY DEF KeepInv, DirOK, Loaded
  <2>2. Full = {} /\ \A i \in DOMAIN dir : dir[i] \in Image => dimg[dir[i]].hdr.size = Len(dir)
    BY DEF KeepInv, DirOK, Loaded
  <2>3. \A i \in DOMAIN dir : dir[i] \in Segs => dimg'[dir[i]] = dimg[dir[i]] /\ segst'[dir[i]] = "dir"
    BY <2>1
  <2>4. \A x \in Image' : x \in Image /\ dimg'[x].hdr = dimg[x].hdr
    BY <1>3 DEF Lost
  <2>5. \A i \in DOMAIN dir : dir[i] \in Segs =>
          segst'[dir[i]] = "dir" /\ dimg'[dir[i]].hdr.idx = i /\ dimg'[dir[i]].hdr.size = z
    BY <2>1, <2>3
  <2>6. \A x \in Image' \ Range(dir) : dimg'[x].hdr.size < z
    BY <2>1, <2>4
  <2>7. \A i \in DOMAIN dir : dir[i] \in Image' => dimg'[dir[i]].hdr.size = Len(dir)
    BY <2>2, <2>4
  <2> QED
    BY <1>1, <1>4, <2>2, <2>5, <2>6, <2>7 DEF DirOK, Segs
<1>8. StoreOK'
  <2>1. \A s \in Segs : segst'[s] = "data" => ~IsDir(s)' \/ s \in Fresh(open', unstamped')
    BY <1>2 DEF KeepInv, StoreOK, Loaded
  <2> QED
    BY <2>1 DEF StoreOK, Segs, Fresh
<1> QED
  BY <1>4, <1>5, <1>6, <1>7, <1>8 DEF KeepInv

\* A step of the store in use that leaves the counts alone
LEMMA PlainStep ==
  ASSUME KeepInv, mode = "up", UNCHANGED <<conf, mode, dev, seed, dir, starts, smd, segst, valid>>,
         vals' \in Nat, dimg' \in [Segs -> Img], Untagged(dimg, dimg'),
         \A s \in Segs : segst[s] # "data" => dimg'[s] = dimg[s],
         UNCHANGED map, OpsOK(op'), StreamsOK(open', segst), Apart(map, op', open'),
         UNCHANGED unstamped, \A st \in unstamped : open'[st] = open[st],
         Held(map, op', open') \subseteq Held(map, op, open)
  PROVE  KeepInv'
<1>1. TypesOK'
  BY DEF KeepInv, TypesOK, OpsOK, StreamsOK, Segs, Grain, Offs, Img, Entry, Tag, Slot, Streams, Waiting, Writing
<1>2. Covered(Held(map, op', open'), valid, segst)
  <2>1. Held(map, op, open) \subseteq Grain
    BY HeldIn DEF KeepInv, TypesOK
  <2>2. Covered(Held(map, op, open), valid, segst)
    BY DEF KeepInv, StoreOK, Loaded
  <2> QED
    BY <2>1, <2>2, CoversFewer
<1>3. /\ Apart(map', op', open') /\ Covered(Held(map', op', open'), valid', segst')
      /\ StreamsOK(open', segst')
  BY <1>2
<1>4. /\ Fresh(open', unstamped') = Fresh(open, unstamped)
      /\ \A st \in unstamped' : open'[st].seg # None /\ open'[st].nr = 0
  BY DEF Fresh, KeepInv, StoreOK, Loaded
<1> QED
  BY <1>1, <1>3, <1>4, UseStep

\* A step of the store in use that invalidates grains
LEMMA SettleStep ==
  ASSUME KeepInv, mode = "up", UNCHANGED <<conf, mode, dev, seed, dir, starts, smd, vals>>,
         dimg' \in [Segs -> Img], Untagged(dimg, dimg'),
         \A s \in Segs : segst[s] # "data" => dimg'[s] = dimg[s],
         map' \subseteq Entry, ~conf.dels => \A e \in map' : ~e.del, OpsOK(op'),
         NEW gs, NEW p, Settle(gs, p), p \in [Streams -> Slot],
         \A st \in Streams : p[st].seg \in {open[st].seg, None},
         UNCHANGED unstamped, \A st \in unstamped : p[st] = open[st],
         gs \subseteq Held(map, op, open), Apart(map', op', p),
         Held(map', op', p) \subseteq Held(map, op, open) \ gs
  PROVE  KeepInv'
<1>1. valid' = Invalidated(valid, gs) /\ open' = p /\ segst' = Settled(valid', segst, p)
  BY DEF Settle
<1>2. valid' = [s \in Segs |-> valid'[s]] /\ segst' = [s \in Segs |-> segst'[s]]
  BY <1>1 DEF Invalidated, Settled
<1>3. TypesOK'
  BY <1>1, <1>2 DEF KeepInv, TypesOK, OpsOK, Segs, Grain, Offs, Img, Entry, Tag, Slot, Streams, Waiting, Writing
<1>4. Covered(Held(map', op', open'), valid', segst')
  <2>1. Held(map, op, open) \subseteq Grain
    BY HeldIn DEF KeepInv, TypesOK
  <2>2. Covered(Held(map, op, open), valid, segst)
    BY DEF KeepInv, StoreOK, Loaded
  <2>3. Covered(Held(map', op', p), Invalidated(valid, gs), Settled(Invalidated(valid, gs), segst, p))
    BY <2>1, <2>2, SettledCovers
  <2> QED
    BY <1>1, <2>3
<1>5. /\ \A s \in Segs : segst'[s] = "data" => segst[s] = "data"
      /\ \A s \in Segs : segst[s] = "dir" => segst'[s] = "dir"
      /\ \A s \in Segs : segst[s] = "data" /\ (\E st \in Streams : p[st].seg = s) => segst'[s] = "data"
  BY <1>1, SettledOwners
<1>6. StreamsOK(open', segst')
  <2>1. StreamsOK(open, segst)
    BY DEF KeepInv, StoreOK, Loaded
  <2>2. \A st \in Streams : p[st].seg # None => segst'[p[st].seg] = "data"
    <3> SUFFICES ASSUME NEW st \in Streams, p[st].seg # None PROVE segst'[p[st].seg] = "data"
      OBVIOUS
    <3>1. p[st].seg = open[st].seg /\ p[st].seg \in Segs
      BY DEF Slot
    <3>2. segst[p[st].seg] = "data"
      BY <2>1, <3>1 DEF StreamsOK
    <3> QED
      BY <1>5, <3>1, <3>2
  <2>3. p[User].seg # None => p[User].seg # p[Reloc].seg
    BY <2>1 DEF StreamsOK, Streams
  <2> QED
    BY <1>1, <2>2, <2>3 DEF StreamsOK
<1>7. Apart(map', op', open')
  BY <1>1
<1>8. /\ Fresh(open', unstamped') = Fresh(open, unstamped)
      /\ \A st \in unstamped' : open'[st].seg # None /\ open'[st].nr = 0
  BY <1>1 DEF Fresh, KeepInv, StoreOK, Loaded
<1> QED
  BY <1>3, <1>4, <1>5, <1>6, <1>7, <1>8, UseStep

\* The store in use, as far as its operations and streams are concerned
LEMMA InUse ==
  ASSUME KeepInv, mode = "up"
  PROVE  /\ Apart(map, op, open) /\ StreamsOK(open, segst) /\ OpsOK(op)
         /\ Covered(Held(map, op, open), valid, segst)
         /\ map \subseteq Entry /\ (~conf.dels => \A e \in map : ~e.del)
         /\ dimg \in [Segs -> Img] /\ vals \in Nat
         /\ open \in [Streams -> Slot] /\ unstamped \subseteq Streams
BY DEF KeepInv, StoreOK, Loaded, TypesOK

\* Nothing is untagged when no image changes.
LEMMA SameTags == Untagged(dimg, dimg)
BY DEF Untagged

\* One operation changes.
LEMMA OneOp ==
  ASSUME NEW o, OpsOK(o), NEW t \in Threads, NEW x, x \in {Idle} \cup Waiting \cup Writing,
         ~conf.dels => x = Idle \/ x.val # 0, NEW n, n = [o EXCEPT ![t] = x]
  PROVE  OpsOK(n) /\ n[t] = x /\ \A u \in Threads : u # t => n[u] = o[u]
<1>1. n \in [Threads -> {Idle} \cup Waiting \cup Writing] /\ n[t] = x /\ \A u \in Threads : u # t => n[u] = o[u]
  BY DEF OpsOK
<1>2. OpsOK(n)
  BY <1>1 DEF OpsOK
<1> QED
  BY <1>1, <1>2

\* It gives up its grain, if it had one.
LEMMA GivesUp ==
  ASSUME NEW o, OpsOK(o), NEW t \in Threads, NEW x, x.what \notin {"write", "map"},
         NEW n, n = [o EXCEPT ![t] = x]
  PROVE  Writers(n) = Writers(o) \ {t}
BY DEF Writers, OpsOK

\* put() and del() begin.
LEMMA BeginStep ==
  ASSUME KeepInv, NEW t \in Threads, NEW k \in Keys, NEW del \in BOOLEAN, Begin(t, k, del)
  PROVE  KeepInv'
<1>1. mode = "up" /\ op[t] = Idle
  BY DEF Begin
<1>2. /\ Apart(map, op, open) /\ StreamsOK(open, segst) /\ OpsOK(op)
      /\ dimg \in [Segs -> Img] /\ vals \in Nat
  BY <1>1, InUse
<1> DEFINE x == [what |-> "alloc", key |-> k, val |-> IF del THEN 0 ELSE vals + 1]
<1>3. op' = [op EXCEPT ![t] = x] /\ vals' = vals + 1 /\ (del => conf.dels)
  BY DEF Begin
<1>4. x \in Waiting /\ (~conf.dels => x.val # 0) /\ x.what \notin {"write", "map"}
  BY <1>2, <1>3 DEF Waiting
<1> HIDE DEF x
<1>5. OpsOK(op') /\ \A u \in Threads : u # t => op'[u] = op[u]
  <2>1. x \in {Idle} \cup Waiting \cup Writing /\ (~conf.dels => x = Idle \/ x.val # 0)
    BY <1>4
  <2>2. OpsOK(op')
    BY <1>2, <1>3, <2>1, OneOp
  <2>3. \A u \in Threads : u # t => op'[u] = op[u]
    BY <1>2, <1>3, <2>1, OneOp
  <2> QED
    BY <2>2, <2>3
<1>6. Writers(op') = Writers(op) /\ \A u \in Writers(op) : op'[u] = op[u]
  <2>1. Writers(op') = Writers(op) \ {t}
    BY <1>2, <1>3, <1>4, GivesUp
  <2> QED
    BY <1>1, <1>5, <2>1 DEF Writers, Idle
<1>7. Held(map, op', open) = Held(map, op, open)
  BY <1>6 DEF Held
<1>8. Apart(map, op', open)
  BY <1>2, <1>6 DEF Apart
<1>9. UNCHANGED <<conf, mode, dev, seed, dir, starts, smd, unstamped, segst, valid, map, open, dimg>>
  BY DEF Begin, durable
<1>10. /\ vals' \in Nat /\ dimg' \in [Segs -> Img] /\ Untagged(dimg, dimg') /\ dimg' = dimg
       /\ StreamsOK(open', segst) /\ Apart(map, op', open') /\ Held(map, op', open') \subseteq Held(map, op, open)
  <2>1. vals' \in Nat
    BY <1>2, <1>3
  <2>2. dimg' \in [Segs -> Img] /\ Untagged(dimg, dimg') /\ dimg' = dimg
    BY <1>2, <1>9, SameTags
  <2>3. StreamsOK(open', segst)
    BY <1>2, <1>9
  <2>4. Apart(map, op', open')
    BY <1>8, <1>9
  <2>5. Held(map, op', open') \subseteq Held(map, op, open)
    BY <1>7, <1>9
  <2> QED
    BY <2>1, <2>2, <2>3, <2>4, <2>5
<1> QED
  BY <1>1, <1>5, <1>9, <1>10, PlainStep

\* A stream gives out its next grain.
LEMMA StreamGives ==
  ASSUME NEW ow, StreamsOK(open, ow), NEW st \in Streams, open[st].seg # None, open[st].nr < SegSize,
         NEW p, p = [open EXCEPT ![st].nr = @ + 1], NEW g, g = <<open[st].seg, open[st].nr>>
  PROVE  /\ StreamsOK(p, ow) /\ \A x \in Streams : p[x].seg = open[x].seg
         /\ g \in Grain /\ g \in Rest(open) /\ g \notin Rest(p) /\ Rest(p) \subseteq Rest(open)
         /\ ow[g[1]] = "data"
<1>1. SegSize \in Nat /\ open \in [Streams -> Slot]
  BY RecoveryAssumption DEF StreamsOK
<1>2. open[st].seg \in Segs /\ open[st].nr \in 0 .. SegSize - 1 /\ g[1] = open[st].seg /\ g[2] = open[st].nr
  BY <1>1 DEF Slot
<1>3. g \in Grain
  BY <1>2 DEF Grain, Offs
<1>4. p[st] = [seg |-> open[st].seg, nr |-> open[st].nr + 1] /\ \A x \in Streams : x # st => p[x] = open[x]
  BY <1>1 DEF Slot
<1>5. p = [x \in Streams |-> p[x]]
  BY <1>1
<1>6. p[st] \in Slot
  BY <1>1, <1>2, <1>4 DEF Slot
<1>7. p \in [Streams -> Slot] /\ \A x \in Streams : p[x].seg = open[x].seg
  <2>1. \A x \in Streams : p[x] \in Slot
    BY <1>1, <1>4, <1>6
  <2>2. p \in [Streams -> Slot]
    BY <1>5, <2>1
  <2>3. p[st].seg = open[st].seg
    BY <1>4
  <2>4. \A x \in Streams : x # st => p[x].seg = open[x].seg
    BY <1>4
  <2> QED
    BY <2>2, <2>3, <2>4
<1>8. StreamsOK(p, ow)
  BY <1>7 DEF StreamsOK, Streams
<1>9. g \in Rest(open)
  BY <1>1, <1>2, <1>3 DEF Rest, Slot
<1>10. g \notin Rest(p)
  <2> SUFFICES ASSUME NEW x \in Streams, p[x].seg = g[1], p[x].nr <= g[2] PROVE FALSE
    BY DEF Rest
  <2>1. CASE x = st
    BY <1>2, <1>4, <2>1
  <2>2. CASE x # st
    <3>1. open[x].seg = open[st].seg
      BY <1>2, <1>7
    <3> QED
      BY <2>2, <3>1 DEF StreamsOK, Streams, User, Reloc
  <2> QED
    BY <2>1, <2>2
<1>11. Rest(p) \subseteq Rest(open)
  <2> SUFFICES ASSUME NEW h \in Grain, NEW x \in Streams, p[x].seg = h[1], p[x].nr <= h[2]
               PROVE  \E y \in Streams : open[y].seg = h[1] /\ open[y].nr <= h[2]
    BY DEF Rest
  <2>1. open[x].seg = h[1]
    BY <1>7
  <2>2. open[x].nr <= h[2]
    <3>1. h[2] \in Int /\ open[x].nr \in Int
      BY <1>1, GrainIs DEF Offs, Slot
    <3> QED
      BY <1>2, <1>4, <3>1
  <2> QED
    BY <2>1, <2>2
<1>12. ow[g[1]] = "data"
  BY <1>2 DEF StreamsOK
<1> QED
  BY <1>3, <1>7, <1>8, <1>9, <1>10, <1>11, <1>12

\* allocate_grains() for an operation: the grain goes from the stream to it.
LEMMA AllocateStep ==
  ASSUME KeepInv, NEW t \in Threads, Allocate(t)
  PROVE  KeepInv'
<1>1. /\ mode = "up" /\ op[t].what = "alloc" /\ open[User].seg # None /\ open[User].nr < SegSize
      /\ User \notin unstamped
  BY DEF Allocate, Staged
<1>2. /\ Apart(map, op, open) /\ StreamsOK(open, segst) /\ OpsOK(op)
      /\ dimg \in [Segs -> Img] /\ vals \in Nat
  BY <1>1, InUse
<1> DEFINE g == <<open[User].seg, open[User].nr>>
           x == [what |-> "write", key |-> op[t].key, val |-> op[t].val, g |-> g]
<1>3. op' = [op EXCEPT ![t] = x] /\ open' = [open EXCEPT ![User].nr = @ + 1]
  BY DEF Allocate
<1>4. User \in Streams
  BY DEF Streams
<1>5. /\ StreamsOK(open', segst)
      /\ g \in Grain /\ g \in Rest(open) /\ g \notin Rest(open') /\ Rest(open') \subseteq Rest(open)
  BY <1>1, <1>2, <1>3, <1>4, StreamGives
<1> HIDE DEF g
<1>6. x \in Writing /\ (~conf.dels => x.val # 0) /\ x.what \in {"write", "map"} /\ x.g = g
  <2>1. op[t] \in Waiting
    BY <1>1, <1>2 DEF OpsOK, Idle, Writing
  <2>2. ~conf.dels => op[t].val # 0
    BY <1>1, <1>2 DEF OpsOK, Idle
  <2> QED
    BY <1>5, <2>1, <2>2 DEF Waiting, Writing
<1> HIDE DEF x
<1>7. OpsOK(op') /\ op'[t] = x /\ \A u \in Threads : u # t => op'[u] = op[u]
  <2>1. x \in {Idle} \cup Waiting \cup Writing /\ (~conf.dels => x = Idle \/ x.val # 0)
    BY <1>6
  <2>2. OpsOK(op')
    BY <1>2, <1>3, <2>1, OneOp
  <2>3. op'[t] = x /\ \A u \in Threads : u # t => op'[u] = op[u]
    BY <1>2, <1>3 DEF OpsOK
  <2> QED
    BY <2>2, <2>3
<1>8. Writers(op') = Writers(op) \cup {t} /\ t \notin Writers(op)
  <2>1. Writers(op') = Writers(op) \cup {t}
    BY <1>6, <1>7 DEF Writers
  <2> QED
    BY <1>1, <2>1 DEF Writers
<1>9. \A u \in Writers(op) : op'[u] = op[u] /\ u \in Threads
  BY <1>7, <1>8 DEF Writers
<1>10. Held(map, op', open') \subseteq Held(map, op, open)
  BY <1>5, <1>6, <1>7, <1>8, <1>9 DEF Held
<1>11. Apart(map, op', open')
  <2>1. \A u \in Writers(op) : op'[u].g # g
    BY <1>2, <1>5, <1>9 DEF Apart
  <2>2. \A u, w \in Writers(op') : op'[u].g = op'[w].g => u = w
    BY <1>2, <1>6, <1>7, <1>8, <1>9, <2>1 DEF Apart
  <2>3. \A e \in map, u \in Writers(op') : e.pba # op'[u].g
    BY <1>2, <1>5, <1>6, <1>7, <1>8, <1>9 DEF Apart
  <2>4. \A h \in Rest(open') : (\A e \in map : e.pba # h) /\ \A u \in Writers(op') : op'[u].g # h
    BY <1>2, <1>5, <1>6, <1>7, <1>8, <1>9 DEF Apart
  <2> QED
    BY <1>2, <2>2, <2>3, <2>4 DEF Apart
<1>12. UNCHANGED <<conf, mode, dev, seed, dir, starts, smd, unstamped, segst, valid, map, vals, dimg>>
  BY DEF Allocate, durable
<1>13. vals' \in Nat /\ dimg' \in [Segs -> Img] /\ Untagged(dimg, dimg') /\ dimg' = dimg
  BY <1>2, <1>12, SameTags
<1>14. \A st \in unstamped : open'[st] = open[st]
  BY <1>1, <1>2, <1>3, InUse DEF StreamsOK
<1> QED
  BY <1>1, <1>5, <1>7, <1>10, <1>11, <1>12, <1>13, <1>14, PlainStep

\* A delete whose entry is gone gives up its grain.
LEMMA DelGoneStep ==
  ASSUME KeepInv, NEW t \in Threads, DelGone(t)
  PROVE  KeepInv'
<1>1. mode = "up" /\ op' = [op EXCEPT ![t] = Idle]
  BY DEF DelGone
<1>2. /\ Apart(map, op, open) /\ StreamsOK(open, segst) /\ OpsOK(op)
      /\ dimg \in [Segs -> Img] /\ vals \in Nat
  BY <1>1, InUse
<1>3. OpsOK(op')
  BY <1>1, <1>2, OneOp
<1>4. \A u \in Threads : u # t => op'[u] = op[u]
  BY <1>1, <1>2, OneOp
<1>5. Writers(op') = Writers(op) \ {t}
  <2>1. Idle.what \notin {"write", "map"}
    BY DEF Idle
  <2> QED
    BY <1>1, <1>2, <2>1, GivesUp
<1>6. \A u \in Writers(op') : u \in Writers(op) /\ op'[u] = op[u]
  BY <1>4, <1>5 DEF Writers
<1>7. UNCHANGED <<conf, mode, dev, seed, dir, starts, smd, unstamped, segst, valid, map, open, vals, dimg>>
  BY DEF DelGone, durable
<1>8. Apart(map, op', open')
  <2>1. Apart(map, op', open)
    BY <1>2, <1>6 DEF Apart
  <2> QED
    BY <1>7, <2>1
<1>9. Held(map, op', open') \subseteq Held(map, op, open)
  <2>1. Held(map, op', open) \subseteq Held(map, op, open)
    BY <1>6 DEF Held
  <2> QED
    BY <1>7, <2>1
<1>10. vals' \in Nat /\ dimg' \in [Segs -> Img] /\ Untagged(dimg, dimg') /\ dimg' = dimg /\ StreamsOK(open', segst)
  BY <1>2, <1>7, SameTags
<1> QED
  BY <1>1, <1>3, <1>7, <1>8, <1>9, <1>10, PlainStep

\* A grain that is held is in a data segment.
LEMMA HeldData ==
  ASSUME NEW G, NEW v, NEW ow, Covered(G, v, ow), NEW g \in G, g \in Grain
  PROVE  ow[g[1]] = "data"
<1>1. g[1] \in Segs
  BY GrainIs
<1>2. In(G, g[1]) # {}
  BY DEF In
<1> QED
  BY <1>1, <1>2 DEF Covered

\* A record that is written overwrites at most the tags of its own segment.
LEMMA OverwrittenIs ==
  ASSUME NEW img, img \in [Segs -> Img], NEW g \in Grain
  PROVE  /\ Overwritten(img, g) \in [Segs -> Img] /\ Untagged(img, Overwritten(img, g))
         /\ \A s \in Segs : s # g[1] => Overwritten(img, g)[s] = img[s]
<1>1. g[1] \in Segs
  BY GrainIs
<1> DEFINE new == Overwritten(img, g)
<1>2. /\ new = [s \in Segs |-> new[s]]
      /\ \A s \in Segs : s # g[1] => new[s] = img[s]
      /\ new[g[1]] = [hdr |-> IF g[2] = 0 THEN NoTag ELSE img[g[1]].hdr,
                      ftr |-> IF g[2] = SegSize - 1 THEN NoTag ELSE img[g[1]].ftr,
                      ents |-> img[g[1]].ents]
  BY <1>1 DEF Overwritten, Img
<1>3. NoTag \in Tag
  BY DEF NoTag, Tag
<1> HIDE DEF new
<1>4. new[g[1]] \in Img
  BY <1>1, <1>2, <1>3 DEF Img
<1>5. \A s \in Segs : new[s] \in Img
  BY <1>2, <1>4
<1>6. Untagged(img, new)
  BY <1>2 DEF Untagged
<1> QED
  BY <1>2, <1>5, <1>6 DEF new

\* local_put_mbuff_io(): the record goes to a grain that the operation holds.
LEMMA WriteStep ==
  ASSUME KeepInv, NEW t \in Threads, Write(t)
  PROVE  KeepInv'
<1>1. mode = "up" /\ op[t].what = "write"
  BY DEF Write
<1>2. /\ Apart(map, op, open) /\ StreamsOK(open, segst) /\ OpsOK(op) /\ map \subseteq Entry
      /\ dimg \in [Segs -> Img] /\ vals \in Nat
  BY <1>1, InUse
<1>3. op[t] \in Writing /\ (~conf.dels => op[t].val # 0)
  BY <1>1, <1>2 DEF OpsOK, Idle, Waiting
<1> DEFINE g == op[t].g
           x == [what |-> "map", key |-> op[t].key, val |-> op[t].val, g |-> g]
<1>4. g \in Grain /\ x \in Writing /\ x.what \in {"write", "map"} /\ x.val = op[t].val /\ x.g = g
  BY <1>3 DEF Writing
<1>5. op' = [op EXCEPT ![t] = x] /\ dimg' = Overwritten(dimg, g)
  <2>1. [op[t] EXCEPT !.what = "map"] = x
    BY <1>3 DEF Writing
  <2>2. op' = [op EXCEPT ![t] = [op[t] EXCEPT !.what = "map"]] /\ dimg' = Overwritten(dimg, g)
    BY DEF Write
  <2> QED
    BY <2>1, <2>2
<1> HIDE DEF x
<1>6. OpsOK(op') /\ op'[t] = x /\ \A u \in Threads : u # t => op'[u] = op[u]
  <2>1. x \in {Idle} \cup Waiting \cup Writing /\ (~conf.dels => x = Idle \/ x.val # 0)
    BY <1>3, <1>4
  <2>2. OpsOK(op')
    BY <1>2, <1>5, <2>1, OneOp
  <2>3. op'[t] = x /\ \A u \in Threads : u # t => op'[u] = op[u]
    BY <1>2, <1>5 DEF OpsOK
  <2> QED
    BY <2>2, <2>3
<1>7. Writers(op') = Writers(op)
  BY <1>1, <1>4, <1>6 DEF Writers
<1>8. \A u \in Writers(op) : op'[u].g = op[u].g
  BY <1>4, <1>6 DEF Writers
<1>9. UNCHANGED <<conf, mode, dev, seed, dir, starts, smd, unstamped, segst, valid, map, open, vals>>
  BY DEF Write
<1>10. Apart(map, op', open') /\ Held(map, op', open') = Held(map, op, open)
  <2>1. Apart(map, op', open)
    BY <1>2, <1>7, <1>8 DEF Apart
  <2>2. Held(map, op', open) = Held(map, op, open)
    BY <1>7, <1>8 DEF Held
  <2> QED
    BY <1>9, <2>1, <2>2
<1>11. segst[g[1]] = "data"
  <2>1. g \in Held(map, op, open)
    BY <1>1 DEF Held, Writers
  <2>2. Covered(Held(map, op, open), valid, segst)
    BY <1>1, InUse
  <2> QED
    BY <1>4, <2>1, <2>2, HeldData
<1> HIDE DEF g
<1>12. /\ dimg' \in [Segs -> Img] /\ Untagged(dimg, dimg')
       /\ \A s \in Segs : segst[s] # "data" => dimg'[s] = dimg[s]
  BY <1>2, <1>4, <1>5, <1>11, OverwrittenIs
<1>13. vals' \in Nat /\ StreamsOK(open', segst) /\ Held(map, op', open') \subseteq Held(map, op, open)
  BY <1>2, <1>9, <1>10
<1> QED
  BY <1>1, <1>6, <1>9, <1>10, <1>12, <1>13, PlainStep

\* set_mapping() and the end of local_del_mbuff(): the entry takes over the
\* operation's grain, and the grains of the entries that go are invalidated.
LEMMA SetMappingStep ==
  ASSUME KeepInv, NEW t \in Threads, SetMapping(t)
  PROVE  KeepInv'
<1>1. mode = "up" /\ op[t].what = "map" /\ op' = [op EXCEPT ![t] = Idle]
  BY DEF SetMapping, Acknowledge
<1>2. /\ Apart(map, op, open) /\ StreamsOK(open, segst) /\ OpsOK(op) /\ map \subseteq Entry
      /\ (~conf.dels => \A e \in map : ~e.del) /\ dimg \in [Segs -> Img] /\ open \in [Streams -> Slot]
  BY <1>1, InUse
<1>3. op[t] \in Writing /\ (~conf.dels => op[t].val # 0)
  BY <1>1, <1>2 DEF OpsOK, Idle, Waiting
<1> DEFINE g == op[t].g
           new == [key |-> op[t].key, pba |-> g, del |-> op[t].val = 0]
<1>4. new \in Entry /\ new.pba = g /\ (~conf.dels => ~new.del) /\ g \in Grain
  BY <1>3 DEF Writing, Entry
<1>5. PICK gone : gone \subseteq map /\ map' = (map \ gone) \cup {new} /\ Settle({e.pba : e \in gone}, open)
  BY DEF SetMapping, EntryOf, Live
<1>6. OpsOK(op')
  BY <1>1, <1>2, OneOp
<1>7. \A u \in Threads : u # t => op'[u] = op[u]
  BY <1>1, <1>2, OneOp
<1>8. Writers(op') = Writers(op) \ {t}
  <2>1. Idle.what \notin {"write", "map"}
    BY DEF Idle
  <2> QED
    BY <1>1, <1>2, <2>1, GivesUp
<1>9. \A u \in Writers(op') : u \in Writers(op) /\ u # t /\ op'[u] = op[u]
  BY <1>7, <1>8 DEF Writers
<1>10. t \in Writers(op)
  BY <1>1 DEF Writers
<1> DEFINE gs == {e.pba : e \in gone}
<1>11. gs \subseteq Held(map, op, open)
  BY <1>5 DEF Held
<1> HIDE DEF new
<1>12. Held(map', op', open) \subseteq Held(map, op, open) \ gs
  <2>1. g \notin gs
    BY <1>2, <1>5, <1>10 DEF Apart
  <2>2. \A e \in map \ gone : e.pba \notin gs
    BY <1>2, <1>5 DEF Apart
  <2>3. \A u \in Writers(op) : op[u].g \notin gs
    BY <1>2, <1>5 DEF Apart
  <2>4. \A h \in Rest(open) : h \notin gs
    BY <1>2, <1>5 DEF Apart
  <2> HIDE DEF gs
  <2> QED
    BY <1>4, <1>5, <1>9, <1>10, <2>1, <2>2, <2>3, <2>4 DEF Held
<1>13. Apart(map', op', open)
  <2>1. \A e \in map : e.pba # g
    BY <1>2, <1>10 DEF Apart
  <2>2. \A e, f \in map' : e.pba = f.pba => e = f
    BY <1>2, <1>4, <1>5, <2>1 DEF Apart
  <2>3. \A u, w \in Writers(op') : op'[u].g = op'[w].g => u = w
    BY <1>2, <1>9 DEF Apart
  <2>4. \A e \in map', u \in Writers(op') : e.pba # op'[u].g
    BY <1>2, <1>4, <1>5, <1>9, <1>10 DEF Apart
  <2>5. \A h \in Rest(open) : (\A e \in map' : e.pba # h) /\ \A u \in Writers(op') : op'[u].g # h
    BY <1>2, <1>4, <1>5, <1>9, <1>10 DEF Apart
  <2> QED
    BY <2>2, <2>3, <2>4, <2>5 DEF Apart
<1>14. UNCHANGED <<conf, mode, dev, seed, dir, starts, smd, unstamped, vals, dimg>>
  BY DEF SetMapping, durable
<1>15. dimg' \in [Segs -> Img] /\ Untagged(dimg, dimg') /\ dimg' = dimg
  BY <1>2, <1>14, SameTags
<1>16. map' \subseteq Entry /\ (~conf.dels => \A e \in map' : ~e.del)
  BY <1>2, <1>4, <1>5
<1> HIDE DEF gs
<1>17. Settle(gs, open)
  BY <1>5 DEF gs
<1> QED
  BY <1>1, <1>2, <1>6, <1>11, <1>12, <1>13, <1>14, <1>15, <1>16, <1>17, SettleStep

\* The grains of the open segment that were not given out, and streams that
\* have none of them
Left == {<<open[User].seg, o>> : o \in open[User].nr .. SegSize - 1}
Drained(p) ==
  /\ p \in [Streams -> Slot] /\ \A x \in Streams : p[x].seg \in {open[x].seg, None}
  /\ Left \subseteq Rest(open) /\ Rest(p) \subseteq Rest(open) /\ \A h \in Rest(p) : h \notin Left

\* A stream gives up the rest of its segment.
LEMMA StreamDrains ==
  ASSUME StreamsOK(open, segst), open[User].seg # None, NEW p, p = [open EXCEPT ![User] = Closed]
  PROVE  Drained(p)
<1>1. SegSize \in Nat \ {0} /\ open \in [Streams -> Slot] /\ User \in Streams /\ Reloc \in Streams
  BY RecoveryAssumption DEF StreamsOK, Streams
<1>2. open[User].seg \in Segs /\ open[User].nr \in 0 .. SegSize
  BY <1>1 DEF Slot
<1>3. p[User] = Closed /\ \A x \in Streams : x # User => p[x] = open[x]
  BY <1>1
<1>4. Closed \in Slot /\ Closed.seg = None /\ None \notin Segs
  BY <1>1 DEF Closed, Slot, None, Segs
<1>5. p \in [Streams -> Slot] /\ \A x \in Streams : p[x].seg \in {open[x].seg, None}
  <2>1. p = [x \in Streams |-> p[x]]
    BY <1>1
  <2>2. \A x \in Streams : p[x] \in Slot
    BY <1>1, <1>3, <1>4
  <2> QED
    BY <1>3, <1>4, <2>1, <2>2
<1>6. Left \subseteq Rest(open)
  <2> SUFFICES ASSUME NEW o \in open[User].nr .. SegSize - 1 PROVE <<open[User].seg, o>> \in Rest(open)
    BY DEF Left
  <2>1. <<open[User].seg, o>> \in Grain
    BY <1>1, <1>2 DEF Grain, Offs
  <2>2. open[User].nr <= o
    BY <1>1, <1>2
  <2> QED
    BY <1>1, <2>1, <2>2 DEF Rest
<1>7. ASSUME NEW h \in Rest(p) PROVE h \in Rest(open) /\ h \notin Left
  <2>1. PICK x \in Streams : h \in Grain /\ p[x].seg = h[1] /\ p[x].nr <= h[2]
    BY DEF Rest
  <2>2. h[1] \in Segs
    BY <2>1, GrainIs
  <2>3. x # User
    BY <1>3, <1>4, <2>1, <2>2
  <2>4. x = Reloc /\ p[x] = open[x]
    BY <1>3, <2>3 DEF Streams
  <2>5. h \in Rest(open)
    BY <2>1, <2>4 DEF Rest
  <2>6. h[1] # open[User].seg
    BY <2>1, <2>4 DEF StreamsOK
  <2> QED
    BY <2>5, <2>6 DEF Left
<1> QED
  BY <1>5, <1>6, <1>7 DEF Drained

\* The order of the log is not that of the operations: a put gives up its
\* grain and its stream the rest, and both are invalidated.
LEMMA WriteAgainStep ==
  ASSUME KeepInv, NEW t \in Threads, WriteAgain(t)
  PROVE  KeepInv'
<1> DEFINE x == [what |-> "alloc", key |-> op[t].key, val |-> op[t].val]
           g == op[t].g
           put == op[t].val # 0
           drain == put /\ Staged(User) /\ \A e \in EntryOf(map, op[t].key) : e.pba[1] # g[1]
           gs == (IF put THEN {g} ELSE {}) \cup (IF drain THEN Left ELSE {})
           p == IF drain THEN [open EXCEPT ![User] = Closed] ELSE open
<1>1. mode = "up" /\ op[t].what = "map" /\ op' = [op EXCEPT ![t] = x] /\ Settle(gs, p)
  BY DEF WriteAgain, Left
<1>2. UNCHANGED <<conf, mode, dev, seed, dir, starts, smd, unstamped, vals, dimg, map>>
  BY DEF WriteAgain, durable
<1>3. /\ Apart(map, op, open) /\ StreamsOK(open, segst) /\ OpsOK(op) /\ map \subseteq Entry
      /\ (~conf.dels => \A e \in map : ~e.del) /\ dimg \in [Segs -> Img] /\ open \in [Streams -> Slot]
  BY <1>1, InUse
<1>4. op[t] \in Writing /\ (~conf.dels => op[t].val # 0)
  BY <1>1, <1>3 DEF OpsOK, Idle, Waiting
<1>5. x \in Waiting /\ (~conf.dels => x.val # 0) /\ x.what \notin {"write", "map"} /\ g \in Grain
  BY <1>4 DEF Waiting, Writing
<1> HIDE DEF x
<1>6. OpsOK(op')
  <2>1. x \in {Idle} \cup Waiting \cup Writing /\ (~conf.dels => x = Idle \/ x.val # 0)
    BY <1>5
  <2> QED
    BY <1>1, <1>3, <2>1, OneOp
<1>7. \A u \in Threads : u # t => op'[u] = op[u]
  BY <1>1, <1>3 DEF OpsOK
<1>8. Writers(op') = Writers(op) \ {t}
  BY <1>1, <1>3, <1>5, GivesUp
<1>9. t \in Writers(op) /\ \A u \in Writers(op') : u \in Writers(op) /\ u # t /\ op'[u] = op[u]
  BY <1>1, <1>7, <1>8 DEF Writers
<1>10. /\ p \in [Streams -> Slot] /\ \A st \in Streams : p[st].seg \in {open[st].seg, None}
       /\ Rest(p) \subseteq Rest(open) /\ (drain => Left \subseteq Rest(open) /\ \A h \in Rest(p) : h \notin Left)
  <2>1. CASE drain
    <3>1. p = [open EXCEPT ![User] = Closed] /\ open[User].seg # None
      BY <2>1 DEF Staged
    <3> HIDE DEF p, drain
    <3>2. Drained(p)
      BY <1>3, <3>1, StreamDrains
    <3> QED
      BY <3>2 DEF Drained
  <2>2. CASE ~drain
    <3>1. p = open
      BY <2>2
    <3> QED
      BY <1>3, <2>2, <3>1
  <2> QED
    BY <2>1, <2>2
<1>17. \A st \in unstamped : p[st] = open[st]
  BY <1>1, <1>3, InUse DEF Staged
<1>11. \A h \in gs : h = g \/ (drain /\ h \in Left)
  OBVIOUS
<1> HIDE DEF gs, p, g, drain, put
<1>12. gs \subseteq Held(map, op, open)
  <2>1. g \in Held(map, op, open)
    BY <1>9 DEF Held, g
  <2> QED
    BY <1>10, <1>11, <2>1 DEF Held
<1>13. Held(map, op', p) \subseteq Held(map, op, open) \ gs
  <2>1. \A e \in map : e.pba \notin gs
    BY <1>3, <1>9, <1>10, <1>11 DEF Apart, g
  <2>2. \A u \in Writers(op') : op'[u].g \notin gs
    BY <1>3, <1>9, <1>10, <1>11 DEF Apart, g
  <2>3. \A h \in Rest(p) : h \notin gs
    BY <1>3, <1>9, <1>10, <1>11 DEF Apart, g
  <2> QED
    BY <1>9, <1>10, <2>1, <2>2, <2>3 DEF Held
<1>14. Apart(map, op', p)
  BY <1>3, <1>9, <1>10 DEF Apart
<1>15. dimg' \in [Segs -> Img] /\ Untagged(dimg, dimg') /\ dimg' = dimg
  BY <1>2, <1>3, SameTags
<1>16. /\ map' \subseteq Entry /\ (~conf.dels => \A e \in map' : ~e.del)
       /\ Apart(map', op', p) /\ Held(map', op', p) \subseteq Held(map, op, open) \ gs
  BY <1>2, <1>3, <1>13, <1>14
<1> QED
  BY <1>1, <1>2, <1>6, <1>10, <1>12, <1>15, <1>16, <1>17, SettleStep

\* local_gc_callback(): the entry moves to a grain of the relocation stream.
LEMMA RelocateStep ==
  ASSUME KeepInv, relocate
  PROVE  KeepInv'
<1> DEFINE g == <<open[Reloc].seg, open[Reloc].nr>>
           p == [open EXCEPT ![Reloc].nr = @ + 1]
<1>1. mode = "up" /\ open[Reloc].seg # None /\ open[Reloc].nr < SegSize /\ Reloc \notin unstamped
  BY DEF relocate, Staged
<1>2. /\ Apart(map, op, open) /\ StreamsOK(open, segst) /\ OpsOK(op) /\ map \subseteq Entry
      /\ (~conf.dels => \A e \in map : ~e.del) /\ dimg \in [Segs -> Img] /\ open \in [Streams -> Slot]
  BY <1>1, InUse
<1>3. PICK e \in map : /\ map' = (map \ {e}) \cup {[e EXCEPT !.pba = g]} /\ ~e.del
                       /\ Settle({e.pba}, p) /\ dimg' = Overwritten(dimg, g)
  BY DEF relocate, Live
<1>4. UNCHANGED <<conf, mode, dev, seed, dir, starts, smd, unstamped, vals, op>>
  BY DEF relocate
<1>5. Reloc \in Streams
  BY DEF Streams
<1> HIDE DEF g, p
<1>6. /\ StreamsOK(p, segst) /\ \A x \in Streams : p[x].seg = open[x].seg
      /\ g \in Grain /\ g \in Rest(open) /\ g \notin Rest(p) /\ Rest(p) \subseteq Rest(open)
      /\ segst[g[1]] = "data"
  BY <1>1, <1>2, <1>5, StreamGives DEF g, p
<1> DEFINE f == [e EXCEPT !.pba = g]
<1>7. f \in Entry /\ f.pba = g /\ ~f.del
  BY <1>2, <1>3, <1>6 DEF Entry
<1>8. map' = (map \ {e}) \cup {f}
  BY <1>3
<1> HIDE DEF f
<1>9. {e.pba} \subseteq Held(map, op, open)
  BY DEF Held
<1>10. Held(map', op, p) \subseteq Held(map, op, open) \ {e.pba}
  <2>1. \A d \in map \ {e} : d.pba # e.pba
    BY <1>2 DEF Apart
  <2>2. \A u \in Writers(op) : op[u].g # e.pba
    BY <1>2 DEF Apart
  <2>3. \A h \in Rest(open) : h # e.pba
    BY <1>2 DEF Apart
  <2> QED
    BY <1>6, <1>7, <1>8, <2>1, <2>2, <2>3 DEF Held
<1>11. Apart(map', op, p)
  <2>1. \A d \in map : d.pba # g
    BY <1>2, <1>6 DEF Apart
  <2>2. \A c, d \in map' : c.pba = d.pba => c = d
    BY <1>2, <1>7, <1>8, <2>1 DEF Apart
  <2>3. \A d \in map', u \in Writers(op) : d.pba # op[u].g
    BY <1>2, <1>6, <1>7, <1>8 DEF Apart
  <2>4. \A h \in Rest(p) : (\A d \in map' : d.pba # h) /\ \A u \in Writers(op) : op[u].g # h
    BY <1>2, <1>6, <1>7, <1>8 DEF Apart
  <2> QED
    BY <1>2, <2>2, <2>3, <2>4 DEF Apart
<1>12. /\ dimg' \in [Segs -> Img] /\ Untagged(dimg, dimg')
       /\ \A s \in Segs : segst[s] # "data" => dimg'[s] = dimg[s]
  BY <1>2, <1>3, <1>6, OverwrittenIs
<1>13. map' \subseteq Entry /\ (~conf.dels => \A d \in map' : ~d.del)
  BY <1>2, <1>7, <1>8
<1>14. p \in [Streams -> Slot] /\ \A st \in Streams : p[st].seg \in {open[st].seg, None}
  BY <1>6 DEF StreamsOK
<1>15. OpsOK(op') /\ Apart(map', op', p) /\ Held(map', op', p) \subseteq Held(map, op, open) \ {e.pba}
  BY <1>2, <1>4, <1>10, <1>11
<1>16. \A st \in unstamped : p[st] = open[st]
  BY <1>1, <1>2, InUse DEF p
<1> QED
  BY <1>1, <1>3, <1>4, <1>9, <1>12, <1>13, <1>14, <1>15, <1>16, SettleStep

\* A tombstone is dropped with its entry.
LEMMA PurgeStep ==
  ASSUME KeepInv, purge
  PROVE  KeepInv'
<1>1. mode = "up"
  BY DEF purge
<1>2. /\ Apart(map, op, open) /\ StreamsOK(open, segst) /\ OpsOK(op) /\ map \subseteq Entry
      /\ (~conf.dels => \A e \in map : ~e.del) /\ dimg \in [Segs -> Img] /\ open \in [Streams -> Slot]
  BY <1>1, InUse
<1>3. PICK e \in map : map' = map \ {e} /\ Settle({e.pba}, open)
  BY DEF purge
<1>4. UNCHANGED <<conf, mode, dev, seed, dir, starts, smd, unstamped, vals, op, dimg>>
  BY DEF purge, durable
<1>5. {e.pba} \subseteq Held(map, op, open)
  BY DEF Held
<1>6. Apart(map', op, open)
  BY <1>2, <1>3 DEF Apart
<1>7. Held(map', op, open) \subseteq Held(map, op, open) \ {e.pba}
  BY <1>2, <1>3 DEF Apart, Held
<1>8. dimg' \in [Segs -> Img] /\ Untagged(dimg, dimg') /\ dimg' = dimg
  BY <1>2, <1>4, SameTags
<1>9. /\ OpsOK(op') /\ Apart(map', op', open) /\ Held(map', op', open) \subseteq Held(map, op, open) \ {e.pba}
      /\ map' \subseteq Entry /\ (~conf.dels => \A d \in map' : ~d.del)
  BY <1>2, <1>3, <1>4, <1>6, <1>7
<1> QED
  BY <1>1, <1>2, <1>3, <1>4, <1>5, <1>8, <1>9, SettleStep

\* Freeing segments without valid grains does not uncover a grain.
LEMMA SettledKeeps ==
  ASSUME NEW H, H \subseteq Grain, NEW v, NEW ow, Covered(H, v, ow), NEW p
  PROVE  Covered(H, v, Settled(v, ow, p))
<1> SUFFICES ASSUME NEW s \in Segs
             PROVE  /\ v[s] \in Int /\ v[s] >= Cardinality(In(H, s))
                    /\ In(H, s) # {} => Settled(v, ow, p)[s] = "data"
  BY DEF Covered
<1>1. v[s] \in Int /\ v[s] >= Cardinality(In(H, s)) /\ (In(H, s) # {} => ow[s] = "data")
  BY DEF Covered
<1>2. IsFiniteSet(In(H, s)) /\ Cardinality(In(H, s)) \in Nat
  BY InFinite
<1>3. In(H, s) # {} => Cardinality(In(H, s)) # 0
  BY <1>2, FS_EmptySet
<1> QED
  BY <1>1, <1>2, <1>3 DEF Settled

\* A segment has SegSize grains.
LEMMA SegmentSize ==
  ASSUME NEW H, H \subseteq Grain, NEW s
  PROVE  Cardinality(In(H, s)) <= SegSize
<1> DEFINE f == [h \in In(H, s) |-> h[2]]
<1>1. f \in [In(H, s) -> Offs]
  BY GrainIs DEF In
<1>2. \A h, k \in In(H, s) : f[h] = f[k] => h = k
  BY GrainIs DEF In
<1>3. f \in Injection(In(H, s), Offs)
  BY <1>1, <1>2 DEF Injection, IsInjective
<1>4. IsFiniteSet(Offs) /\ Cardinality(Offs) = SegSize
  <2>1. SegSize \in Nat /\ SegSize # 0
    BY RecoveryAssumption
  <2>2. /\ IsFiniteSet(0 .. SegSize - 1)
        /\ Cardinality(0 .. SegSize - 1) = IF 0 > SegSize - 1 THEN 0 ELSE SegSize - 1 - 0 + 1
    BY <2>1, FS_Interval
  <2> QED
    BY <2>1, <2>2 DEF Offs
<1> QED
  BY <1>3, <1>4, FS_Injection

\* allocator_allocate_segment(): a free segment has no grain that is held, and
\* all its grains are the stream's to give out.
LEMMA TakeStep ==
  ASSUME KeepInv, NEW st \in Streams, TakeSegment(st)
  PROVE  KeepInv'
<1>1. mode = "up" /\ (open[st].seg = None \/ open[st].nr = SegSize)
  BY DEF TakeSegment
<1>2. /\ UNCHANGED <<conf, dev, smd, recs, dimg, mode, seed, synced, map, dir, op, vals, starts, may>>
      /\ unstamped' = unstamped \cup {st}
  BY DEF TakeSegment, durable
<1>3. PICK s \in Free : /\ valid' = [valid EXCEPT ![s] = SegSize]
                        /\ open' = [open EXCEPT ![st] = [seg |-> s, nr |-> 0]]
                        /\ segst' = Settled(valid', [segst EXCEPT ![s] = "data"], open')
  BY DEF TakeSegment
<1>4. /\ Apart(map, op, open) /\ StreamsOK(open, segst) /\ OpsOK(op) /\ map \subseteq Entry
      /\ dimg \in [Segs -> Img] /\ open \in [Streams -> Slot]
      /\ Covered(Held(map, op, open), valid, segst)
  BY <1>1, InUse
<1>5. s \in Segs /\ segst[s] = "free" /\ SegSize \in Nat \ {0}
  BY RecoveryAssumption DEF Free
<1>6. /\ smd = [x \in Segs |-> smd[x]] /\ segst = [x \in Segs |-> segst[x]] /\ valid = [x \in Segs |-> valid[x]]
  BY DEF KeepInv, TypesOK
<1>7. /\ open'[st] = [seg |-> s, nr |-> 0] /\ \A x \in Streams : x # st => open'[x] = open[x]
      /\ open' \in [Streams -> Slot]
  <2>1. [seg |-> s, nr |-> 0] \in Slot
    BY <1>5 DEF Slot
  <2> QED
    BY <1>3, <1>4, <2>1
<1> DEFINE ow == [segst EXCEPT ![s] = "data"]
<1>8. ow[s] = "data" /\ \A x \in Segs : x # s => ow[x] = segst[x]
  BY <1>5, <1>6
<1>9. valid'[s] = SegSize /\ \A x \in Segs : x # s => valid'[x] = valid[x]
  BY <1>3, <1>5, <1>6
<1> HIDE DEF ow
<1>10. Held(map, op, open) \subseteq Grain /\ Held(map, op, open') \subseteq Grain
  BY <1>4, HeldIn
<1>11. \A h \in Held(map, op, open) : h[1] # s
  BY <1>4, <1>5, <1>10, HeldData
<1>12. \A h \in Rest(open') : h \in Rest(open) \/ h[1] = s
  BY <1>7 DEF Rest
<1>13. \A h \in Held(map, op, open') : h[1] # s => h \in Held(map, op, open)
  BY <1>12 DEF Held
<1>14. Covered(Held(map, op, open'), valid', ow)
  <2> SUFFICES ASSUME NEW x \in Segs
               PROVE  /\ valid'[x] \in Int /\ valid'[x] >= Cardinality(In(Held(map, op, open'), x))
                      /\ In(Held(map, op, open'), x) # {} => ow[x] = "data"
    BY DEF Covered
  <2>1. CASE x = s
    <3>1. Cardinality(In(Held(map, op, open'), x)) <= SegSize /\ Cardinality(In(Held(map, op, open'), x)) \in Nat
      BY <1>10, SegmentSize, InFinite
    <3> QED
      BY <1>5, <1>8, <1>9, <2>1, <3>1
  <2>2. CASE x # s
    <3> DEFINE A == In(Held(map, op, open'), x)
               B == In(Held(map, op, open), x)
    <3>1. A \subseteq B
      BY <1>13, <2>2 DEF In
    <3>2. IsFiniteSet(B) /\ Cardinality(B) \in Nat /\ Cardinality(A) \in Nat
      BY <1>10, InFinite
    <3>3. valid[x] \in Int /\ valid[x] >= Cardinality(B) /\ (B # {} => segst[x] = "data")
      BY <1>4 DEF Covered
    <3> HIDE DEF A, B
    <3>4. Cardinality(A) <= Cardinality(B)
      BY <3>1, <3>2, FS_Subset
    <3>5. valid'[x] \in Int /\ valid'[x] >= Cardinality(A) /\ (A # {} => ow[x] = "data")
      BY <1>8, <1>9, <2>2, <3>1, <3>2, <3>3, <3>4
    <3> QED
      BY <3>5 DEF A
  <2> QED
    BY <2>1, <2>2
<1>15. Covered(Held(map, op, open'), valid', segst')
  <2>1. Covered(Held(map, op, open'), valid', Settled(valid', ow, open'))
    BY <1>10, <1>14, SettledKeeps
  <2> QED
    BY <1>3, <2>1 DEF ow
<1>16. /\ \A x \in Segs : segst'[x] = "data" => ow[x] = "data"
       /\ \A x \in Segs : ow[x] # "data" => segst'[x] = ow[x]
       /\ \A x \in Segs : ow[x] = "data" /\ (\E y \in Streams : open'[y].seg = x) => segst'[x] = "data"
  <2>1. segst' = Settled(valid', ow, open')
    BY <1>3 DEF ow
  <2> QED
    BY <2>1, SettledOwners
<1>17. StreamsOK(open', segst')
  <2>1. ASSUME NEW y \in Streams, open'[y].seg # None PROVE segst'[open'[y].seg] = "data"
    <3>1. open'[y].seg \in Segs
      BY <1>7, <2>1 DEF Slot
    <3>2. ow[open'[y].seg] = "data"
      BY <1>4, <1>7, <1>8, <2>1, <3>1 DEF StreamsOK
    <3> QED
      BY <1>16, <3>1, <3>2
  <2>2. \A y \in Streams : y # st => open'[y].seg # s
    BY <1>4, <1>5, <1>7 DEF StreamsOK, Segs, None
  <2>3. open'[User].seg # None => open'[User].seg # open'[Reloc].seg
    <3>1. CASE st = User
      BY <1>7, <2>2, <3>1 DEF Streams, User, Reloc
    <3>2. CASE st = Reloc
      BY <1>7, <2>2, <3>2 DEF Streams, User, Reloc
    <3> QED
      BY <3>1, <3>2 DEF Streams
  <2> QED
    BY <1>7, <2>1, <2>3 DEF StreamsOK
<1>18. Apart(map, op, open')
  <2>1. ASSUME NEW h \in Rest(open') PROVE (\A e \in map : e.pba # h) /\ \A t \in Writers(op) : op[t].g # h
    <3>1. CASE h \in Rest(open)
      BY <1>4, <3>1 DEF Apart
    <3>2. CASE h[1] = s
      BY <1>11, <3>2 DEF Held
    <3> QED
      BY <1>12, <3>1, <3>2
  <2> QED
    BY <1>4, <2>1 DEF Apart
<1>19. st \notin unstamped /\ unstamped \subseteq Streams /\ \A y \in unstamped : open[y].seg # None /\ open[y].nr = 0
  BY <1>1, <1>5 DEF KeepInv, TypesOK, StoreOK, Loaded
<1>20. /\ \A x \in Segs : segst'[x] = "data" =>
            (segst[x] = "data" /\ x \notin Fresh(open, unstamped)) \/ ~IsDir(x)' \/ x \in Fresh(open', unstamped')
       /\ \A y \in unstamped' : open'[y].seg # None /\ open'[y].nr = 0
       /\ \A x \in Segs : segst[x] = "dir" => segst'[x] = "dir"
  <2>1. s \in Fresh(open', unstamped') /\ Fresh(open, unstamped) \subseteq Fresh(open', unstamped')
    BY <1>2, <1>7, <1>19 DEF Fresh
  <2>2. \A y \in unstamped' : open'[y].seg # None /\ open'[y].nr = 0
    BY <1>2, <1>5, <1>7, <1>19 DEF Segs, None
  <2> QED
    BY <1>5, <1>8, <1>16, <2>1, <2>2
<1>21. TypesOK'
  <2>1. valid' = [x \in Segs |-> valid'[x]]
    BY <1>3, <1>6
  <2>2. segst' = [x \in Segs |-> segst'[x]]
    BY <1>3 DEF Settled
  <2> QED
    BY <1>2, <1>7, <1>19, <2>1, <2>2
    DEF KeepInv, TypesOK, OpsOK, Segs, Grain, Offs, Img, Entry, Tag, Slot, Streams, Waiting, Writing
<1>22. /\ Apart(map', op', open') /\ Covered(Held(map', op', open'), valid', segst')
       /\ Untagged(dimg, dimg') /\ dimg' = dimg
  BY <1>2, <1>15, <1>18, SameTags
<1> QED
  BY <1>1, <1>2, <1>17, <1>20, <1>21, <1>22, UseStep

\* seg_md_callback(): the segment leaves the old directory, if it was of one.
LEMMA StampStep ==
  ASSUME KeepInv, NEW st \in Streams, seg_md_callback(st)
  PROVE  KeepInv'
<1> DEFINE s == open[st].seg
           md == [type |-> "data", seed |-> seed, ts |-> seg_alloc_nr]
<1>1. mode = "up" /\ st \in unstamped /\ unstamped' = unstamped \ {st} /\ smd' = [smd EXCEPT ![s] = md]
  BY DEF seg_md_callback, persist_seg_md
<1>2. UNCHANGED <<conf, dev, dimg, mode, seed, map, dir, segst, valid, open, op, vals, starts>>
  BY DEF seg_md_callback
<1>3. /\ Apart(map, op, open) /\ StreamsOK(open, segst) /\ dimg \in [Segs -> Img]
      /\ Covered(Held(map, op, open), valid, segst) /\ open \in [Streams -> Slot] /\ unstamped \subseteq Streams
  BY <1>1, InUse
<1>4. \A y \in unstamped : open[y].seg # None /\ open[y].nr = 0
  BY <1>1 DEF KeepInv, StoreOK, Loaded
<1>5. s \in Segs
  BY <1>1, <1>3, <1>4 DEF Slot
<1>6. md.type = "data"
  OBVIOUS
<1> HIDE DEF md, s
<1>7. smd'[s] = md /\ (\A x \in Segs : x # s => smd'[x] = smd[x]) /\ smd' = [x \in Segs |-> smd'[x]]
  BY <1>1, <1>5 DEF KeepInv, TypesOK
<1>8. \A x \in Segs : (IsDir(x)' => IsDir(x)) /\ (x = s => ~IsDir(x)')
  BY <1>2, <1>6, <1>7 DEF IsDir
<1>9. \A x \in Segs : segst'[x] = "data" =>
        (segst[x] = "data" /\ x \notin Fresh(open, unstamped)) \/ ~IsDir(x)' \/ x \in Fresh(open', unstamped')
  BY <1>1, <1>2, <1>8 DEF Fresh, s
<1>10. TypesOK'
  BY <1>1, <1>2, <1>3, <1>7
  DEF KeepInv, TypesOK, OpsOK, Segs, Grain, Offs, Img, Entry, Tag, Slot, Streams, Waiting, Writing
<1>11. /\ Apart(map', op', open') /\ Covered(Held(map', op', open'), valid', segst') /\ StreamsOK(open', segst')
       /\ Untagged(dimg, dimg') /\ dimg' = dimg /\ \A y \in unstamped' : open'[y].seg # None /\ open'[y].nr = 0
  <2>1. /\ UNCHANGED <<map, op, open, valid, segst, dimg>>
    BY <1>2
  <2> QED
    BY <1>1, <1>3, <1>4, <2>1, SameTags
<1> QED
  BY <1>1, <1>2, <1>8, <1>9, <1>10, <1>11, UseStep

-----------------------------------------------------------------------------
(* Opening and leaving the store *)

AllClosed == [st \in Streams |-> Closed]

\* A process that has just started holds no grain.
LEMMA NothingHeld ==
  ASSUME NEW o, \A t \in Threads : o[t] = Idle
  PROVE  /\ Held({}, o, AllClosed) = {} /\ Apart({}, o, AllClosed) /\ AllClosed \in [Streams -> Slot]
         /\ \A ow : StreamsOK(AllClosed, ow)
<1>1. Closed \in Slot /\ Closed.seg = None /\ None \notin Segs
  BY RecoveryAssumption DEF Closed, Slot, None, Segs
<1>2. \A st \in Streams : AllClosed[st] = Closed
  BY DEF AllClosed
<1>3. AllClosed \in [Streams -> Slot]
  BY <1>1 DEF AllClosed
<1>4. Writers(o) = {}
  BY DEF Writers, Idle
<1>5. Rest(AllClosed) = {}
  BY <1>1, <1>2, GrainIs DEF Rest
<1>6. User \in Streams /\ Reloc \in Streams
  BY DEF Streams
<1>7. \A ow : StreamsOK(AllClosed, ow)
  BY <1>1, <1>2, <1>3, <1>6 DEF StreamsOK
<1> QED
  BY <1>3, <1>4, <1>5, <1>7 DEF Held, Apart

\* No grain is held: counts of zero cover that.
LEMMA EmptyCovered ==
  ASSUME NEW v, NEW ow, \A s \in Segs : v[s] \in Nat
  PROVE  Covered({}, v, ow)
<1>1. \A s : In({}, s) = {}
  BY DEF In
<1>2. Cardinality({}) = 0
  BY FS_EmptySet
<1> QED
  BY <1>1, <1>2 DEF Covered

\* The device is new.
LEMMA InitKeeps ==
  ASSUME RecInit, \A c \in Confs : c.clean => ~c.dels
  PROVE  KeepInv
<1>1. /\ mode = "down" /\ map = {} /\ dir = <<>> /\ open = AllClosed /\ dev = 0 /\ seed = 0 /\ starts = 0 /\ vals = 0
      /\ unstamped = {}
  BY DEF RecInit, AllClosed
<1>2. \A s \in Segs : smd[s] = NoMd /\ dimg[s] = NoImg
  BY DEF RecInit
<1>3. NoImg \in Img /\ NoImg.ftr.seed = 0
  BY DEF NoImg, NoTag, Img, Tag
<1>4. \A t \in Threads : op[t] = Idle
  BY DEF RecInit
<1>5. TypesOK
  <2>1. open \in [Streams -> Slot]
    BY <1>1, <1>4, NothingHeld
  <2>2. OpsOK(op)
    BY DEF RecInit, OpsOK
  <2>3. conf.clean => ~conf.dels
    BY DEF RecInit
  <2>4. /\ smd = [s \in Segs |-> smd[s]] /\ segst = [s \in Segs |-> segst[s]]
        /\ valid = [s \in Segs |-> valid[s]] /\ dimg \in [Segs -> Img]
    BY <1>3 DEF RecInit
  <2>5. dir = [i \in 1 .. Len(dir) |-> dir[i]] /\ Len(dir) \in Nat
    BY <1>1
  <2> QED
    BY <1>1, <2>1, <2>2, <2>3, <2>4, <2>5 DEF TypesOK
<1>6. SeedsOK
  BY <1>1, <1>2, <1>3 DEF SeedsOK
<1>7. EmptyOK
  BY <1>1, <1>4 DEF EmptyOK, AllClosed
<1>8. Image = {}
  BY <1>2 DEF Image, IsDir, NoMd
<1>9. ImagesOK
  BY <1>8 DEF ImagesOK, Full
<1>10. DirOK /\ StoreOK
  BY <1>1 DEF DirOK, StoreOK, Loaded
<1> QED
  BY <1>5, <1>6, <1>7, <1>9, <1>10 DEF KeepInv

\* What is on the device stays as it is.
LEMMA SameDevice ==
  ASSUME KeepInv, UNCHANGED <<dev, smd, dimg>>
  PROVE  ImagesOK' /\ Image' = Image /\ Full' = Full /\ \A s \in Segs : IsDir(s)' <=> IsDir(s)
<1>1. \A s \in Segs : IsDir(s)' <=> IsDir(s)
  BY DEF IsDir
<1>2. Image' = Image
  BY <1>1 DEF Image, Segs
<1>3. Full' = Full
  BY <1>2 DEF Full
<1>4. Lost
  BY <1>1, <1>2 DEF Lost
<1> QED
  BY <1>1, <1>2, <1>3, <1>4, LostImages DEF KeepInv

\* The process ends: a crash, or the end of a shutdown.
LEMMA EndStep ==
  ASSUME KeepInv, UNCHANGED <<conf, dev, smd, dimg, seed, segst, valid, vals, starts>>,
         mode' = "down", map' = {}, dir' = <<>>, open' = AllClosed, unstamped' = {}, op' = [t \in Threads |-> Idle]
  PROVE  KeepInv'
<1>1. ImagesOK'
  BY SameDevice
<1>2. TypesOK'
  <2>1. \A t \in Threads : op'[t] = Idle
    OBVIOUS
  <2>2. open' \in [Streams -> Slot]
    BY <2>1, NothingHeld
  <2>3. OpsOK(op')
    BY DEF OpsOK
  <2>4. dir' = [i \in 1 .. Len(dir') |-> dir'[i]] /\ Len(dir') \in Nat
    OBVIOUS
  <2> QED
    BY <2>2, <2>3, <2>4
    DEF KeepInv, TypesOK, OpsOK, Segs, Grain, Offs, Img, Entry, Tag, Slot, Streams, Waiting, Writing
<1>3. SeedsOK'
  BY DEF KeepInv, SeedsOK, Segs
<1>4. EmptyOK'
  BY DEF EmptyOK, AllClosed
<1>5. DirOK' /\ StoreOK'
  BY DEF DirOK, StoreOK, Loaded
<1> QED
  BY <1>1, <1>2, <1>3, <1>4, <1>5 DEF KeepInv

\* The process dies.
LEMMA CrashStep ==
  ASSUME KeepInv, crash
  PROVE  KeepInv'
<1>1. UNCHANGED <<conf, dev, smd, dimg, seed, segst, valid, vals, starts>>
  BY DEF crash, durable
<1>2. mode' = "down" /\ map' = {} /\ dir' = <<>> /\ open' = AllClosed /\ unstamped' = {} /\ op' = [t \in Threads |-> Idle]
  BY DEF crash, AllClosed
<1> QED
  BY <1>1, <1>2, EndStep

\* register_local_region() and init_local(): a new store has a seed of its own.
LEMMA OpenStep ==
  ASSUME KeepInv, Open
  PROVE  KeepInv'
<1>1. mode = "down" /\ starts' = starts + 1 /\ segst' = [s \in Segs |-> "free"] /\ valid' = [s \in Segs |-> 0]
  BY DEF Open
<1>2. UNCHANGED <<conf, dev, smd, dimg, map, dir, open, unstamped, op, vals>>
  BY DEF Open, durable
<1>3. \/ mode' = "restore" /\ seed' = dev /\ dev # 0
      \/ mode' = "create" /\ seed' = starts + 1
  BY DEF Open, validate_dev_md, default_seed
<1>4. ImagesOK'
  BY <1>2, SameDevice
<1>5. /\ {starts, dev} \subseteq Nat /\ dev <= starts
      /\ \A s \in Segs : dimg[s].ftr.seed <= starts /\ dimg[s].ftr.seed \in Nat
  BY DEF KeepInv, TypesOK, SeedsOK, Img, Tag
<1>6. seed' \in Nat /\ starts' \in Nat
  BY <1>1, <1>3, <1>5
<1>7. TypesOK'
  <2>1. segst' = [s \in Segs |-> segst'[s]] /\ valid' = [s \in Segs |-> valid'[s]]
    BY <1>1
  <2> QED
    BY <1>2, <1>6, <2>1
    DEF KeepInv, TypesOK, OpsOK, Segs, Grain, Offs, Img, Entry, Tag, Slot, Streams, Waiting, Writing
<1>8. SeedsOK'
  BY <1>1, <1>2, <1>3, <1>5 DEF SeedsOK, Segs
<1>9. EmptyOK'
  BY <1>1, <1>2, <1>3 DEF KeepInv, EmptyOK, Segs, Streams
<1>10. DirOK' /\ StoreOK'
  BY <1>3 DEF DirOK, StoreOK, Loaded
<1> QED
  BY <1>4, <1>7, <1>8, <1>9, <1>10 DEF KeepInv

\* The device metadata of a new store: none of its tables has a footer.
LEMMA PersistStep ==
  ASSUME KeepInv, persist_dev_md
  PROVE  KeepInv'
<1>1. mode = "persist" /\ mode' = "up" /\ dev' = seed
  BY DEF persist_dev_md
<1>2. UNCHANGED <<conf, smd, dimg, seed, map, dir, segst, valid, open, unstamped, op, vals, starts>>
  BY DEF persist_dev_md
<1>3. /\ dev < seed /\ seed <= starts /\ {dev, seed, starts} \subseteq Nat
      /\ \A s \in Segs : dimg[s].ftr.seed < seed /\ dimg[s].ftr.seed <= starts /\ dimg[s].ftr.seed \in Nat
  BY <1>1 DEF KeepInv, TypesOK, SeedsOK, Img, Tag
<1>4. Image' = {} /\ Full' = {}
  <2>1. Image' = {}
    BY <1>1, <1>2, <1>3 DEF Image, Segs
  <2> QED
    BY <2>1 DEF Full
<1>5. ImagesOK'
  BY <1>4 DEF ImagesOK
<1>6. TypesOK'
  <2>1. {starts', seed', dev', vals'} \subseteq Nat
    BY <1>1, <1>2, <1>3 DEF KeepInv, TypesOK
  <2> QED
    BY <1>2, <2>1
    DEF KeepInv, TypesOK, OpsOK, Segs, Grain, Offs, Img, Entry, Tag, Slot, Streams, Waiting, Writing
<1>7. SeedsOK'
  BY <1>1, <1>2, <1>3 DEF SeedsOK, Segs
<1>8. EmptyOK'
  BY <1>1 DEF EmptyOK
<1>9. DirOK'
  <2>1. PICK z \in {1, 2} : \A i \in DOMAIN dir : dir[i] \in Segs =>
           segst[dir[i]] = "dir" /\ dimg[dir[i]].hdr.idx = i /\ dimg[dir[i]].hdr.size = z
    BY <1>1 DEF KeepInv, DirOK, Loaded
  <2> QED
    BY <1>1, <1>2, <1>4, <2>1 DEF DirOK, Segs
<1>10. StoreOK'
  <2>1. Apart(map, op, open) /\ Covered(Held(map, op, open), valid, segst) /\ StreamsOK(open, segst)
    BY <1>1 DEF KeepInv, StoreOK, Loaded
  <2>2. Apart(map', op', open') /\ Covered(Held(map', op', open'), valid', segst') /\ StreamsOK(open', segst')
    BY <1>2, <2>1
  <2>3. \A s \in Segs : segst'[s] # "data"
    BY <1>1, <1>2 DEF KeepInv, EmptyOK
  <2>4. unstamped' = {}
    BY <1>1, <1>2 DEF KeepInv, EmptyOK
  <2> QED
    BY <2>2, <2>3, <2>4 DEF StoreOK, Segs
<1> QED
  BY <1>5, <1>6, <1>7, <1>8, <1>9, <1>10 DEF KeepInv

\* Nothing but the images and the mode changes while the directory is loaded.
LEMMA SameStore ==
  ASSUME KeepInv, UNCHANGED <<conf, dev, smd, seed, map, dir, segst, valid, open, unstamped, op, vals, starts>>,
         dimg' \in [Segs -> Img], mode \in Loaded
  PROVE  TypesOK' /\ StoreOK'
<1>1. TypesOK'
  BY DEF KeepInv, TypesOK, OpsOK, Segs, Grain, Offs, Img, Entry, Tag, Slot, Streams, Waiting, Writing
<1>2. Apart(map, op, open) /\ Covered(Held(map, op, open), valid, segst) /\ StreamsOK(open, segst)
  BY DEF KeepInv, StoreOK
<1>3. Apart(map', op', open') /\ Covered(Held(map', op', open'), valid', segst') /\ StreamsOK(open', segst')
  BY <1>2
<1>4. /\ \A s \in Segs : segst'[s] = "data" => ~IsDir(s)' \/ s \in Fresh(open', unstamped')
      /\ \A st \in unstamped' : open'[st].seg # None /\ open'[st].nr = 0
  <2>1. /\ \A s \in Segs : segst[s] = "data" => ~IsDir(s) \/ s \in Fresh(open, unstamped)
        /\ \A st \in unstamped : open[st].seg # None /\ open[st].nr = 0
    BY DEF KeepInv, StoreOK
  <2>2. Fresh(open', unstamped') = Fresh(open, unstamped)
    OBVIOUS
  <2> QED
    BY <2>1, <2>2 DEF IsDir
<1> QED
  BY <1>1, <1>3, <1>4 DEF StoreOK, Segs

\* invalidate_ftr(): when no table of the directory has a footer, no image is
\* left that leads to entries.
LEMMA InvalidateStep ==
  ASSUME KeepInv, invalidate_ftr
  PROVE  KeepInv'
<1> DEFINE left == {i \in DOMAIN dir : dir[i] # None /\ dimg[dir[i]].ftr # NoTag}
           d == dir[Min(left)]
<1>1. mode = "invalidate" /\ mode \in Loaded
  BY DEF invalidate_ftr, Loaded
<1>2. UNCHANGED <<conf, dev, smd, seed, map, dir, segst, valid, open, unstamped, op, vals, starts>>
  BY DEF invalidate_ftr
<1>3. \/ left = {} /\ mode' = "up" /\ dimg' = dimg
      \/ dimg' = [dimg EXCEPT ![d].ftr = NoTag] /\ mode' = mode
  BY DEF invalidate_ftr
<1>4. dev # 0 /\ seed = dev /\ dimg \in [Segs -> Img]
  BY <1>1 DEF KeepInv, SeedsOK, TypesOK
<1>5. NoTag \in Tag
  BY DEF NoTag, Tag
<1>6. /\ dimg' \in [Segs -> Img] /\ Untagged(dimg, dimg')
      /\ \A s \in Segs : dimg'[s].hdr = dimg[s].hdr
  <2>1. CASE dimg' = dimg
    BY <1>4, <2>1, SameTags
  <2>2. CASE dimg' = [dimg EXCEPT ![d].ftr = NoTag]
    <3> HIDE DEF d
    <3>1. /\ dimg' = [s \in Segs |-> dimg'[s]]
          /\ \A s \in Segs : \/ dimg'[s] = dimg[s]
                             \/ dimg'[s] = [hdr |-> dimg[s].hdr, ftr |-> NoTag, ents |-> dimg[s].ents]
      BY <1>4, <2>2 DEF Img
    <3>2. \A s \in Segs : dimg'[s] \in Img
      BY <1>4, <1>5, <3>1 DEF Img
    <3> QED
      BY <3>1, <3>2 DEF Untagged
  <2> QED
    BY <1>3, <2>1, <2>2
<1> HIDE DEF d
<1>7. \A s \in Segs : IsDir(s)' <=> IsDir(s)
  BY <1>2 DEF IsDir
<1>8. Lost
  BY <1>2, <1>4, <1>6, <1>7, UntaggedLost
<1>9. ImagesOK' /\ Full' \subseteq Full
  BY <1>8, LostImages DEF KeepInv
<1>10. TypesOK' /\ StoreOK'
  BY <1>1, <1>2, <1>6, SameStore
<1>11. SeedsOK'
  <2>1. \A s \in Segs : dimg'[s].ftr.seed <= starts
    <3> SUFFICES ASSUME NEW s \in Segs PROVE dimg'[s].ftr.seed <= starts
      OBVIOUS
    <3>1. dimg[s].ftr.seed <= starts /\ 0 <= starts
      BY DEF KeepInv, SeedsOK, TypesOK
    <3>2. dimg'[s].ftr \in {dimg[s].ftr, NoTag}
      BY <1>6 DEF Untagged
    <3> QED
      BY <3>1, <3>2 DEF NoTag
  <2> QED
    BY <1>1, <1>2, <1>3, <2>1 DEF KeepInv, SeedsOK, Segs
<1>12. EmptyOK'
  BY <1>1, <1>2, <1>3 DEF KeepInv, EmptyOK
<1>13. DirOK'
  <2>1. PICK z \in {1, 2} :
           /\ \A i \in DOMAIN dir : dir[i] \in Segs =>
                segst[dir[i]] = "dir" /\ dimg[dir[i]].hdr.idx = i /\ dimg[dir[i]].hdr.size = z
           /\ \A x \in Image \ Range(dir) : dimg[x].hdr.size < z
    BY <1>1 DEF KeepInv, DirOK
  <2>2. Full \subseteq Range(dir)
    BY <1>1 DEF KeepInv, DirOK
  <2>3. /\ \A i \in DOMAIN dir : dir[i] \in Segs =>
             segst[dir[i]] = "dir" /\ dimg'[dir[i]].hdr.idx = i /\ dimg'[dir[i]].hdr.size = z
        /\ \A x \in Image' \ Range(dir) : dimg'[x].hdr.size < z
    BY <1>6, <1>8, <2>1 DEF Lost
  <2>4. CASE left = {} /\ mode' = "up" /\ dimg' = dimg
    <3>1. \A i \in DOMAIN dir : dir[i] \notin Image
      <4> SUFFICES ASSUME NEW i \in DOMAIN dir, dir[i] \in Image PROVE FALSE
        OBVIOUS
      <4>1. dir[i] \in Segs /\ dimg[dir[i]].ftr.seed = dev
        BY DEF Image
      <4>2. dir[i] # None /\ dimg[dir[i]].ftr # NoTag
        BY <1>4, <4>1 DEF NoTag, None, Segs
      <4> QED
        BY <2>4, <4>2
    <3>2. Full = {}
      BY <2>2, <3>1 DEF Full, Range
    <3>3. Image' = Image /\ Full' = {}
      BY <1>2, <1>9, <2>4, <3>2, SameDevice
    <3> QED
      BY <1>2, <2>3, <2>4, <3>1, <3>3 DEF DirOK, Segs
  <2>5. CASE mode' = mode
    BY <1>1, <1>2, <1>9, <2>2, <2>3, <2>5 DEF DirOK, Segs
  <2> QED
    BY <1>3, <2>4, <2>5
<1> QED
  BY <1>9, <1>10, <1>11, <1>12, <1>13 DEF KeepInv

\* uDepotDirectoryMap::shutdown(): a table gets its entries and its footer.
LEMMA TableStep ==
  ASSUME KeepInv, mode \in {"up", "stop"}, mode' = "stop", conf.clean, \A t \in Threads : op[t] = Idle,
         UNCHANGED <<conf, dev, smd, seed, map, dir, segst, valid, open, unstamped, op, vals, starts>>, unstamped = {},
         NEW i \in DOMAIN dir, NEW d, d = dir[i], NEW ents, ents \subseteq map,
         dimg' = [dimg EXCEPT ![d].ftr = [size |-> Len(dir), idx |-> i, seed |-> seed],
                              ![d].ents = ents]
  PROVE  KeepInv'
<1> DEFINE tag == [size |-> Len(dir), idx |-> i, seed |-> seed]
<1>1. /\ dimg \in [Segs -> Img] /\ map \subseteq Entry /\ Len(dir) \in Nat /\ DOMAIN dir = 1 .. Len(dir)
      /\ {seed, starts, dev} \subseteq Nat /\ ~conf.dels /\ \A e \in map : ~e.del
  BY DEF KeepInv, TypesOK
<1>2. tag \in Tag
  BY <1>1 DEF Tag
<1>3. /\ dimg' = [s \in Segs |-> dimg'[s]]
      /\ \A s \in Segs : s # d => dimg'[s] = dimg[s]
      /\ d \in Segs => dimg'[d] = [hdr |-> dimg[d].hdr, ftr |-> tag, ents |-> ents]
  BY <1>1 DEF Img
<1> HIDE DEF tag
<1>4. \A s \in Segs : dimg'[s] \in Img /\ dimg'[s].hdr = dimg[s].hdr
  <2> SUFFICES ASSUME NEW s \in Segs PROVE dimg'[s] \in Img /\ dimg'[s].hdr = dimg[s].hdr
    OBVIOUS
  <2>1. CASE s # d
    BY <1>1, <1>3, <2>1
  <2>2. CASE s = d
    <3>1. dimg[s] \in Img /\ ents \subseteq Entry
      BY <1>1
    <3>2. dimg'[s] = [hdr |-> dimg[s].hdr, ftr |-> tag, ents |-> ents]
      BY <1>3, <2>2
    <3>3. dimg[s].hdr \in Tag
      BY <3>1 DEF Img
    <3>4. [hdr |-> dimg[s].hdr, ftr |-> tag, ents |-> ents] \in Img
      BY <1>2, <3>1, <3>3 DEF Img
    <3> QED
      BY <3>2, <3>4
  <2> QED
    BY <2>1, <2>2
<1>5. dimg' \in [Segs -> Img]
  BY <1>3, <1>4
<1>6. mode \in Loaded /\ dev # 0 /\ seed = dev /\ dev <= starts
  BY DEF KeepInv, SeedsOK, Loaded
<1>7. TypesOK' /\ StoreOK'
  BY <1>5, <1>6, SameStore
<1>8. SeedsOK'
  <2>1. \A s \in Segs : dimg'[s].ftr.seed <= starts
    <3> SUFFICES ASSUME NEW s \in Segs PROVE dimg'[s].ftr.seed <= starts
      OBVIOUS
    <3>1. CASE s = d
      BY <1>3, <1>6, <3>1 DEF tag
    <3>2. CASE s # d
      BY <1>3, <3>2 DEF KeepInv, SeedsOK
    <3> QED
      BY <3>1, <3>2
  <2> QED
    BY <1>6, <2>1 DEF SeedsOK, Segs
<1>9. EmptyOK'
  BY DEF EmptyOK
<1>10. \A s \in Segs : IsDir(s)' <=> IsDir(s)
  BY DEF IsDir
<1>11. \A s \in Image' : s \in Segs /\ (s \in Image \/ s = d) /\ dimg'[s].hdr = dimg[s].hdr
  <2> SUFFICES ASSUME NEW s \in Image' PROVE s \in Segs /\ (s \in Image \/ s = d) /\ dimg'[s].hdr = dimg[s].hdr
    OBVIOUS
  <2>1. s \in Segs /\ IsDir(s)' /\ dimg'[s].hdr.seed = dev /\ dimg'[s].ftr.seed = dev
    BY DEF Image, Segs
  <2>2. s # d => dimg'[s] = dimg[s]
    BY <1>3, <2>1
  <2>3. s # d => s \in Image
    BY <1>10, <2>1, <2>2 DEF Image
  <2> QED
    BY <1>4, <2>1, <2>3
<1>12. PICK z \in {1, 2} :
           /\ \A j \in DOMAIN dir : dir[j] \in Segs =>
                segst[dir[j]] = "dir" /\ dimg[dir[j]].hdr.idx = j /\ dimg[dir[j]].hdr.size = z
           /\ \A x \in Image \ Range(dir) : dimg[x].hdr.size < z
  BY <1>6 DEF KeepInv, DirOK
<1>13. /\ \A s \in Image : dimg[s].ents \subseteq map
       /\ Full \subseteq Range(dir)
  BY <1>6 DEF KeepInv, DirOK, Full
<1>14. \A s \in Image' : dimg'[s].ents \subseteq map
  <2> SUFFICES ASSUME NEW s \in Image' PROVE dimg'[s].ents \subseteq map
    OBVIOUS
  <2>1. CASE s = d
    <3>1. dimg'[s] = [hdr |-> dimg[s].hdr, ftr |-> tag, ents |-> ents]
      BY <1>3, <1>11, <2>1
    <3> QED
      BY <3>1
  <2>2. CASE s # d
    BY <1>3, <1>11, <1>13, <2>2
  <2> QED
    BY <2>1, <2>2
<1>15. d \in Range(dir)
  BY DEF Range
<1>16. Full' \subseteq Range(dir)
  <2> SUFFICES ASSUME NEW s \in Full' PROVE s \in Range(dir)
    OBVIOUS
  <2>1. s \in Image' /\ dimg'[s].ents # {}
    BY DEF Full
  <2>2. CASE s = d
    BY <1>15, <2>2
  <2>3. CASE s # d
    <3>1. s \in Image /\ dimg[s].ents # {}
      BY <1>3, <1>11, <2>1, <2>3
    <3> QED
      BY <1>13, <3>1 DEF Full
  <2> QED
    BY <2>2, <2>3
<1>17. \A s \in Image' : s \in Range(dir) =>
         dimg'[s].hdr.size = z /\ \E j \in DOMAIN dir : s = dir[j] /\ dimg'[s].hdr.idx = j
  <2> SUFFICES ASSUME NEW s \in Image', s \in Range(dir)
               PROVE  dimg'[s].hdr.size = z /\ \E j \in DOMAIN dir : s = dir[j] /\ dimg'[s].hdr.idx = j
    OBVIOUS
  <2>1. PICK j \in DOMAIN dir : s = dir[j]
    BY DEF Range
  <2>2. s \in Segs /\ dimg'[s].hdr = dimg[s].hdr
    BY <1>11
  <2>3. dimg[s].hdr.idx = j /\ dimg[s].hdr.size = z
    BY <1>12, <2>1, <2>2
  <2> QED
    BY <2>1, <2>2, <2>3
<1>18. \A s \in Image' : s \notin Range(dir) => s \in Image /\ dimg'[s].hdr.size < z /\ dimg'[s].hdr = dimg[s].hdr
  <2> SUFFICES ASSUME NEW s \in Image', s \notin Range(dir)
               PROVE  s \in Image /\ dimg'[s].hdr.size < z /\ dimg'[s].hdr = dimg[s].hdr
    OBVIOUS
  <2>1. s \in Image /\ dimg'[s].hdr = dimg[s].hdr
    BY <1>11, <1>15
  <2>2. dimg[s].hdr.size < z
    BY <1>12, <2>1
  <2> QED
    BY <2>1, <2>2
<1>21. \A s \in Image' : dimg'[s].hdr.size \in Nat
  <2> SUFFICES ASSUME NEW s \in Image' PROVE dimg'[s].hdr.size \in Nat
    OBVIOUS
  <2>1. s \in Segs
    BY <1>11
  <2>2. dimg'[s] \in Img
    BY <1>4, <2>1
  <2> QED
    BY <2>2 DEF Img, Tag
<1>19. ImagesOK'
  <2>1. ASSUME NEW s \in Image', NEW e \in dimg'[s].ents PROVE ~e.del /\ ~IsDir(e.pba[1])'
    <3>1. e \in map /\ ~e.del
      BY <1>1, <1>14
    <3>2. e.pba \in Grain /\ e.pba[1] \in Segs
      BY <1>1, <3>1, GrainIs DEF Entry
    <3>3. e.pba \in Held(map, op, open)
      BY <3>1 DEF Held
    <3>4. segst[e.pba[1]] = "data"
      BY <1>6, <3>2, <3>3, HeldData DEF KeepInv, StoreOK
    <3>5. ~IsDir(e.pba[1])
      BY <1>6, <3>2, <3>4 DEF KeepInv, StoreOK, Fresh
    <3> QED
      BY <1>10, <3>1, <3>2, <3>5
  <2>2. ASSUME NEW s \in Image', NEW x \in Image', NEW e \in dimg'[s].ents, NEW f \in dimg'[x].ents, e.pba = f.pba
        PROVE  e = f
    <3>1. e \in map /\ f \in map
      BY <1>14
    <3> QED
      BY <1>6, <2>2, <3>1 DEF KeepInv, StoreOK, Apart
  <2>3. ASSUME NEW s \in Full', NEW x \in Image' PROVE dimg'[x].hdr.size <= dimg'[s].hdr.size
    <3>1. s \in Image' /\ s \in Range(dir)
      BY <1>16 DEF Full
    <3>2. dimg'[s].hdr.size = z
      BY <1>17, <3>1
    <3>3. dimg'[x].hdr.size = z \/ dimg'[x].hdr.size < z
      BY <1>17, <1>18
    <3>4. dimg'[x].hdr.size \in Nat
      BY <1>21
    <3> QED
      BY <3>2, <3>3, <3>4
  <2>4. ASSUME NEW s \in Image', NEW x \in Image',
               dimg'[x].hdr.size = dimg'[s].hdr.size, dimg'[x].hdr.idx = dimg'[s].hdr.idx
        PROVE  s = x
    <3>1. dimg'[x].hdr.size \in Nat /\ dimg'[s].hdr.size \in Nat
      BY <1>21
    <3>2. CASE s \in Range(dir) /\ x \in Range(dir)
      <4>1. PICK j \in DOMAIN dir : s = dir[j] /\ dimg'[s].hdr.idx = j
        BY <1>17, <3>2
      <4>2. PICK k \in DOMAIN dir : x = dir[k] /\ dimg'[x].hdr.idx = k
        BY <1>17, <3>2
      <4> QED
        BY <2>4, <4>1, <4>2
    <3>3. CASE s \notin Range(dir) /\ x \notin Range(dir)
      BY <1>18, <2>4, <3>3 DEF KeepInv, ImagesOK
    <3>4. CASE s \in Range(dir) /\ x \notin Range(dir)
      <4>1. dimg'[s].hdr.size = z
        BY <1>17, <3>4
      <4>2. dimg'[x].hdr.size < z
        BY <1>18, <3>4
      <4> QED
        BY <2>4, <4>1, <4>2
    <3>5. CASE s \notin Range(dir) /\ x \in Range(dir)
      <4>1. dimg'[x].hdr.size = z
        BY <1>17, <3>5
      <4>2. dimg'[s].hdr.size < z
        BY <1>18, <3>5
      <4> QED
        BY <2>4, <4>1, <4>2
    <3> QED
      BY <3>2, <3>3, <3>4, <3>5
  <2>5. ASSUME NEW s \in Image' PROVE dimg'[s].hdr.idx >= 1 /\ dimg'[s].hdr.size \in {1, 2}
    <3>1. CASE s \in Range(dir)
      <4>1. dimg'[s].hdr.size = z
        BY <1>17, <3>1
      <4>2. PICK j \in DOMAIN dir : dimg'[s].hdr.idx = j
        BY <1>17, <3>1
      <4> QED
        BY <1>1, <4>1, <4>2
    <3>2. CASE s \notin Range(dir)
      BY <1>18, <3>2 DEF KeepInv, ImagesOK
    <3> QED
      BY <3>1, <3>2
  <2> QED
    BY <2>1, <2>2, <2>3, <2>4, <2>5 DEF ImagesOK
<1>20. DirOK'
  <2>1. \A j \in DOMAIN dir : dir[j] \in Segs =>
           segst[dir[j]] = "dir" /\ dimg'[dir[j]].hdr.idx = j /\ dimg'[dir[j]].hdr.size = z
    BY <1>4, <1>12
  <2>2. \A x \in Image' \ Range(dir) : dimg'[x].hdr.size < z
    BY <1>18
  <2>3. \E y \in {1, 2} :
           /\ \A j \in DOMAIN dir' : dir'[j] \in Segs =>
                segst'[dir'[j]] = "dir" /\ dimg'[dir'[j]].hdr.idx = j /\ dimg'[dir'[j]].hdr.size = y
           /\ \A x \in Image' \ Range(dir') : dimg'[x].hdr.size < y
    <3>1. dir' = dir /\ segst' = segst
      OBVIOUS
    <3>2. \A j \in DOMAIN dir' : dir'[j] \in Segs =>
            segst'[dir'[j]] = "dir" /\ dimg'[dir'[j]].hdr.idx = j /\ dimg'[dir'[j]].hdr.size = z
      BY <2>1, <3>1
    <3>3. \A x \in Image' \ Range(dir') : dimg'[x].hdr.size < z
      BY <2>2, <3>1
    <3> WITNESS z \in {1, 2}
    <3> QED
      BY <3>2, <3>3
  <2>4. Full' \subseteq Range(dir') /\ \A s \in Image' : dimg'[s].ents \subseteq map'
    BY <1>14, <1>16
  <2> QED
    BY <2>3, <2>4 DEF DirOK, Segs
<1> QED
  BY <1>7, <1>8, <1>9, <1>19, <1>20 DEF KeepInv

\* uDepotSalsa::shutdown()
LEMMA ShutdownStep ==
  ASSUME KeepInv, shutdown
  PROVE  KeepInv'
<1> DEFINE left == DOMAIN dir \ synced
<1>1. /\ UNCHANGED <<conf, dev, smd, seed, segst, valid, unstamped, op, vals, starts>> /\ conf.clean /\ mode \in {"up", "stop"}
  BY DEF shutdown
<1>2. unstamped = {} /\ \A t \in Threads : op[t] = Idle
  BY DEF shutdown, KeepInv, EmptyOK
<1>3. CASE left = {}
  <2>1. mode' = "down" /\ map' = {} /\ dir' = <<>> /\ open' = AllClosed /\ dimg' = dimg
    BY <1>3 DEF shutdown, AllClosed
  <2>2. op' = [t \in Threads |-> Idle]
    BY <1>1, <1>2 DEF KeepInv, TypesOK, OpsOK
  <2> QED
    BY <1>1, <1>2, <2>1, <2>2, EndStep
<1>4. CASE left # {}
  <2> DEFINE i == Min(left)
             ents == {e \in map : TableIdx(e.key) = i}
             d == dir[i]
  <2>1. mode' = "stop" /\ UNCHANGED <<map, dir, open>>
    BY <1>4 DEF shutdown
  <2>2. dimg' = [dimg EXCEPT ![d].ftr = [size |-> Len(dir), idx |-> i, seed |-> seed],
                             ![d].ents = ents]
    BY <1>4 DEF shutdown
  <2>3. i \in DOMAIN dir
    <3>1. DOMAIN dir \subseteq Nat
      BY DEF KeepInv, TypesOK
    <3> QED
      BY <1>4, <3>1, MinOfNat
  <2>4. ents \subseteq map
    OBVIOUS
  <2> HIDE DEF i, ents, left
  <2> QED
    BY <1>1, <1>2, <2>1, <2>2, <2>3, <2>4, TableStep
<1> QED
  BY <1>3, <1>4

-----------------------------------------------------------------------------
(* A new directory *)

\* The segments of lowest address are different segments.
LEMMA FirstOfIs ==
  ASSUME NEW S, S \subseteq Segs, NEW n \in {1, 2}, n <= Cardinality(S)
  PROVE  /\ \A i \in 1 .. n : FirstOf(S, n)[i] \in S
         /\ \A i, j \in 1 .. n : FirstOf(S, n)[i] = FirstOf(S, n)[j] => i = j
<1> DEFINE Below(s) == {x \in S : x < s}
<1>1. IsFiniteSet(S) /\ S \subseteq Nat /\ Cardinality(S) \in Nat
  <2>1. IsFiniteSet(1 .. SegNr)
    BY RecoveryAssumption, FS_Interval
  <2>2. IsFiniteSet(S)
    BY <2>1, FS_Subset DEF Segs
  <2>3. S \subseteq Nat
    BY RecoveryAssumption DEF Segs
  <2> QED
    BY <2>2, <2>3, FS_CardinalityType
<1>2. S # {}
  BY FS_EmptySet
<1>3. PICK a \in S : \A y \in S : a <= y
  BY <1>1, <1>2, LeastNat
<1>4. Cardinality(Below(a)) = 0
  <2>1. ASSUME NEW x \in S, x < a PROVE FALSE
    <3>1. a <= x /\ a \in Nat /\ x \in Nat
      BY <1>1, <1>3
    <3> QED
      BY <2>1, <3>1
  <2>2. Below(a) = {}
    BY <2>1
  <2> QED
    BY <2>2, FS_EmptySet
<1>5. n = 2 => \E b \in S : Cardinality(Below(b)) = 1
  <2> SUFFICES ASSUME n = 2 PROVE \E b \in S : Cardinality(Below(b)) = 1
    OBVIOUS
  <2>1. S \ {a} # {}
    <3> SUFFICES ASSUME S \ {a} = {} PROVE FALSE
      OBVIOUS
    <3>1. S = {a}
      OBVIOUS
    <3>2. Cardinality({a}) = 1
      BY FS_Singleton
    <3> QED
      BY <3>1, <3>2
  <2>2. PICK b \in S \ {a} : \A y \in S \ {a} : b <= y
    <3>1. S \ {a} \subseteq Nat
      BY <1>1
    <3> QED
      BY <2>1, <3>1, LeastNat
  <2>3. Below(b) = {a}
    <3>1. ASSUME NEW x \in S, x < b PROVE x = a
      <4>1. ~(b <= x)
        BY <1>1, <3>1
      <4> QED
        BY <2>2, <4>1
    <3>2. a < b
      BY <1>1, <1>3, <2>2
    <3> QED
      BY <3>1, <3>2
  <2>4. Cardinality(Below(b)) = 1
    BY <2>3, FS_Singleton
  <2> QED
    BY <2>4
<1>6. ASSUME NEW i \in 1 .. n
      PROVE  FirstOf(S, n)[i] \in S /\ Cardinality(Below(FirstOf(S, n)[i])) = i - 1
  <2>1. \E s \in S : Cardinality(Below(s)) = i - 1
    BY <1>4, <1>5
  <2>2. FirstOf(S, n)[i] = CHOOSE s \in S : Cardinality(Below(s)) = i - 1
    BY DEF FirstOf
  <2> HIDE DEF Below
  <2> QED
    BY <2>1, <2>2
<1> HIDE DEF Below
<1>7. ASSUME NEW i \in 1 .. n, NEW j \in 1 .. n, FirstOf(S, n)[i] = FirstOf(S, n)[j] PROVE i = j
  <2>1. Cardinality(Below(FirstOf(S, n)[i])) = i - 1 /\ Cardinality(Below(FirstOf(S, n)[j])) = j - 1
    BY <1>6
  <2>2. i - 1 = j - 1
    BY <1>7, <2>1
  <2> QED
    BY <2>2
<1> QED
  BY <1>6, <1>7

\* A directory of n tables in segments of their own
Placed(ss, n) ==
  /\ n \in {1, 2} /\ ss = [i \in 1 .. n |-> ss[i]] /\ Len(ss) = n
  /\ \A i \in 1 .. n : ss[i] \in Segs
  /\ \A i, j \in 1 .. n : ss[i] = ss[j] => i = j

\* The first free segments are a place for a directory.
LEMMA FirstPlaced ==
  ASSUME NEW S, S \subseteq Segs, NEW n \in {1, 2}, n <= Cardinality(S)
  PROVE  Placed(FirstOf(S, n), n) /\ Range(FirstOf(S, n)) \subseteq S
<1>1. /\ \A i \in 1 .. n : FirstOf(S, n)[i] \in S
      /\ \A i, j \in 1 .. n : FirstOf(S, n)[i] = FirstOf(S, n)[j] => i = j
  BY FirstOfIs
<1>2. DOMAIN FirstOf(S, n) = 1 .. n /\ FirstOf(S, n) = [i \in 1 .. n |-> FirstOf(S, n)[i]]
  <2> DEFINE F(i) == CHOOSE s \in S : Cardinality({x \in S : x < s}) = i - 1
  <2>1. FirstOf(S, n) = [i \in 1 .. n |-> F(i)]
    BY DEF FirstOf
  <2> HIDE DEF F
  <2>2. \A f : f = [i \in 1 .. n |-> F(i)] => DOMAIN f = 1 .. n /\ f = [i \in 1 .. n |-> f[i]]
    OBVIOUS
  <2> QED
    BY <2>1, <2>2
<1>3. Len(FirstOf(S, n)) = n
  <2> DEFINE f == FirstOf(S, n)
  <2>1. f \in [1 .. n -> S] /\ n \in Nat
    BY <1>1, <1>2
  <2> HIDE DEF f
  <2>2. f \in Seq(S)
    BY <2>1
  <2>3. Len(f) = n
    BY <2>1, <2>2
  <2> QED
    BY <2>3 DEF f
<1>4. Range(FirstOf(S, n)) \subseteq S
  BY <1>1, <1>2 DEF Range
<1> QED
  BY <1>1, <1>2, <1>3, <1>4 DEF Placed

\* What the segments of a new directory and the others are like
NewDir(ss, n, st) ==
  /\ dir' = ss /\ DOMAIN ss = 1 .. n
  /\ \A i \in 1 .. n : segst'[ss[i]] = "dir" /\ smd'[ss[i]].type = "dir" /\ smd'[ss[i]].seed = seed
  /\ \A i \in 1 .. n : dimg'[ss[i]].hdr.size = n /\ dimg'[ss[i]].hdr.idx = i
  /\ \A i \in 1 .. n : dimg'[ss[i]].ftr = dimg[ss[i]].ftr /\ dimg'[ss[i]].ents = {}
  /\ \A s \in Segs : s \notin Range(ss) => smd'[s] = smd[s] /\ dimg'[s] = dimg[s]
  /\ \A s \in Segs : s \notin Range(ss) => segst'[s] = IF st[s] = "dir" THEN "free" ELSE st[s]
  /\ dimg' \in [Segs -> Img]
  /\ smd' = [s \in Segs |-> smd'[s]]
  /\ segst' = [s \in Segs |-> segst'[s]]

\* grow() puts a directory there.
LEMMA GrownIs ==
  ASSUME TypesOK, seed \in Nat, NEW ss, NEW n, Placed(ss, n), NEW st, Grown(ss, dimg, st, smd)
  PROVE  NewDir(ss, n, st)
<1>1. dir' = ss /\ DOMAIN ss = 1 .. n
  BY DEF Grown, Placed
<1>2. \A i \in 1 .. n : ss[i] \in Range(ss) /\ ss[i] \in Segs
  BY <1>1 DEF Range, Placed
<1>3. smd' = [s \in Segs |-> smd'[s]] /\ segst' = [s \in Segs |-> segst'[s]] /\ dimg' = [s \in Segs |-> dimg'[s]]
  BY DEF Grown
<1>4. \A s \in Segs : s \notin Range(ss) =>
              /\ smd'[s] = smd[s] /\ dimg'[s] = dimg[s]
              /\ segst'[s] = IF st[s] = "dir" THEN "free" ELSE st[s]
  BY DEF Grown
<1>5. ASSUME NEW i \in 1 .. n
      PROVE  /\ segst'[ss[i]] = "dir"
             /\ smd'[ss[i]].type = "dir" /\ smd'[ss[i]].seed = seed
             /\ dimg'[ss[i]] = [hdr |-> [size |-> n, idx |-> i, seed |-> seed],
                                ftr |-> dimg[ss[i]].ftr, ents |-> {}]
             /\ dimg'[ss[i]].hdr.size = n /\ dimg'[ss[i]].hdr.idx = i
             /\ dimg'[ss[i]].ftr = dimg[ss[i]].ftr /\ dimg'[ss[i]].ents = {}
  <2>1. segst'[ss[i]] = "dir"
    BY <1>2 DEF Grown
  <2>2. smd'[ss[i]].type = "dir" /\ smd'[ss[i]].seed = seed
    <3>1. smd'[ss[i]] = persist_seg_md(smd, ss[i], "dir", Len(dir))[ss[i]]
      BY <1>2 DEF Grown
    <3>2. smd = [s \in Segs |-> smd[s]]
      BY DEF TypesOK
    <3> QED
      BY <1>2, <3>1, <3>2 DEF persist_seg_md
  <2>3. (CHOOSE j \in DOMAIN ss : ss[j] = ss[i]) = i
    BY <1>1 DEF Placed
  <2>4. dimg'[ss[i]] = [hdr |-> [size |-> Len(ss), idx |-> CHOOSE j \in DOMAIN ss : ss[j] = ss[i],
                                 seed |-> seed],
                        ftr |-> dimg[ss[i]].ftr, ents |-> {}]
    BY <1>2 DEF Grown
  <2>5. dimg'[ss[i]] = [hdr |-> [size |-> n, idx |-> i, seed |-> seed],
                        ftr |-> dimg[ss[i]].ftr, ents |-> {}]
    BY <2>3, <2>4 DEF Placed
  <2>6. dimg'[ss[i]].hdr = [size |-> n, idx |-> i, seed |-> seed]
    BY <2>5
  <2>7. dimg'[ss[i]].ftr = dimg[ss[i]].ftr /\ dimg'[ss[i]].ents = {}
    BY <2>5
  <2>8. dimg'[ss[i]].hdr.size = n /\ dimg'[ss[i]].hdr.idx = i
    BY <2>6
  <2> QED
    BY <2>1, <2>2, <2>5, <2>7, <2>8
<1>6. \A s \in Segs : dimg'[s] \in Img
  <2> SUFFICES ASSUME NEW s \in Segs PROVE dimg'[s] \in Img
    OBVIOUS
  <2>1. dimg[s] \in Img
    BY DEF TypesOK
  <2>2. CASE s \notin Range(ss)
    BY <1>4, <2>1, <2>2
  <2>3. CASE s \in Range(ss)
    <3>1. PICK i \in 1 .. n : s = ss[i]
      BY <1>1, <2>3 DEF Range
    <3>2. dimg'[s] = [hdr |-> [size |-> n, idx |-> i, seed |-> seed], ftr |-> dimg[s].ftr, ents |-> {}]
      BY <1>5, <3>1
    <3>3. [size |-> n, idx |-> i, seed |-> seed] \in Tag /\ dimg[s].ftr \in Tag
      BY <2>1 DEF Tag, Img, Placed
    <3> QED
      BY <3>2, <3>3 DEF Img
  <2> QED
    BY <2>2, <2>3
<1>7. \A i \in 1 .. n : dimg'[ss[i]].hdr.size = n /\ dimg'[ss[i]].hdr.idx = i
  BY <1>5
<1>8. \A i \in 1 .. n : dimg'[ss[i]].ftr = dimg[ss[i]].ftr /\ dimg'[ss[i]].ents = {}
  BY <1>5
<1>9. \A i \in 1 .. n : segst'[ss[i]] = "dir" /\ smd'[ss[i]].type = "dir" /\ smd'[ss[i]].seed = seed
  BY <1>5
<1>10. dimg' \in [Segs -> Img]
  BY <1>3, <1>6
<1> QED
  BY <1>1, <1>3, <1>4, <1>7, <1>8, <1>9, <1>10 DEF NewDir

\* Other owners cover the grains as well when no data segment is given up.
LEMMA CoversOwners ==
  ASSUME NEW G, NEW v, NEW ow, NEW own, Covered(G, v, ow), \A s \in Segs : ow[s] = "data" => own[s] = "data"
  PROVE  Covered(G, v, own)
BY DEF Covered

\* Images that lead nowhere are sound when the tables of the new directory are
\* the only ones of their size.
LEMMA BareImages ==
  ASSUME NEW ss, NEW n, Placed(ss, n),
         \A s \in Image' : s \in Range(ss) \/ (s \in Image /\ dimg'[s].hdr = dimg[s].hdr /\ dimg'[s].hdr.size < n),
         \A s \in Image' : dimg'[s].ents = {},
         \A i \in 1 .. n : dimg'[ss[i]].hdr.size = n /\ dimg'[ss[i]].hdr.idx = i,
         ImagesOK
  PROVE  ImagesOK' /\ Full' = {}
<1>1. Full' = {}
  BY DEF Full
<1>2. \A s \in Image' : s \in Range(ss) =>
        dimg'[s].hdr.size = n /\ \E i \in 1 .. n : s = ss[i] /\ dimg'[s].hdr.idx = i
  <2> SUFFICES ASSUME NEW s \in Image', s \in Range(ss)
               PROVE  dimg'[s].hdr.size = n /\ \E i \in 1 .. n : s = ss[i] /\ dimg'[s].hdr.idx = i
    OBVIOUS
  <2>1. PICK i \in 1 .. n : s = ss[i]
    BY DEF Range, Placed
  <2> QED
    BY <2>1
<1>3. \A s \in Image' : s \notin Range(ss) => s \in Image /\ dimg'[s].hdr = dimg[s].hdr /\ dimg'[s].hdr.size < n
  OBVIOUS
<1>4. n \in {1, 2}
  BY DEF Placed
<1>5. ASSUME NEW s \in Image', NEW x \in Image',
             dimg'[x].hdr.size = dimg'[s].hdr.size, dimg'[x].hdr.idx = dimg'[s].hdr.idx
      PROVE  s = x
  <2>1. CASE s \in Range(ss) /\ x \in Range(ss)
    <3>1. PICK i \in 1 .. n : s = ss[i] /\ dimg'[s].hdr.idx = i
      BY <1>2, <2>1
    <3>2. PICK j \in 1 .. n : x = ss[j] /\ dimg'[x].hdr.idx = j
      BY <1>2, <2>1
    <3> QED
      BY <1>5, <3>1, <3>2
  <2>2. CASE s \notin Range(ss) /\ x \notin Range(ss)
    BY <1>3, <1>5, <2>2 DEF ImagesOK
  <2>3. CASE s \in Range(ss) /\ x \notin Range(ss)
    <3>1. dimg'[s].hdr.size = n /\ dimg'[x].hdr.size < n
      BY <1>2, <1>3, <2>3
    <3> QED
      BY <1>4, <1>5, <3>1
  <2>4. CASE s \notin Range(ss) /\ x \in Range(ss)
    <3>1. dimg'[x].hdr.size = n /\ dimg'[s].hdr.size < n
      BY <1>2, <1>3, <2>4
    <3> QED
      BY <1>4, <1>5, <3>1
  <2> QED
    BY <2>1, <2>2, <2>3, <2>4
<1>6. ASSUME NEW s \in Image' PROVE dimg'[s].hdr.idx >= 1 /\ dimg'[s].hdr.size \in {1, 2}
  <2>1. CASE s \in Range(ss)
    <3>1. dimg'[s].hdr.size = n
      BY <1>2, <2>1
    <3>2. PICK i \in 1 .. n : dimg'[s].hdr.idx = i
      BY <1>2, <2>1
    <3> QED
      BY <1>4, <3>1, <3>2
  <2>2. CASE s \notin Range(ss)
    BY <1>3, <2>2 DEF ImagesOK
  <2> QED
    BY <2>1, <2>2
<1>7. \A s \in Image' : \A e \in dimg'[s].ents : FALSE
  OBVIOUS
<1> QED
  BY <1>1, <1>5, <1>6, <1>7 DEF ImagesOK

\* grow() of a new store: the tables carry a seed that is not on the device yet.
LEMMA CreateStep ==
  ASSUME KeepInv, mode = "create", mode' = "persist",
         UNCHANGED <<conf, dev, seed, map, valid, open, unstamped, op, vals, starts>>,
         NEW ss, NEW n, Placed(ss, n), Grown(ss, dimg, segst, smd)
  PROVE  KeepInv'
<1>1. TypesOK /\ seed \in Nat /\ dev < seed /\ seed <= starts /\ dev \in Nat
  BY DEF KeepInv, TypesOK, SeedsOK
<1>2. NewDir(ss, n, segst)
  BY <1>1, GrownIs
<1>3. n \in {1, 2} /\ ss = [i \in 1 .. n |-> ss[i]] /\ Len(ss) = n /\ \A i \in 1 .. n : ss[i] \in Segs
  BY DEF Placed
<1>4. \A s \in Range(ss) : s \in Segs /\ \E i \in 1 .. n : s = ss[i]
  BY <1>2, <1>3 DEF Range, NewDir
<1>5. \A s \in Segs : IsDir(s)' => s \notin Range(ss) /\ IsDir(s)
  BY <1>1, <1>2, <1>4 DEF IsDir, NewDir
<1>6. Lost
  <2>1. ASSUME NEW s \in Image' PROVE s \in Image /\ dimg'[s] = dimg[s]
    <3>1. s \in Segs /\ IsDir(s)' /\ dimg'[s].hdr.seed = dev /\ dimg'[s].ftr.seed = dev
      BY DEF Image, Segs
    <3> QED
      BY <1>2, <1>5, <3>1 DEF Image, NewDir
  <2> QED
    BY <1>5, <2>1 DEF Lost
<1>7. ImagesOK'
  BY <1>6, LostImages DEF KeepInv
<1>8. TypesOK'
  <2>1. /\ dimg' \in [Segs -> Img] /\ smd' = [s \in Segs |-> smd'[s]] /\ segst' = [s \in Segs |-> segst'[s]]
        /\ dir' = [i \in 1 .. Len(dir') |-> dir'[i]] /\ Len(dir') \in Nat
    BY <1>2, <1>3 DEF NewDir
  <2> QED
  BY <1>1, <2>1
  DEF TypesOK, OpsOK, Segs, Grain, Offs, Img, Entry, Tag, Slot, Streams, Waiting, Writing
<1>9. \A s \in Segs : dimg'[s].ftr = dimg[s].ftr
  BY <1>2, <1>4 DEF NewDir
<1>10. SeedsOK'
  BY <1>9 DEF KeepInv, SeedsOK, Segs
<1>11. \A s \in Segs : segst'[s] # "data"
  <2> SUFFICES ASSUME NEW s \in Segs PROVE segst'[s] # "data"
    OBVIOUS
  <2>1. segst[s] = "free"
    BY DEF KeepInv, EmptyOK
  <2> QED
    BY <1>2, <1>4, <2>1 DEF NewDir
<1>12. EmptyOK'
  BY <1>11 DEF KeepInv, EmptyOK, Segs, Streams
<1>13. DirOK'
  <2>1. \A i \in DOMAIN dir' : dir'[i] \in Segs =>
           segst'[dir'[i]] = "dir" /\ dimg'[dir'[i]].hdr.idx = i /\ dimg'[dir'[i]].hdr.size = n
    <3>1. dir' = ss /\ DOMAIN ss = 1 .. n
      BY <1>2 DEF NewDir
    <3>2. \A i \in 1 .. n : segst'[ss[i]] = "dir" /\ dimg'[ss[i]].hdr.size = n /\ dimg'[ss[i]].hdr.idx = i
      BY <1>2 DEF NewDir
    <3> QED
      BY <3>1, <3>2
  <2> QED
    BY <1>3, <2>1 DEF DirOK, Segs
<1>14. StoreOK'
  <2>1. map = {} /\ open = AllClosed /\ (\A t \in Threads : op[t] = Idle) /\ \A s \in Segs : valid[s] = 0
    BY DEF KeepInv, EmptyOK, AllClosed
  <2>2. Held({}, op, AllClosed) = {} /\ Apart({}, op, AllClosed) /\ StreamsOK(AllClosed, segst')
    BY <2>1, NothingHeld
  <2>3. Covered({}, valid, segst')
    BY <2>1, EmptyCovered
  <2>4. Apart(map', op', open') /\ Covered(Held(map', op', open'), valid', segst') /\ StreamsOK(open', segst')
    BY <2>1, <2>2, <2>3
  <2>5. unstamped' = {}
    BY DEF KeepInv, EmptyOK
  <2> QED
    BY <1>11, <2>4, <2>5 DEF StoreOK, Segs
<1> QED
  BY <1>7, <1>8, <1>10, <1>12, <1>13, <1>14 DEF KeepInv

\* grow() of a store in use: the tables of the old directory stay on the device,
\* without entries, and are the smaller ones.
LEMMA GrowUpStep ==
  ASSUME KeepInv, mode = "up", Len(dir) = 1,
         UNCHANGED <<conf, dev, seed, mode, map, valid, open, unstamped, op, vals, starts>>,
         NEW ss, Placed(ss, 2), Range(ss) \subseteq Free, Grown(ss, dimg, segst, smd)
  PROVE  KeepInv'
<1>1. TypesOK /\ seed \in Nat /\ dev = seed /\ dev # 0 /\ mode \in Loaded
  BY DEF KeepInv, TypesOK, SeedsOK, Loaded
<1>2. NewDir(ss, 2, segst)
  BY <1>1, GrownIs
<1>3. ss = [i \in 1 .. 2 |-> ss[i]] /\ Len(ss) = 2 /\ \A i \in 1 .. 2 : ss[i] \in Segs
  BY DEF Placed
<1>4. \A s \in Range(ss) : s \in Segs /\ segst[s] = "free" /\ \E i \in 1 .. 2 : s = ss[i]
  BY <1>2, <1>3 DEF Range, NewDir, Free
<1>5. PICK z \in {1, 2} : \A x \in Image \ Range(dir) : dimg[x].hdr.size < z
  BY <1>1 DEF KeepInv, DirOK
<1>6. \A i \in DOMAIN dir : dir[i] \in Image => dimg[dir[i]].hdr.size = 1
  BY <1>1 DEF KeepInv, DirOK
<1>7. Full = {}
  BY <1>1 DEF KeepInv, DirOK
<1>8. \A s \in Image : dimg[s].hdr.size < 2 /\ dimg[s].ents = {}
  <2> SUFFICES ASSUME NEW s \in Image PROVE dimg[s].hdr.size < 2 /\ dimg[s].ents = {}
    OBVIOUS
  <2>1. dimg[s].ents = {}
    BY <1>7 DEF Full
  <2>2. dimg[s].hdr.size \in {1, 2}
    BY DEF KeepInv, ImagesOK
  <2>3. CASE s \in Range(dir)
    BY <1>6, <2>1, <2>3 DEF Range
  <2>4. CASE s \notin Range(dir)
    <3>1. dimg[s].hdr.size < z
      BY <1>5, <2>4
    <3> QED
      BY <2>1, <2>2, <3>1
  <2> QED
    BY <2>3, <2>4
<1>9. \A s \in Image' : s \in Segs /\ (s \notin Range(ss) => s \in Image /\ dimg'[s] = dimg[s])
  <2> SUFFICES ASSUME NEW s \in Image' PROVE s \in Segs /\ (s \notin Range(ss) => s \in Image /\ dimg'[s] = dimg[s])
    OBVIOUS
  <2>1. s \in Segs /\ IsDir(s)' /\ dimg'[s].hdr.seed = dev /\ dimg'[s].ftr.seed = dev
    BY DEF Image, Segs
  <2>2. s \notin Range(ss) => smd'[s] = smd[s] /\ dimg'[s] = dimg[s]
    BY <1>2, <2>1 DEF NewDir
  <2> QED
    BY <2>1, <2>2 DEF Image, IsDir
<1>10. \A i \in 1 .. 2 : dimg'[ss[i]].hdr.size = 2 /\ dimg'[ss[i]].hdr.idx = i /\ dimg'[ss[i]].ents = {}
  BY <1>2 DEF NewDir
<1>11. \A s \in Image' : s \in Range(ss) \/ (s \in Image /\ dimg'[s].hdr = dimg[s].hdr /\ dimg'[s].hdr.size < 2)
  BY <1>8, <1>9
<1>12. \A s \in Image' : dimg'[s].ents = {}
  <2> SUFFICES ASSUME NEW s \in Image' PROVE dimg'[s].ents = {}
    OBVIOUS
  <2>1. CASE s \in Range(ss)
    BY <1>4, <1>10, <2>1
  <2>2. CASE s \notin Range(ss)
    BY <1>8, <1>9, <2>2
  <2> QED
    BY <2>1, <2>2
<1>13. ImagesOK' /\ Full' = {}
  BY <1>10, <1>11, <1>12, BareImages DEF KeepInv
<1>14. TypesOK'
  <2>1. /\ dimg' \in [Segs -> Img] /\ smd' = [s \in Segs |-> smd'[s]] /\ segst' = [s \in Segs |-> segst'[s]]
        /\ dir' = [i \in 1 .. Len(dir') |-> dir'[i]] /\ Len(dir') \in Nat
    BY <1>2, <1>3 DEF NewDir
  <2> QED
    BY <1>1, <2>1
    DEF TypesOK, OpsOK, Segs, Grain, Offs, Img, Entry, Tag, Slot, Streams, Waiting, Writing
<1>15. \A s \in Segs : dimg'[s].ftr = dimg[s].ftr
  BY <1>2, <1>4 DEF NewDir
<1>16. SeedsOK'
  BY <1>15 DEF KeepInv, SeedsOK, Segs
<1>17. EmptyOK'
  BY DEF EmptyOK
<1>18. DirOK'
  <2>1. dir' = ss /\ DOMAIN ss = 1 .. 2
    BY <1>2 DEF NewDir
  <2>2. \A i \in 1 .. 2 : segst'[ss[i]] = "dir"
    BY <1>2 DEF NewDir
  <2>3. \A i \in DOMAIN dir' : dir'[i] \in Segs =>
           segst'[dir'[i]] = "dir" /\ dimg'[dir'[i]].hdr.idx = i /\ dimg'[dir'[i]].hdr.size = 2
    BY <1>10, <2>1, <2>2
  <2>4. \A x \in Image' \ Range(dir') : dimg'[x].hdr.size < 2
    BY <1>11, <2>1
  <2>5. \A i \in DOMAIN dir' : dir'[i] \in Image' => dimg'[dir'[i]].hdr.size = Len(dir')
    BY <1>3, <1>10, <2>1
  <2> QED
    BY <1>13, <2>3, <2>4, <2>5 DEF DirOK, Segs
<1>19. \A s \in Segs : segst'[s] = "data" <=> segst[s] = "data"
  <2> SUFFICES ASSUME NEW s \in Segs PROVE segst'[s] = "data" <=> segst[s] = "data"
    OBVIOUS
  <2>1. CASE s \in Range(ss)
    BY <1>2, <1>4, <2>1 DEF NewDir
  <2>2. CASE s \notin Range(ss)
    BY <1>2, <2>2 DEF NewDir
  <2> QED
    BY <2>1, <2>2
<1>20. StoreOK'
  <2>1. Apart(map, op, open) /\ Covered(Held(map, op, open), valid, segst) /\ StreamsOK(open, segst)
    BY <1>1 DEF KeepInv, StoreOK
  <2>2. Covered(Held(map, op, open), valid, segst')
    BY <1>19, <2>1, CoversOwners
  <2>3. StreamsOK(open, segst')
    <3>1. \A st \in Streams : open[st].seg # None => open[st].seg \in Segs
      BY <2>1 DEF StreamsOK, Slot
    <3> QED
      BY <1>19, <2>1, <3>1 DEF StreamsOK
  <2>4. Apart(map', op', open') /\ Covered(Held(map', op', open'), valid', segst') /\ StreamsOK(open', segst')
    BY <2>1, <2>2, <2>3
  <2>5. \A s \in Segs : segst'[s] = "data" => ~IsDir(s)' \/ s \in Fresh(open', unstamped')
    <3> SUFFICES ASSUME NEW s \in Segs, segst'[s] = "data" PROVE ~IsDir(s)' \/ s \in Fresh(open', unstamped')
      OBVIOUS
    <3>1. segst[s] = "data" /\ s \notin Range(ss)
      BY <1>4, <1>19
    <3>2. (~IsDir(s) \/ s \in Fresh(open, unstamped)) /\ smd'[s] = smd[s]
      BY <1>1, <1>2, <3>1 DEF KeepInv, StoreOK, NewDir
    <3>3. Fresh(open', unstamped') = Fresh(open, unstamped)
      OBVIOUS
    <3> QED
      BY <3>2, <3>3 DEF IsDir
  <2>6. \A st \in unstamped' : open'[st].seg # None /\ open'[st].nr = 0
    BY <1>1 DEF KeepInv, StoreOK
  <2> QED
    BY <2>4, <2>5, <2>6 DEF StoreOK, Segs
<1> QED
  BY <1>13, <1>14, <1>16, <1>17, <1>18, <1>20 DEF KeepInv

\* grow()
LEMMA GrowStep ==
  ASSUME KeepInv, grow
  PROVE  KeepInv'
<1>1. UNCHANGED <<conf, dev, seed, map, valid, open, unstamped, op, vals, starts>>
  BY DEF grow
<1>2. Free \subseteq Segs
  BY DEF Free
<1>3. CASE mode = "create"
  <2>1. dir = <<>>
    BY <1>3 DEF KeepInv, EmptyOK
  <2>2. mode' = "persist" /\ 1 <= Cardinality(Free) /\ Grown(FirstOf(Free, 1), dimg, segst, smd)
    BY <1>3, <2>1 DEF grow
  <2>3. Placed(FirstOf(Free, 1), 1)
    BY <1>2, <2>2, FirstPlaced
  <2> QED
    BY <1>1, <1>3, <2>2, <2>3, CreateStep
<1>4. CASE mode = "up"
  <2>1. Len(dir) = 1 /\ mode' = mode
    BY <1>4 DEF grow
  <2>2. dir # <<>>
    BY <2>1
  <2>3. 2 <= Cardinality(Free) /\ Grown(FirstOf(Free, 2), dimg, segst, smd)
    BY <2>1, <2>2 DEF grow
  <2>4. Placed(FirstOf(Free, 2), 2) /\ Range(FirstOf(Free, 2)) \subseteq Free
    BY <1>2, <2>3, FirstPlaced
  <2> QED
    BY <1>1, <1>4, <2>1, <2>3, <2>4, GrowUpStep
<1> QED
  BY <1>3, <1>4 DEF grow

-----------------------------------------------------------------------------
(* Restarts *)

\* A restart takes over the images, and among them the largest.
LEMMA GroupIs ==
  ASSUME KeepInv, mode = "restore"
  PROVE  /\ Tables = Image /\ Group \subseteq Image
         /\ \A s \in Group, x \in Image : dimg[x].hdr.size <= dimg[s].hdr.size
         /\ Full \subseteq Group
         /\ Group = {} => Image = {}
<1>1. seed = dev
  BY DEF KeepInv, SeedsOK
<1>2. Tables = Image
  BY <1>1 DEF Tables, Image, IsDir, validate_seg_md
<1>3. Group \subseteq Image /\ \A s \in Group, x \in Image : dimg[x].hdr.size <= dimg[s].hdr.size
  BY <1>2 DEF Group
<1>4. Full \subseteq Group
  BY <1>2 DEF KeepInv, ImagesOK, Full, Group
<1>5. ASSUME Group = {}, Image # {} PROVE FALSE
  <2>1. \A s \in Image : dimg[s].hdr.size \in {1, 2}
    BY DEF KeepInv, ImagesOK
  <2>2. PICK s \in Image : TRUE
    BY <1>5
  <2>3. CASE \E x \in Image : dimg[x].hdr.size = 2
    <3>1. PICK x \in Image : dimg[x].hdr.size = 2
      BY <2>3
    <3>2. \A y \in Image : dimg[y].hdr.size <= dimg[x].hdr.size
      BY <2>1, <3>1
    <3> QED
      BY <1>2, <1>5, <3>2 DEF Group
  <2>4. CASE \A x \in Image : dimg[x].hdr.size = 1
    <3>1. \A y \in Image : dimg[y].hdr.size <= dimg[s].hdr.size
      BY <2>4
    <3> QED
      BY <1>2, <1>5, <2>2, <3>1 DEF Group
  <2> QED
    BY <2>1, <2>3, <2>4
<1> QED
  BY <1>2, <1>3, <1>4, <1>5

\* Nothing but the mode changes on the way out of the loaded modes.
LEMMA FailStep ==
  ASSUME KeepInv, mode # "up", mode' \in {"failed", "undefined"},
         UNCHANGED <<conf, dev, smd, dimg, seed, map, dir, segst, valid, open, unstamped, op, vals, starts>>
  PROVE  KeepInv'
<1>1. ImagesOK'
  BY SameDevice
<1>2. TypesOK'
  BY DEF KeepInv, TypesOK, OpsOK, Segs, Grain, Offs, Img, Entry, Tag, Slot, Streams, Waiting, Writing
<1>3. SeedsOK'
  BY DEF KeepInv, SeedsOK, Segs
<1>4. EmptyOK' /\ DirOK' /\ StoreOK'
  BY DEF KeepInv, EmptyOK, DirOK, StoreOK, Loaded
<1> QED
  BY <1>1, <1>2, <1>3, <1>4 DEF KeepInv

\* prep_crash_recovery(): no image is left; the new table has no entries.
LEMMA PrepStep ==
  ASSUME KeepInv, prep_crash_recovery
  PROVE  KeepInv'
<1>1. UNCHANGED <<conf, dev, seed, map, valid, open, unstamped, op, vals, starts>> /\ mode = "restore" /\ Group = {}
  BY DEF prep_crash_recovery
<1>2. CASE Log = {} \/ Log = Segs
  <2>1. mode' = "failed" /\ UNCHANGED <<smd, dimg, dir, segst>>
    BY <1>2 DEF prep_crash_recovery
  <2> QED
    BY <1>1, <2>1, FailStep
<1>3. CASE ~(Log = {} \/ Log = Segs)
  <2> DEFINE own == [x \in Segs |-> IF x \in Log THEN "data" ELSE "free"]
             ss == FirstOf(Segs \ Log, 1)
  <2>1. Grown(ss, dimg, own, smd) /\ mode' = "scan"
    BY <1>3 DEF prep_crash_recovery
  <2>2. Log \subseteq Segs
    BY DEF Log
  <2>3. 1 <= Cardinality(Segs \ Log)
    <3>1. IsFiniteSet(1 .. SegNr)
      BY RecoveryAssumption, FS_Interval
    <3>2. IsFiniteSet(Segs \ Log) /\ Segs \ Log # {}
      BY <1>3, <2>2, <3>1, FS_Subset DEF Segs
    <3>3. Cardinality(Segs \ Log) \in Nat /\ Cardinality(Segs \ Log) # 0
      BY <3>2, FS_CardinalityType, FS_EmptySet
    <3> QED
      BY <3>3
  <2>4. Placed(ss, 1) /\ Range(ss) \subseteq Segs \ Log
    BY <2>3, FirstPlaced
  <2> HIDE DEF ss
  <2>5. TypesOK /\ seed \in Nat /\ dev = seed /\ dev # 0
    BY <1>1 DEF KeepInv, TypesOK, SeedsOK
  <2>6. NewDir(ss, 1, own)
    BY <2>1, <2>4, <2>5, GrownIs
  <2>7. ss = [i \in 1 .. 1 |-> ss[i]] /\ Len(ss) = 1 /\ \A i \in 1 .. 1 : ss[i] \in Segs
    BY <2>4 DEF Placed
  <2>8. \A s \in Range(ss) : s \in Segs /\ s \notin Log /\ \E i \in 1 .. 1 : s = ss[i]
    BY <2>4, <2>6, <2>7 DEF Range, NewDir
  <2>9. Image = {}
    BY <1>1, GroupIs
  <2>10. \A s \in Image' : s \in Range(ss)
    <3> SUFFICES ASSUME NEW s \in Image', s \notin Range(ss) PROVE FALSE
      OBVIOUS
    <3>1. s \in Segs /\ IsDir(s)' /\ dimg'[s].hdr.seed = dev /\ dimg'[s].ftr.seed = dev
      BY <1>1 DEF Image, Segs
    <3>2. smd'[s] = smd[s] /\ dimg'[s] = dimg[s]
      BY <2>6, <3>1 DEF NewDir
    <3>3. s \in Image
      BY <1>1, <3>1, <3>2 DEF Image, IsDir
    <3> QED
      BY <2>9, <3>3
  <2>11. \A i \in 1 .. 1 : dimg'[ss[i]].hdr.size = 1 /\ dimg'[ss[i]].hdr.idx = i /\ dimg'[ss[i]].ents = {}
    BY <2>6 DEF NewDir
  <2>12. \A s \in Image' : dimg'[s].ents = {}
    BY <2>8, <2>10, <2>11
  <2>13. ImagesOK' /\ Full' = {}
    BY <2>4, <2>10, <2>11, <2>12, BareImages DEF KeepInv
  <2>14. TypesOK'
    <3>1. /\ dimg' \in [Segs -> Img] /\ smd' = [s \in Segs |-> smd'[s]] /\ segst' = [s \in Segs |-> segst'[s]]
          /\ dir' = [i \in 1 .. Len(dir') |-> dir'[i]] /\ Len(dir') \in Nat
      BY <2>6, <2>7 DEF NewDir
    <3> QED
      BY <1>1, <2>5, <3>1
      DEF TypesOK, OpsOK, Segs, Grain, Offs, Img, Entry, Tag, Slot, Streams, Waiting, Writing
  <2>15. \A s \in Segs : dimg'[s].ftr = dimg[s].ftr
    BY <2>6, <2>8 DEF NewDir
  <2>16. SeedsOK'
    BY <1>1, <2>1, <2>15 DEF KeepInv, SeedsOK, Segs
  <2>17. \A s \in Segs : s \notin Range(ss) => segst'[s] = own[s]
    BY <2>6 DEF NewDir
  <2>18. \A s \in Segs : segst'[s] = "data" => s \in Log /\ smd'[s] = smd[s]
    <3> SUFFICES ASSUME NEW s \in Segs, segst'[s] = "data" PROVE s \in Log /\ smd'[s] = smd[s]
      OBVIOUS
    <3>1. s \notin Range(ss)
      BY <2>6, <2>8 DEF NewDir
    <3> QED
      BY <2>6, <2>17, <3>1 DEF NewDir
  <2>19. \A s \in Log' : segst'[s] = "data"
    <3> SUFFICES ASSUME NEW s \in Log' PROVE segst'[s] = "data"
      OBVIOUS
    <3>1. s \in Segs /\ smd'[s].type = "data" /\ smd'[s].seed = seed
      BY <1>1 DEF Log, validate_seg_md, Segs
    <3>2. s \notin Range(ss)
      BY <2>6, <2>8, <3>1 DEF NewDir
    <3>3. s \in Log
      BY <2>6, <3>1, <3>2 DEF NewDir, Log, validate_seg_md
    <3> QED
      BY <2>17, <3>1, <3>2, <3>3
  <2>20. /\ map = {} /\ open = AllClosed /\ (\A t \in Threads : op[t] = Idle) /\ (\A s \in Segs : valid[s] = 0)
         /\ unstamped = {}
    BY <1>1 DEF KeepInv, EmptyOK, AllClosed
  <2>21. EmptyOK'
    BY <1>1, <2>1, <2>19, <2>20 DEF EmptyOK, Segs, Streams, AllClosed
  <2>22. DirOK'
    <3>1. dir' = ss /\ DOMAIN ss = 1 .. 1
      BY <2>6 DEF NewDir
    <3>2. \A i \in 1 .. 1 : segst'[ss[i]] = "dir"
      BY <2>6 DEF NewDir
    <3>3. \A i \in DOMAIN dir' : dir'[i] \in Segs =>
             segst'[dir'[i]] = "dir" /\ dimg'[dir'[i]].hdr.idx = i /\ dimg'[dir'[i]].hdr.size = 1
      BY <2>11, <3>1, <3>2
    <3>4. \A x \in Image' \ Range(dir') : dimg'[x].hdr.size < 1
      BY <2>10, <3>1
    <3>5. \A i \in DOMAIN dir' : dir'[i] \in Image' => dimg'[dir'[i]].hdr.size = Len(dir')
      BY <2>7, <2>11, <3>1
    <3> QED
      BY <2>1, <2>13, <3>3, <3>4, <3>5 DEF DirOK, Segs
  <2>23. StoreOK'
    <3>1. Held({}, op, AllClosed) = {} /\ Apart({}, op, AllClosed) /\ StreamsOK(AllClosed, segst')
      BY <2>20, NothingHeld
    <3>2. Covered({}, valid, segst')
      BY <2>20, EmptyCovered
    <3>3. Apart(map', op', open') /\ Covered(Held(map', op', open'), valid', segst') /\ StreamsOK(open', segst')
      BY <1>1, <2>20, <3>1, <3>2
    <3>4. \A s \in Segs : segst'[s] = "data" => ~IsDir(s)'
      BY <2>18 DEF IsDir, Log, validate_seg_md
    <3> QED
      BY <1>1, <2>20, <3>3, <3>4 DEF StoreOK, Segs
  <2> QED
    BY <2>13, <2>14, <2>16, <2>21, <2>22, <2>23 DEF KeepInv
<1> QED
  BY <1>2, <1>3

Named(m, s) == {e \in m : e.pba[1] = s}

\* Entries that share no grain are as many as their grains.
LEMMA NamedCount ==
  ASSUME NEW m, m \subseteq Entry, \A e, f \in m : e.pba = f.pba => e = f, NEW s
  PROVE  /\ IsFiniteSet(Named(m, s)) /\ Cardinality(Named(m, s)) \in Nat
         /\ Cardinality(Named(m, s)) = Cardinality(In({e.pba : e \in m}, s))
<1> DEFINE S == Named(m, s)
           T == In({e.pba : e \in m}, s)
           f == [e \in S |-> e.pba]
<1>1. f \in Injection(S, T)
  <2>1. f \in [S -> T]
    BY DEF Named, In
  <2>2. \A d, e \in S : f[d] = f[e] => d = e
    BY DEF Named
  <2> QED
    BY <2>1, <2>2 DEF Injection, IsInjective
<1>2. f \in Surjection(S, T)
  <2>1. f \in [S -> T]
    BY DEF Named, In
  <2>2. \A t \in T : \E e \in S : f[e] = t
    BY DEF Named, In
  <2> QED
    BY <2>1, <2>2 DEF Surjection
<1>3. {e.pba : e \in m} \subseteq Grain
  BY DEF Entry
<1>4. IsFiniteSet(T)
  BY <1>3, InFinite
<1> HIDE DEF f, S, T
<1>5. IsFiniteSet(S) /\ (Cardinality(S) = Cardinality(T) <=> f \in Surjection(S, T))
  BY <1>1, <1>4, FS_Injection
<1>6. Cardinality(S) \in Nat /\ Cardinality(S) = Cardinality(T)
  BY <1>2, <1>5, FS_CardinalityType
<1> QED
  BY <1>5, <1>6 DEF S, T

\* The directory that is restored has the tables of the group in their places,
\* and each of them.
LEMMA RestoredDirIs ==
  ASSUME KeepInv, mode = "restore", \A s \in Group : ~(dimg[s].hdr.idx > Cardinality(Group))
  PROVE  /\ RestoredDir = [i \in 1 .. Len(RestoredDir) |-> RestoredDir[i]] /\ Len(RestoredDir) \in Nat
         /\ \A i \in DOMAIN RestoredDir : RestoredDir[i] \in Segs =>
              RestoredDir[i] \in Group /\ dimg[RestoredDir[i]].hdr.idx = i
         /\ Group \subseteq Range(RestoredDir)
<1> DEFINE n == Cardinality(Group)
           At(i) == {s \in Group : dimg[s].hdr.idx = i}
           F(i) == IF At(i) = {} THEN None ELSE Max(At(i))
<1>1. Group \subseteq Image /\ Image \subseteq Segs /\ Segs \subseteq Nat /\ SegNr \in Nat /\ \A s \in Segs : s <= SegNr
  BY GroupIs, RecoveryAssumption DEF Image, Segs
<1>2. n \in Nat
  <2>1. IsFiniteSet(1 .. SegNr)
    BY RecoveryAssumption, FS_Interval
  <2>2. IsFiniteSet(Group)
    BY <1>1, <2>1, FS_Subset DEF Segs
  <2> QED
    BY <2>2, FS_CardinalityType
<1>3. RestoredDir = [i \in 1 .. n |-> F(i)]
  BY DEF RestoredDir
<1>4. \A i : At(i) # {} => F(i) \in At(i)
  <2> SUFFICES ASSUME NEW i, At(i) # {} PROVE Max(At(i)) \in At(i)
    OBVIOUS
  <2>1. At(i) \subseteq Nat /\ \A s \in At(i) : s <= SegNr
    BY <1>1
  <2> HIDE DEF At
  <2> QED
    BY <1>1, <2>1, MaxOfBounded
<1>5. \A i : At(i) = {} => F(i) = 0
  BY DEF None
<1> HIDE DEF F, n
<1>6. DOMAIN RestoredDir = 1 .. n /\ (\A i \in 1 .. n : RestoredDir[i] = F(i))
  BY <1>3
<1>7. RestoredDir = [i \in 1 .. n |-> RestoredDir[i]] /\ Len(RestoredDir) = n
  <2>1. \A f : f = [i \in 1 .. n |-> F(i)] => f = [i \in 1 .. n |-> f[i]]
    OBVIOUS
  <2>2. RestoredDir = [i \in 1 .. n |-> RestoredDir[i]]
    BY <1>3, <2>1
  <2>3. \A i \in 1 .. n : F(i) \in Nat
    <3> SUFFICES ASSUME NEW i \in 1 .. n PROVE F(i) \in Nat
      OBVIOUS
    <3>1. At(i) \subseteq Nat
      BY <1>1
    <3> HIDE DEF At
    <3> QED
      BY <1>4, <1>5, <3>1
  <2>4. RestoredDir \in [1 .. n -> Nat]
    BY <1>6, <2>2, <2>3
  <2>5. RestoredDir \in Seq(Nat)
    BY <1>2, <2>4
  <2>6. Len(RestoredDir) = n
    BY <1>2, <2>4, <2>5
  <2> QED
    BY <2>2, <2>6
<1>8. ASSUME NEW i \in DOMAIN RestoredDir, RestoredDir[i] \in Segs
      PROVE  RestoredDir[i] \in Group /\ dimg[RestoredDir[i]].hdr.idx = i
  <2>1. RestoredDir[i] = F(i) /\ F(i) # 0
    BY <1>6, <1>8 DEF Segs
  <2>2. F(i) \in At(i)
    BY <1>4, <1>5, <2>1
  <2> QED
    BY <2>1, <2>2
<1>9. ASSUME NEW s \in Group PROVE s \in Range(RestoredDir)
  <2> DEFINE i == dimg[s].hdr.idx
  <2>1. s \in Image /\ s \in Segs
    BY <1>1
  <2>2. i \in Nat /\ i >= 1
    BY <2>1 DEF KeepInv, ImagesOK, TypesOK, Img, Tag
  <2>3. ~(i > n)
    BY DEF n
  <2>4. i \in 1 .. n
    BY <1>2, <2>2, <2>3
  <2>5. s \in At(i)
    OBVIOUS
  <2>6. F(i) \in At(i)
    BY <1>4, <2>5
  <2>7. F(i) \in Group /\ dimg[F(i)].hdr.idx = dimg[s].hdr.idx
    BY <2>6
  <2> HIDE DEF i, At
  <2>8. dimg[F(i)].hdr.size = dimg[s].hdr.size
    <3>1. F(i) \in Image /\ s \in Image
      BY <1>1, <2>7
    <3>2. dimg[F(i)].hdr.size <= dimg[s].hdr.size /\ dimg[s].hdr.size <= dimg[F(i)].hdr.size
      BY <2>7, <3>1, GroupIs
    <3>3. dimg[F(i)].hdr.size \in Nat /\ dimg[s].hdr.size \in Nat
      BY <3>1 DEF KeepInv, ImagesOK
    <3> QED
      BY <3>2, <3>3
  <2>9. F(i) = s
    BY <1>1, <2>7, <2>8 DEF KeepInv, ImagesOK
  <2>10. RestoredDir[i] = s
    BY <1>6, <2>4, <2>9
  <2> QED
    BY <1>6, <2>4, <2>10 DEF Range
<1> QED
  BY <1>2, <1>7, <1>8, <1>9

\* restore(): the counts are those of the entries, and the segments of the
\* entries are none of the directory's.
LEMMA RestoreStep ==
  ASSUME KeepInv, restore
  PROVE  KeepInv'
<1>1. /\ UNCHANGED <<conf, dev, smd, dimg, seed, open, unstamped, op, vals, starts>> /\ mode = "restore" /\ Group # {}
      /\ unstamped = {}
  BY DEF restore, durable, KeepInv, EmptyOK
<1>2. CASE \E s \in Group : dimg[s].hdr.idx > Cardinality(Group)
  <2>1. mode' = "undefined" /\ UNCHANGED <<map, dir, segst, valid>>
    BY <1>2 DEF restore
  <2> QED
    BY <1>1, <2>1, FailStep
<1>3. CASE ~ \E s \in Group : dimg[s].hdr.idx > Cardinality(Group)
  <2> DEFINE own == [s \in Segs |-> IF s \in Group THEN "dir" ELSE "free"]
  <2>1. /\ map' = UNION {dimg[s].ents : s \in Group} /\ dir' = RestoredDir
        /\ valid' = RestoredCounts(map') /\ mode' = "invalidate"
    BY <1>3 DEF restore
  <2>2. segst' = restore_grain_range(valid', own)
    BY <1>3 DEF restore
  <2>3. /\ Group \subseteq Image /\ Full \subseteq Group
        /\ \A s \in Group, x \in Image : dimg[x].hdr.size <= dimg[s].hdr.size
    BY <1>1, GroupIs
  <2>4. /\ dir' = [i \in 1 .. Len(dir') |-> dir'[i]] /\ Len(dir') \in Nat
        /\ \A i \in DOMAIN dir' : dir'[i] \in Segs => dir'[i] \in Group /\ dimg[dir'[i]].hdr.idx = i
        /\ Group \subseteq Range(dir')
    BY <1>1, <1>3, <2>1, RestoredDirIs
  <2>5. TypesOK /\ ImagesOK
    BY DEF KeepInv
  <2>6. ASSUME NEW e \in map' PROVE e \in Entry /\ ~e.del /\ ~IsDir(e.pba[1])
    <3>1. PICK s \in Group : e \in dimg[s].ents
      BY <2>1
    <3>2. s \in Image /\ s \in Segs /\ dimg[s] \in Img
      BY <2>3, <2>5 DEF TypesOK, Image
    <3> QED
      BY <2>5, <3>1, <3>2 DEF ImagesOK, Img
  <2>7. ASSUME NEW e \in map', NEW f \in map', e.pba = f.pba PROVE e = f
    <3>1. PICK s \in Group : e \in dimg[s].ents
      BY <2>1
    <3>2. PICK x \in Group : f \in dimg[x].ents
      BY <2>1
    <3> QED
      BY <2>3, <2>5, <2>7, <3>1, <3>2 DEF ImagesOK
  <2>8. \A s \in Segs : /\ valid'[s] = Cardinality(Named(map', s)) /\ valid'[s] \in Nat
                        /\ IsFiniteSet(Named(map', s))
                        /\ valid'[s] = Cardinality(In({e.pba : e \in map'}, s))
    <3> SUFFICES ASSUME NEW s \in Segs
                 PROVE  /\ valid'[s] = Cardinality(Named(map', s)) /\ valid'[s] \in Nat
                        /\ IsFiniteSet(Named(map', s))
                        /\ valid'[s] = Cardinality(In({e.pba : e \in map'}, s))
      OBVIOUS
    <3>1. Live(map') = map'
      BY <2>6 DEF Live
    <3>2. valid'[s] = Cardinality(Named(map', s))
      BY <2>1, <3>1 DEF RestoredCounts, Named
    <3>3. map' \subseteq Entry
      BY <2>6
    <3>4. /\ IsFiniteSet(Named(map', s)) /\ Cardinality(Named(map', s)) \in Nat
          /\ Cardinality(Named(map', s)) = Cardinality(In({e.pba : e \in map'}, s))
      BY <2>7, <3>3, NamedCount
    <3> QED
      BY <3>2, <3>4
  <2>9. \A s \in Segs : segst'[s] = IF own[s] = "free" /\ valid'[s] > 0 THEN "data" ELSE own[s]
    BY <2>2 DEF restore_grain_range
  <2>10. \A s \in Group : s \in Segs /\ IsDir(s) /\ segst'[s] = "dir"
    BY <2>3, <2>9 DEF Image
  <2>11. ASSUME NEW s \in Segs PROVE segst'[s] = "data" <=> Named(map', s) # {}
    <3>1. Named(map', s) # {} <=> valid'[s] > 0
      <4>1. IsFiniteSet(Named(map', s)) /\ valid'[s] = Cardinality(Named(map', s)) /\ valid'[s] \in Nat
        BY <2>8
      <4>2. Cardinality(Named(map', s)) = 0 <=> Named(map', s) = {}
        BY <4>1, FS_EmptySet
      <4> QED
        BY <4>1, <4>2
    <3>2. ASSUME Named(map', s) # {} PROVE s \notin Group
      <4>1. PICK e \in map' : e.pba[1] = s
        BY <3>2 DEF Named
      <4> QED
        BY <2>6, <2>10, <4>1
    <3> QED
      BY <2>9, <3>1, <3>2
  <2>12. ImagesOK' /\ Image' = Image /\ Full' = Full /\ \A s \in Segs : IsDir(s)' <=> IsDir(s)
    BY <1>1, SameDevice
  <2>13. TypesOK'
    <3>1. valid' = [s \in Segs |-> valid'[s]] /\ segst' = [s \in Segs |-> segst'[s]]
      BY <2>1, <2>2 DEF RestoredCounts, restore_grain_range
    <3>2. map' \subseteq Entry /\ \A e \in map' : ~e.del
      BY <2>6
    <3> QED
      BY <1>1, <2>4, <2>5, <3>1, <3>2
      DEF TypesOK, OpsOK, Segs, Grain, Offs, Img, Entry, Tag, Slot, Streams, Waiting, Writing
  <2>14. SeedsOK'
    BY <1>1, <2>1 DEF KeepInv, SeedsOK, Segs
  <2>15. EmptyOK'
    BY <1>1, <2>1 DEF EmptyOK
  <2>16. DirOK'
    <3>1. PICK g \in Group : TRUE
      BY <1>1
    <3> DEFINE z == dimg[g].hdr.size
    <3>2. z \in {1, 2} /\ \A x \in Image : dimg[x].hdr.size \in {1, 2}
      BY <2>3, <2>5, <3>1 DEF ImagesOK
    <3>3. \A s \in Group : dimg[s].hdr.size = z
      <4> SUFFICES ASSUME NEW s \in Group PROVE dimg[s].hdr.size = z
        OBVIOUS
      <4>1. dimg[s].hdr.size <= z /\ z <= dimg[s].hdr.size /\ dimg[s].hdr.size \in {1, 2}
        BY <2>3, <3>1, <3>2
      <4> HIDE DEF z
      <4> QED
        BY <3>2, <4>1
    <3>4. \A x \in Image : x \notin Range(dir') => dimg[x].hdr.size < z
      <4> SUFFICES ASSUME NEW x \in Image, x \notin Range(dir') PROVE dimg[x].hdr.size < z
        OBVIOUS
      <4>1. x \notin Group
        BY <2>4
      <4>2. dimg[x].hdr.size # z
        <5> SUFFICES ASSUME dimg[x].hdr.size = z PROVE FALSE
          OBVIOUS
        <5>1. \A y \in Image : dimg[y].hdr.size <= dimg[x].hdr.size
          BY <2>3, <3>1
        <5>2. x \in Tables /\ Tables = Image
          BY <1>1, GroupIs
        <5> QED
          BY <4>1, <5>1, <5>2 DEF Group
      <4>3. dimg[x].hdr.size <= z
        BY <2>3, <3>1
      <4> HIDE DEF z
      <4> QED
        BY <3>2, <4>2, <4>3
    <3> HIDE DEF z
    <3>5. \A i \in DOMAIN dir' : dir'[i] \in Segs =>
             segst'[dir'[i]] = "dir" /\ dimg[dir'[i]].hdr.idx = i /\ dimg[dir'[i]].hdr.size = z
      BY <2>4, <2>10, <3>3
    <3>6. Full \subseteq Range(dir')
      BY <2>3, <2>4
    <3>7. \E y \in {1, 2} :
            /\ \A i \in DOMAIN dir' : dir'[i] \in Segs =>
                 segst'[dir'[i]] = "dir" /\ dimg'[dir'[i]].hdr.idx = i /\ dimg'[dir'[i]].hdr.size = y
            /\ \A x \in Image' \ Range(dir') : dimg'[x].hdr.size < y
      BY <1>1, <2>12, <3>2, <3>4, <3>5
    <3> QED
      BY <2>1, <2>12, <3>6, <3>7 DEF DirOK, Segs
  <2>17. StoreOK'
    <3>1. open = AllClosed /\ (\A t \in Threads : op[t] = Idle)
      BY <1>1 DEF KeepInv, EmptyOK, AllClosed
    <3>2. Writers(op) = {} /\ Rest(AllClosed) = {} /\ StreamsOK(AllClosed, segst')
      <4>1. Held({}, op, AllClosed) = {} /\ StreamsOK(AllClosed, segst')
        BY <3>1, NothingHeld
      <4>2. Writers(op) = {}
        BY <3>1 DEF Writers, Idle
      <4> QED
        BY <4>1, <4>2 DEF Held
    <3>3. Held(map', op, AllClosed) = {e.pba : e \in map'}
      BY <3>2 DEF Held
    <3>4. Apart(map', op, AllClosed)
      BY <2>7, <3>2 DEF Apart
    <3>5. Covered(Held(map', op, AllClosed), valid', segst')
      <4> SUFFICES ASSUME NEW s \in Segs
                   PROVE  /\ valid'[s] \in Int /\ valid'[s] >= Cardinality(In(Held(map', op, AllClosed), s))
                          /\ In(Held(map', op, AllClosed), s) # {} => segst'[s] = "data"
        BY DEF Covered
      <4>1. valid'[s] \in Nat /\ valid'[s] = Cardinality(In(Held(map', op, AllClosed), s))
        BY <2>8, <3>3
      <4>2. ASSUME In(Held(map', op, AllClosed), s) # {} PROVE segst'[s] = "data"
        <5>1. Named(map', s) # {}
          BY <3>3, <4>2 DEF Named, In
        <5> QED
          BY <2>11, <5>1
      <4>3. valid'[s] \in Int /\ valid'[s] >= Cardinality(In(Held(map', op, AllClosed), s))
        BY <4>1
      <4> QED
        BY <4>2, <4>3
    <3>6. Apart(map', op', open') /\ Covered(Held(map', op', open'), valid', segst') /\ StreamsOK(open', segst')
      BY <1>1, <3>1, <3>2, <3>4, <3>5
    <3>7. \A s \in Segs : segst'[s] = "data" => ~IsDir(s)'
      BY <2>6, <2>11, <2>12 DEF Named
    <3> QED
      BY <1>1, <3>6, <3>7 DEF StoreOK, Segs
  <2> QED
    BY <2>12, <2>13, <2>14, <2>15, <2>16, <2>17 DEF KeepInv
<1> QED
  BY <1>2, <1>3

-----------------------------------------------------------------------------
(* The scan of the log *)

GrainAt(i) == <<1 + ((i - 1) \div SegSize), (i - 1) % SegSize>>
ScanStep(x, i) ==
  IF GrainAt(i)[1] \in Log /\ Scannable(GrainAt(i)) THEN try_restore_entry(x, GrainAt(i)) ELSE x
Nothing == [k \in Keys |-> <<>>]
IsScan(f, m) == f = [i \in 0 .. m |-> IF i = 0 THEN Nothing ELSE ScanStep(f[i - 1], i)]

\* The scan of the first m grains is defined.
LEMMA ScanExists ==
  ASSUME NEW n \in Nat
  PROVE  \E f : IsScan(f, n)
<1> DEFINE T == {m \in Nat : ~ \E f : IsScan(f, m)}
<1>1. SUFFICES ASSUME T # {} PROVE FALSE
  OBVIOUS
<1>2. PICK m \in T : \A k \in T : m <= k
  <2>1. T \subseteq Nat
    OBVIOUS
  <2> HIDE DEF T
  <2> QED
    BY <1>1, <2>1, LeastNat
<1>3. m \in Nat /\ ~ \E f : IsScan(f, m)
  OBVIOUS
<1>4. m # 0
  <2> DEFINE f == [i \in 0 .. 0 |-> Nothing]
  <2>1. \A i \in 0 .. 0 : i = 0
    OBVIOUS
  <2>2. IsScan(f, 0)
    BY <2>1 DEF IsScan
  <2> QED
    BY <1>3, <2>2
<1>5. PICK f : IsScan(f, m - 1)
  <2>1. m - 1 \in Nat /\ ~(m <= m - 1)
    BY <1>3, <1>4
  <2> QED
    BY <1>2, <2>1
<1> HIDE DEF T
<1> DEFINE g == [i \in 0 .. m |-> IF i = m THEN ScanStep(f[m - 1], m) ELSE f[i]]
<1>6. \A i \in 0 .. (m - 1) : g[i] = f[i]
  BY <1>3, <1>4
<1>7. g[m] = ScanStep(f[m - 1], m) /\ m - 1 \in 0 .. (m - 1)
  BY <1>3, <1>4
<1>8. g = [i \in 0 .. m |-> g[i]]
  OBVIOUS
<1> HIDE DEF g
<1>9. ASSUME NEW i \in 0 .. m PROVE g[i] = IF i = 0 THEN Nothing ELSE ScanStep(g[i - 1], i)
  <2>1. CASE i = m
    BY <1>4, <1>6, <1>7, <2>1
  <2>2. CASE i # m
    <3>1. i \in 0 .. (m - 1)
      BY <1>3, <2>2
    <3>2. f[i] = IF i = 0 THEN Nothing ELSE ScanStep(f[i - 1], i)
      BY <1>5, <3>1 DEF IsScan
    <3>3. i # 0 => i - 1 \in 0 .. (m - 1)
      BY <1>3, <3>1
    <3> QED
      BY <1>6, <3>1, <3>2, <3>3
  <2> QED
    BY <2>1, <2>2
<1>10. IsScan(g, m)
  BY <1>8, <1>9 DEF IsScan
<1> QED
  BY <1>3, <1>10

\* Of a key at most one grain is left, and it is one of its records in the log.
Found(x) ==
  /\ x = [k \in Keys |-> x[k]]
  /\ \A k \in Keys : x[k] # <<>> => x[k] \in Grain /\ x[k][1] \in Log /\ Rec(x[k]).key = k

\* try_restore_entry() keeps it so.
LEMMA ScanStepFound ==
  ASSUME NEW x, Found(x), NEW i \in Nat \ {0}
  PROVE  Found(ScanStep(x, i))
<1> DEFINE g == GrainAt(i)
<1>1. CASE ScanStep(x, i) = x
  BY <1>1
<1>2. CASE GrainAt(i)[1] \in Log /\ ScanStep(x, i) = [x EXCEPT ![Rec(g).key] = g]
  <2>1. (i - 1) % SegSize \in Offs
    BY RecoveryAssumption DEF Offs
  <2>2. g \in Grain /\ g[1] \in Log
    BY <1>2, <2>1 DEF GrainAt, Grain, Log
  <2> HIDE DEF g
  <2> DEFINE y == [x EXCEPT ![Rec(g).key] = g]
  <2>3. y = [k \in Keys |-> y[k]] /\ \A k \in Keys : y[k] = IF k = Rec(g).key THEN g ELSE x[k]
    BY DEF Found
  <2> HIDE DEF y
  <2>4. Found(y)
    <3>1. ASSUME NEW k \in Keys, y[k] # <<>> PROVE y[k] \in Grain /\ y[k][1] \in Log /\ Rec(y[k]).key = k
      <4>1. CASE k = Rec(g).key
        BY <2>2, <2>3, <4>1
      <4>2. CASE k # Rec(g).key
        BY <2>3, <3>1, <4>2 DEF Found
      <4> QED
        BY <4>1, <4>2
    <3> QED
      BY <2>3, <3>1 DEF Found
  <2> QED
    BY <1>2, <2>4 DEF y
<1> QED
  BY <1>1, <1>2 DEF ScanStep, try_restore_entry

\* The scan ends with such a grain for each key.
LEMMA ScannedFound == Found(Scanned)
<1> DEFINE n == SegNr * SegSize
<1>1. n \in Nat
  BY RecoveryAssumption
<1> HIDE DEF n
<1> DEFINE at == CHOOSE f : IsScan(f, n)
<1>2. IsScan(at, n)
  BY <1>1, ScanExists
<1>3. Scanned = at[n]
  BY DEF Scanned, n, IsScan, ScanStep, GrainAt, Nothing
<1> HIDE DEF at
<1> DEFINE T == {m \in 0 .. n : ~Found(at[m])}
<1>4. SUFFICES ASSUME T # {} PROVE FALSE
  BY <1>1, <1>3
<1>5. PICK m \in T : \A k \in T : m <= k
  <2>1. T \subseteq Nat
    OBVIOUS
  <2> HIDE DEF T
  <2> QED
    BY <1>4, <2>1, LeastNat
<1>6. m \in 0 .. n /\ ~Found(at[m])
  OBVIOUS
<1>7. m # 0
  <2>1. at[0] = Nothing
    BY <1>1, <1>2 DEF IsScan
  <2>2. Found(Nothing)
    BY DEF Found, Nothing
  <2> QED
    BY <1>6, <2>1, <2>2
<1>8. Found(at[m - 1])
  <2>1. m - 1 \in 0 .. n /\ ~(m <= m - 1)
    BY <1>1, <1>6, <1>7
  <2> QED
    BY <1>5, <2>1
<1>9. at[m] = ScanStep(at[m - 1], m)
  BY <1>2, <1>6, <1>7 DEF IsScan
<1>10. m \in Nat \ {0}
  BY <1>1, <1>6, <1>7
<1>11. Found(ScanStep(at[m - 1], m))
  BY <1>8, <1>10, ScanStepFound
<1> QED
  BY <1>6, <1>9, <1>11

\* crash_recovery(): an entry for the last record of each key that the scan
\* found; its segment is in the log, which was taken whole.
LEMMA RecoverStep ==
  ASSUME KeepInv, crash_recovery
  PROVE  KeepInv'
<1>1. /\ UNCHANGED <<conf, dev, smd, dimg, seed, dir, open, unstamped, op, vals, starts>> /\ mode = "scan" /\ mode \in Loaded
      /\ unstamped = {}
  BY DEF crash_recovery, durable, Loaded, KeepInv, EmptyOK
<1>2. CASE \E s \in Log : ~Scannable(<<s, 0>>)
  <2>1. mode' = "failed" /\ UNCHANGED <<map, segst, valid>>
    BY <1>2 DEF crash_recovery
  <2> QED
    BY <1>1, <2>1, FailStep
<1>3. CASE ~ \E s \in Log : ~Scannable(<<s, 0>>)
  <2>1. map' = RestoredLog /\ valid' = RestoredCounts(map') /\ segst' = Settled(valid', segst, open) /\ mode' = "up"
    BY <1>3 DEF crash_recovery
  <2>2. Found(Scanned)
    BY ScannedFound
  <2>3. ASSUME NEW e \in map'
        PROVE  e \in Entry /\ ~e.del /\ e.pba[1] \in Log /\ Rec(e.pba).key = e.key
    <3>1. PICK k \in Keys : Scanned[k] # <<>> /\ e = [key |-> k, pba |-> Scanned[k], del |-> FALSE]
      BY <2>1 DEF RestoredLog
    <3>2. Scanned[k] \in Grain /\ Scanned[k][1] \in Log /\ Rec(Scanned[k]).key = k
      BY <2>2, <3>1 DEF Found
    <3> QED
      BY <3>1, <3>2 DEF Entry
  <2>4. ASSUME NEW e \in map', NEW f \in map', e.pba = f.pba PROVE e = f
    <3>1. e.key = f.key
      BY <2>3, <2>4
    <3>2. PICK k \in Keys : e = [key |-> k, pba |-> Scanned[k], del |-> FALSE]
      BY <2>1 DEF RestoredLog
    <3>3. PICK j \in Keys : f = [key |-> j, pba |-> Scanned[j], del |-> FALSE]
      BY <2>1 DEF RestoredLog
    <3> QED
      BY <3>1, <3>2, <3>3
  <2>5. map' \subseteq Entry
    BY <2>3
  <2>6. ASSUME NEW s \in Segs
        PROVE  valid'[s] \in Nat /\ valid'[s] = Cardinality(In({e.pba : e \in map'}, s))
    <3>1. Live(map') = map'
      BY <2>3 DEF Live
    <3>2. valid'[s] = Cardinality(Named(map', s))
      BY <2>1, <3>1 DEF RestoredCounts, Named
    <3>3. /\ Cardinality(Named(map', s)) \in Nat
          /\ Cardinality(Named(map', s)) = Cardinality(In({e.pba : e \in map'}, s))
      BY <2>4, <2>5, NamedCount
    <3> QED
      BY <3>2, <3>3
  <2>7. open = AllClosed /\ \A t \in Threads : op[t] = Idle
    BY <1>1 DEF KeepInv, EmptyOK, AllClosed
  <2>8. Writers(op) = {} /\ Rest(AllClosed) = {} /\ StreamsOK(AllClosed, segst')
    <3>1. Held({}, op, AllClosed) = {} /\ StreamsOK(AllClosed, segst')
      BY <2>7, NothingHeld
    <3>2. Writers(op) = {}
      BY <2>7 DEF Writers, Idle
    <3> QED
      BY <3>1, <3>2 DEF Held
  <2>9. Held(map', op, AllClosed) = {e.pba : e \in map'}
    BY <2>8 DEF Held
  <2>10. Covered(Held(map', op, AllClosed), valid', segst)
    <3> SUFFICES ASSUME NEW s \in Segs
                 PROVE  /\ valid'[s] \in Int /\ valid'[s] >= Cardinality(In(Held(map', op, AllClosed), s))
                        /\ In(Held(map', op, AllClosed), s) # {} => segst[s] = "data"
      BY DEF Covered
    <3>1. valid'[s] \in Nat /\ valid'[s] = Cardinality(In(Held(map', op, AllClosed), s))
      BY <2>6, <2>9
    <3>2. ASSUME In(Held(map', op, AllClosed), s) # {} PROVE segst[s] = "data"
      <4>1. s \in Log
        BY <2>3, <2>9, <3>2 DEF In
      <4> QED
        BY <1>1, <4>1 DEF KeepInv, EmptyOK
    <3>3. valid'[s] \in Int /\ valid'[s] >= Cardinality(In(Held(map', op, AllClosed), s))
      BY <3>1
    <3> QED
      BY <3>2, <3>3
  <2>11. Covered(Held(map', op, AllClosed), valid', segst')
    <3>1. Held(map', op, AllClosed) \subseteq Grain
      BY <2>3, <2>9 DEF Entry
    <3>2. Covered(Held(map', op, AllClosed), valid', Settled(valid', segst, open))
      BY <2>10, <3>1, SettledKeeps
    <3> QED
      BY <2>1, <3>2
  <2>12. /\ \A s \in Segs : segst'[s] = "data" => segst[s] = "data"
         /\ \A s \in Segs : segst[s] # "data" => segst'[s] = segst[s]
    BY <2>1, SettledOwners
  <2>13. ImagesOK' /\ Image' = Image /\ Full' = Full /\ \A s \in Segs : IsDir(s)' <=> IsDir(s)
    BY <1>1, SameDevice
  <2>14. TypesOK'
    <3>1. valid' = [s \in Segs |-> valid'[s]] /\ segst' = [s \in Segs |-> segst'[s]]
      BY <2>1 DEF RestoredCounts, Settled
    <3>2. \A e \in map' : ~e.del
      BY <2>3
    <3> QED
      BY <1>1, <2>5, <3>1, <3>2
      DEF KeepInv, TypesOK, OpsOK, Segs, Grain, Offs, Img, Entry, Tag, Slot, Streams, Waiting, Writing
  <2>15. SeedsOK'
    BY <1>1, <2>1 DEF KeepInv, SeedsOK, Segs
  <2>16. EmptyOK'
    BY <2>1 DEF EmptyOK
  <2>17. DirOK'
    <3>1. PICK z \in {1, 2} :
             /\ \A i \in DOMAIN dir : dir[i] \in Segs =>
                  segst[dir[i]] = "dir" /\ dimg[dir[i]].hdr.idx = i /\ dimg[dir[i]].hdr.size = z
             /\ \A x \in Image \ Range(dir) : dimg[x].hdr.size < z
      BY <1>1 DEF KeepInv, DirOK
    <3>2. Full = {} /\ \A i \in DOMAIN dir : dir[i] \in Image => dimg[dir[i]].hdr.size = Len(dir)
      BY <1>1 DEF KeepInv, DirOK
    <3>3. \A i \in DOMAIN dir : dir[i] \in Segs => segst'[dir[i]] = "dir"
      BY <2>12, <3>1
    <3> QED
      BY <1>1, <2>1, <2>13, <3>1, <3>2, <3>3 DEF DirOK, Segs
  <2>18. StoreOK'
    <3>1. Apart(map', op, AllClosed)
      BY <2>4, <2>8 DEF Apart
    <3>2. Apart(map', op', open') /\ Covered(Held(map', op', open'), valid', segst') /\ StreamsOK(open', segst')
      BY <1>1, <2>7, <2>8, <2>11, <3>1
    <3>3. \A s \in Segs : segst'[s] = "data" => ~IsDir(s)'
      BY <1>1, <2>12, <2>13 DEF KeepInv, StoreOK, Fresh
    <3> QED
      BY <1>1, <3>2, <3>3 DEF StoreOK, Segs
  <2> QED
    BY <2>13, <2>14, <2>15, <2>16, <2>17, <2>18 DEF KeepInv
<1> QED
  BY <1>2, <1>3

\* A step of an operation.
LEMMA RunningStep ==
  ASSUME KeepInv, NEW t \in Threads, Running(t)
  PROVE  KeepInv'
<1>1. CASE \E k \in Keys, del \in BOOLEAN : Begin(t, k, del)
  BY <1>1, BeginStep
<1>2. CASE Allocate(t)
  BY <1>2, AllocateStep
<1>3. CASE Write(t)
  BY <1>3, WriteStep
<1>4. CASE SetMapping(t)
  BY <1>4, SetMappingStep
<1>5. CASE WriteAgain(t)
  BY <1>5, WriteAgainStep
<1>6. CASE DelGone(t)
  BY <1>6, DelGoneStep
<1> QED
  BY <1>1, <1>2, <1>3, <1>4, <1>5, <1>6 DEF Running

\* Nothing happens.
LEMMA KeepStutter ==
  ASSUME KeepInv, UNCHANGED vars
  PROVE  KeepInv'
<1>1. UNCHANGED <<conf, dev, smd, dimg, mode, seed, map, dir, segst, valid, open, unstamped, op, vals, starts>>
  BY DEF vars, durable, volatile
<1>2. ImagesOK' /\ Image' = Image /\ Full' = Full /\ \A s \in Segs : IsDir(s)' <=> IsDir(s)
  BY <1>1, SameDevice
<1>3. TypesOK'
  BY <1>1 DEF KeepInv, TypesOK, OpsOK, Segs, Grain, Offs, Img, Entry, Tag, Slot, Streams, Waiting, Writing
<1>4. SeedsOK'
  BY <1>1 DEF KeepInv, SeedsOK, Segs
<1>5. EmptyOK'
  <2>1. Log' = Log
    BY <1>1 DEF Log, validate_seg_md, Segs
  <2> QED
    BY <1>1, <2>1 DEF KeepInv, EmptyOK, Segs, Streams
<1>6. DirOK'
  BY <1>1, <1>2 DEF KeepInv, DirOK, Segs
<1>7. StoreOK'
  <2> SUFFICES ASSUME mode \in Loaded PROVE StoreOK'
    BY <1>1 DEF StoreOK, Loaded
  <2>1. dimg' \in [Segs -> Img]
    BY <1>1 DEF KeepInv, TypesOK
  <2> QED
    BY <1>1, <2>1, SameStore
<1> QED
  BY <1>2, <1>3, <1>4, <1>5, <1>6, <1>7 DEF KeepInv

\* Every step keeps the segments of the entries.
LEMMA NextKeeps ==
  ASSUME KeepInv, [Next]_vars
  PROVE  KeepInv'
<1>1. CASE Open
  BY <1>1, OpenStep
<1>2. CASE grow
  BY <1>2, GrowStep
<1>3. CASE persist_dev_md
  BY <1>3, PersistStep
<1>4. CASE restore
  BY <1>4, RestoreStep
<1>5. CASE invalidate_ftr
  BY <1>5, InvalidateStep
<1>6. CASE shutdown
  BY <1>6, ShutdownStep
<1>7. CASE prep_crash_recovery
  BY <1>7, PrepStep
<1>8. CASE crash_recovery
  BY <1>8, RecoverStep
<1>9. CASE crash
  BY <1>9, CrashStep
<1>10. CASE \E st \in Streams : TakeSegment(st) \/ seg_md_callback(st)
  BY <1>10, TakeStep, StampStep
<1>11. CASE \E t \in Threads : Running(t)
  BY <1>11, RunningStep
<1>12. CASE relocate
  BY <1>12, RelocateStep
<1>13. CASE purge
  BY <1>13, PurgeStep
<1>14. CASE UNCHANGED vars
  BY <1>14, KeepStutter
<1> QED
  BY <1>1, <1>2, <1>3, <1>4, <1>5, <1>6, <1>7, <1>8, <1>9, <1>10, <1>11, <1>12, <1>13, <1>14 DEF Next

\* The entries of a segment are fewer than the grains that are held in it.
LEMMA KeepsSegments ==
  ASSUME KeepInv
  PROVE  EntriesKeepSegments
<1> SUFFICES ASSUME mode = "up", NEW s \in Segs, Named(map, s) # {}
             PROVE  segst[s] = "data" /\ valid[s] >= Cardinality(Named(map, s))
  BY DEF EntriesKeepSegments, Named
<1>1. /\ Apart(map, op, open) /\ OpsOK(op) /\ map \subseteq Entry
      /\ Covered(Held(map, op, open), valid, segst)
  BY InUse
<1> DEFINE A == In({e.pba : e \in map}, s)
           B == In(Held(map, op, open), s)
<1>2. A \subseteq B /\ A # {}
  BY DEF Held, In, Named
<1>3. Held(map, op, open) \subseteq Grain
  BY <1>1, HeldIn
<1>4. IsFiniteSet(B) /\ Cardinality(B) \in Nat
  BY <1>3, InFinite
<1>5. \A e, f \in map : e.pba = f.pba => e = f
  BY <1>1 DEF Apart
<1>6. Cardinality(Named(map, s)) \in Nat /\ Cardinality(Named(map, s)) = Cardinality(A)
  BY <1>1, <1>5, NamedCount
<1>7. valid[s] \in Int /\ valid[s] >= Cardinality(B) /\ (B # {} => segst[s] = "data")
  BY <1>1 DEF Covered
<1> HIDE DEF A, B
<1>8. Cardinality(A) <= Cardinality(B)
  BY <1>2, <1>4, FS_Subset
<1> QED
  BY <1>2, <1>4, <1>6, <1>7, <1>8

\* A store that does not delete, or is not shut down but only ever dies: over
\* any number of crashes, torn shutdowns, restarts and new stores on the
\* device, with any number of writers and with relocation, the segment of an
\* entry is never free and counts at least the grains that entries name:
\* restore(), crash_recovery(), gc_page_invalidate() and
\* allocator_allocate_segment().
THEOREM SegmentsKept == (\A c \in Confs : c.clean => ~c.dels) /\ Spec => []EntriesKeepSegments
<1>1. (\A c \in Confs : c.clean => ~c.dels) /\ RecInit => KeepInv
  BY InitKeeps
<1>2. KeepInv /\ [Next]_vars => KeepInv'
  BY NextKeeps
<1>3. KeepInv => EntriesKeepSegments
  BY KeepsSegments
<1> QED
  BY <1>1, <1>2, <1>3, PTL DEF Spec

-----------------------------------------------------------------------------
(* Records of earlier lives of a segment *)

Record == [key : Keys \cup {None}, val : Nat, ts : Nat, crc : Nat \X Nat]

\* The segments of the log of the store on the device
Here == {s \in Segs : smd[s].type = "data" /\ smd[s].seed = dev}

\* A record of that store is in a segment of its log, and not ahead of it.
Lives ==
  \A s \in Segs, o \in Offs :
    /\ recs[s][o].crc[1] <= dev
    /\ recs[s][o].crc[1] = dev /\ dev # 0 => s \in Here /\ recs[s][o].crc[2] <= smd[s].ts

\* What is written goes to a segment of the log, and a segment that waits for
\* its timestamp has one that is behind the counter, if any.
Stamped ==
  /\ \A st \in Streams : st \notin unstamped /\ open[st].seg # None => open[st].seg \in Here
  /\ \A t \in Writers(op) : op[t].g[1] \in Here
  /\ \A st \in unstamped : open[st].seg \in Here => smd[open[st].seg].ts < seg_alloc_nr

LifeInv == recs \in [Segs -> [Offs -> Record]] /\ Lives /\ Stamped

\* The device is as it was.
LEMMA SameLives ==
  ASSUME LifeInv, UNCHANGED <<dev, smd, recs>>
  PROVE  recs' \in [Segs -> [Offs -> Record]] /\ Lives' /\ Here' = Here
<1>1. Here' = Here
  BY DEF Here, Segs
<1>2. \A s \in Segs, o \in Offs :
        /\ recs[s][o].crc[1] <= dev
        /\ recs[s][o].crc[1] = dev /\ dev # 0 => s \in Here /\ recs[s][o].crc[2] <= smd[s].ts
  BY DEF LifeInv, Lives
<1>3. Lives'
  BY <1>1, <1>2 DEF Lives, Segs, Offs
<1>4. recs \in [Segs -> [Offs -> Record]]
  BY DEF LifeInv
<1> QED
  BY <1>1, <1>3, <1>4 DEF Segs, Offs, Record

\* No stream is open and no operation under way.
LEMMA ClosedStamped ==
  ASSUME open' = AllClosed, unstamped' = {}, \A t \in Threads : op'[t] = Idle
  PROVE  Stamped'
<1>1. Writers(op') = {}
  BY DEF Writers, Idle
<1>2. \A st \in Streams : open'[st].seg = None
  BY DEF AllClosed, Closed
<1> QED
  BY <1>1, <1>2 DEF Stamped, Streams

\* The device and the streams are as they were, and the operations hold no
\* more grains.
LEMMA QuietLife ==
  ASSUME LifeInv, UNCHANGED <<dev, smd, recs, open, unstamped, seg_alloc_nr>>,
         \A t \in Threads : t \in Writers(op') => t \in Writers(op) /\ op'[t].g = op[t].g
  PROVE  LifeInv'
<1>1. recs' \in [Segs -> [Offs -> Record]] /\ Lives' /\ Here' = Here
  BY SameLives
<1>2. \A t \in Writers(op') : op'[t].g[1] \in Here
  BY DEF LifeInv, Stamped, Writers
<1>3. Stamped'
  BY <1>1, <1>2 DEF LifeInv, Stamped, Streams
<1> QED
  BY <1>1, <1>3 DEF LifeInv

\* One operation changes, and holds no grain now.
LEMMA OneLess ==
  ASSUME KeepInv, NEW t \in Threads, NEW v, v.what \notin {"write", "map"}, op' = [op EXCEPT ![t] = v]
  PROVE  \A u \in Threads : u \in Writers(op') => u \in Writers(op) /\ op'[u].g = op[u].g
<1>1. op'[t] = v /\ \A u \in Threads : u # t => op'[u] = op[u]
  BY DEF KeepInv, TypesOK, OpsOK
<1> QED
  BY <1>1 DEF Writers

\* A record written to a segment of the log, with the segment's timestamp.
LEMMA WriteLives ==
  ASSUME LifeInv, TsInv, mode = "up", seed = dev, UNCHANGED <<dev, smd>>,
         NEW g \in Grain, g[1] \in Here, NEW r, r \in Record, r.crc = <<seed, smd[g[1]].ts>>,
         recs' = [recs EXCEPT ![g[1]][g[2]] = r]
  PROVE  recs' \in [Segs -> [Offs -> Record]] /\ Lives' /\ Here' = Here
<1>1. Here' = Here
  BY DEF Here, Segs
<1>2. g[1] \in Segs /\ g[2] \in Offs
  BY GrainIs
<1>3. recs \in [Segs -> [Offs -> Record]]
  BY DEF LifeInv
<1>4. \A s \in Segs, o \in Offs : recs'[s][o] = IF s = g[1] /\ o = g[2] THEN r ELSE recs[s][o]
  BY <1>2, <1>3
<1>5. recs' \in [Segs -> [Offs -> Record]]
  BY <1>2, <1>3
<1>6. smd[g[1]].ts \in Nat /\ dev \in Nat
  BY DEF Here, TsInv, MdOK, SeedsUsed
<1>7. ASSUME NEW s \in Segs, NEW o \in Offs
      PROVE  /\ recs'[s][o].crc[1] <= dev
             /\ recs'[s][o].crc[1] = dev /\ dev # 0 => s \in Here /\ recs'[s][o].crc[2] <= smd[s].ts
  <2>1. CASE s = g[1] /\ o = g[2]
    <3>1. recs'[s][o] = r
      BY <1>4, <2>1
    <3>2. r.crc[1] = dev /\ r.crc[2] = smd[s].ts
      BY <2>1
    <3> QED
      BY <1>6, <2>1, <3>1, <3>2
  <2>2. CASE ~(s = g[1] /\ o = g[2])
    <3>1. recs'[s][o] = recs[s][o]
      BY <1>4, <2>2
    <3> QED
      BY <3>1 DEF LifeInv, Lives
  <2> QED
    BY <2>1, <2>2
<1>8. Lives'
  BY <1>1, <1>7 DEF Lives, Segs, Offs
<1> QED
  BY <1>1, <1>5, <1>8 DEF Record, Segs, Offs

\* A put, a delete or the collector write to a segment of the log.
LEMMA WriteLife ==
  ASSUME KeepInv, TsInv, LifeInv, NEW t \in Threads, op[t] # Idle, Allocate(t) \/ Write(t)
  PROVE  LifeInv'
<1>1. mode = "up" /\ seed = dev /\ op \in [Threads -> {Idle} \cup Waiting \cup Writing] /\ open \in [Streams -> Slot]
  BY DEF KeepInv, SeedsOK, TypesOK, OpsOK, Allocate, Write
<1>2. CASE Allocate(t)
  <2> DEFINE w == [what |-> "write", key |-> op[t].key, val |-> op[t].val, g |-> <<open[User].seg, open[User].nr>>]
  <2>1. /\ UNCHANGED <<dev, smd, recs, unstamped, seg_alloc_nr>> /\ open[User].seg # None /\ User \notin unstamped
        /\ op' = [op EXCEPT ![t] = w] /\ open' = [open EXCEPT ![User].nr = @ + 1]
    BY <1>2 DEF Allocate, durable, Staged
  <2>2. w.g[1] = open[User].seg
    OBVIOUS
  <2> HIDE DEF w
  <2>3. op'[t] = w /\ \A u \in Threads : u # t => op'[u] = op[u]
    BY <1>1, <2>1
  <2>4. \A st \in Streams : open'[st].seg = open[st].seg
    BY <1>1, <2>1 DEF Slot, Streams
  <2>5. recs' \in [Segs -> [Offs -> Record]] /\ Lives' /\ Here' = Here
    BY <2>1, SameLives
  <2>6. User \in Streams /\ unstamped \subseteq Streams
    BY DEF Streams, KeepInv, TypesOK
  <2>7. \A u \in Writers(op') : op'[u].g[1] \in Here
    <3>1. w.g[1] \in Here /\ \A u \in Writers(op) : op[u].g[1] \in Here
      BY <2>1, <2>2, <2>6 DEF LifeInv, Stamped
    <3> QED
      BY <2>3, <3>1 DEF Writers
  <2>8. Stamped'
    <3>1. \A st \in Streams : st \notin unstamped' /\ open'[st].seg # None => open'[st].seg \in Here
      BY <2>1, <2>4 DEF LifeInv, Stamped
    <3>2. \A st \in unstamped' : open'[st].seg \in Here => smd[open'[st].seg].ts < seg_alloc_nr
      BY <2>1, <2>4, <2>6 DEF LifeInv, Stamped
    <3> QED
      BY <2>1, <2>5, <2>7, <3>1, <3>2 DEF Stamped, Streams
  <2> QED
    BY <2>5, <2>8 DEF LifeInv
<1>3. CASE Write(t)
  <2> DEFINE g == op[t].g
             r == [key |-> op[t].key, val |-> op[t].val, ts |-> smd[g[1]].ts, crc |-> <<seed, smd[g[1]].ts>>]
  <2>1. /\ UNCHANGED <<dev, smd, open, unstamped, seg_alloc_nr>> /\ op[t].what = "write"
        /\ op' = [op EXCEPT ![t].what = "map"] /\ recs' = [recs EXCEPT ![g[1]][g[2]] = r]
    BY <1>3 DEF Write
  <2>2. op[t] \in Writing /\ t \in Writers(op)
    BY <1>1, <2>1 DEF Idle, Waiting, Writing, Writers
  <2>3. g \in Grain /\ op[t].key \in Keys /\ op[t].val \in Nat /\ g[1] \in Here
    BY <2>2 DEF Writing, LifeInv, Stamped
  <2>4. smd[g[1]].ts \in Nat /\ seed \in Nat
    BY <1>1, <2>3 DEF Here, TsInv, MdOK, SeedsUsed
  <2>5. r \in Record /\ r.crc = <<seed, smd[g[1]].ts>>
    BY <2>3, <2>4 DEF Record
  <2> HIDE DEF g, r
  <2>6. recs' \in [Segs -> [Offs -> Record]] /\ Lives' /\ Here' = Here
    BY <1>1, <2>1, <2>3, <2>5, WriteLives
  <2>7. \A u \in Threads : u # t => op'[u] = op[u]
    BY <1>1, <2>1
  <2>8. op'[t] = [op[t] EXCEPT !.what = "map"]
    BY <1>1, <2>1
  <2>9. op'[t].g = op[t].g
    BY <2>2, <2>8 DEF Writing
  <2>10. \A u \in Writers(op') : op'[u].g[1] \in Here
    BY <2>3, <2>7, <2>9 DEF Writers, LifeInv, Stamped, g
  <2>11. Stamped'
    BY <2>1, <2>6, <2>10 DEF LifeInv, Stamped, Streams
  <2> QED
    BY <2>6, <2>11 DEF LifeInv
<1> QED
  BY <1>2, <1>3

\* local_gc_callback(): a record that moves gets the timestamp of its new
\* segment.
LEMMA RelocateLife ==
  ASSUME KeepInv, TsInv, LifeInv, relocate
  PROVE  LifeInv'
<1> DEFINE g == <<open[Reloc].seg, open[Reloc].nr>>
<1>1. /\ mode = "up" /\ open[Reloc].seg # None /\ Reloc \notin unstamped /\ open[Reloc].nr < SegSize
      /\ UNCHANGED <<dev, smd, unstamped, seg_alloc_nr, op>>
  BY DEF relocate, Staged
<1>2. PICK e \in Live(map) : /\ recs' = [recs EXCEPT ![g[1]][g[2]] = [Rec(e.pba) EXCEPT !.crc = <<seed, smd[g[1]].ts>>]]
                             /\ open' = [open EXCEPT ![Reloc].nr = @ + 1]
  BY DEF relocate, Settle
<1>3. open \in [Streams -> Slot] /\ seed = dev /\ e \in Entry /\ Reloc \in Streams /\ unstamped \subseteq Streams
  BY <1>1 DEF KeepInv, TypesOK, SeedsOK, Live, Streams
<1>4. g \in Grain
  <2>1. open[Reloc] \in Slot
    BY <1>3
  <2>2. open[Reloc].seg \in Segs /\ open[Reloc].nr \in 0 .. SegSize
    BY <1>1, <2>1 DEF Slot
  <2>3. open[Reloc].nr \in Offs
    BY <1>1, <2>2, RecoveryAssumption DEF Offs
  <2> QED
    BY <2>2, <2>3 DEF Grain
<1>5. g[1] = open[Reloc].seg /\ g[1] \in Here
  BY <1>1, <1>3 DEF LifeInv, Stamped
<1> HIDE DEF g
<1>6. smd[g[1]].ts \in Nat /\ seed \in Nat
  BY <1>3, <1>5 DEF Here, TsInv, MdOK, SeedsUsed
<1> DEFINE r == [Rec(e.pba) EXCEPT !.crc = <<seed, smd[g[1]].ts>>]
<1>7. r \in Record /\ r.crc = <<seed, smd[g[1]].ts>>
  <2>1. e.pba[1] \in Segs /\ e.pba[2] \in Offs
    BY <1>3, GrainIs DEF Entry
  <2>2. Rec(e.pba) \in Record
    BY <2>1 DEF Rec, LifeInv
  <2> QED
    BY <1>6, <2>2 DEF Record
<1> HIDE DEF r
<1>8. recs' = [recs EXCEPT ![g[1]][g[2]] = r]
  BY <1>2 DEF r
<1>9. recs' \in [Segs -> [Offs -> Record]] /\ Lives' /\ Here' = Here
  BY <1>1, <1>3, <1>4, <1>5, <1>7, <1>8, WriteLives
<1>10. \A st \in Streams : open'[st].seg = open[st].seg
  BY <1>2, <1>3 DEF Slot, Streams
<1>11. \A t \in Writers(op') : op'[t].g[1] \in Here
  BY <1>1 DEF LifeInv, Stamped
<1>12. Stamped'
  BY <1>1, <1>3, <1>9, <1>10, <1>11 DEF LifeInv, Stamped, Streams
<1> QED
  BY <1>9, <1>12 DEF LifeInv

\* The order of the log is wrong: the stream may give up its segment.
LEMMA AgainLife ==
  ASSUME KeepInv, LifeInv, NEW t \in Threads, WriteAgain(t)
  PROVE  LifeInv'
<1>1. /\ UNCHANGED <<dev, smd, recs, unstamped, seg_alloc_nr>>
      /\ op' = [op EXCEPT ![t] = [what |-> "alloc", key |-> op[t].key, val |-> op[t].val]]
      /\ open' = open \/ (User \notin unstamped /\ open' = [open EXCEPT ![User] = Closed])
  BY DEF WriteAgain, durable, Settle, Staged
<1>2. open \in [Streams -> Slot] /\ unstamped \subseteq Streams
  BY DEF KeepInv, TypesOK
<1>3. recs' \in [Segs -> [Offs -> Record]] /\ Lives' /\ Here' = Here
  BY <1>1, SameLives
<1>4. \A u \in Writers(op') : op'[u].g[1] \in Here
  <2>1. \A u \in Threads : u \in Writers(op') => u \in Writers(op) /\ op'[u].g = op[u].g
    BY <1>1, OneLess
  <2> QED
    BY <2>1 DEF LifeInv, Stamped, Writers
<1>5. \A st \in Streams : \/ open'[st] = open[st]
                          \/ st = User /\ st \notin unstamped /\ open'[st].seg = None
  BY <1>1, <1>2 DEF Closed
<1>6. Stamped'
  BY <1>1, <1>2, <1>3, <1>4, <1>5 DEF LifeInv, Stamped, Streams
<1> QED
  BY <1>3, <1>6 DEF LifeInv

\* allocator_allocate_segment(): the counter moves past the timestamp that the
\* segment had in its last life.
LEMMA TakeLife ==
  ASSUME KeepInv, TsInv, LifeInv, NEW st \in Streams, TakeSegment(st)
  PROVE  LifeInv'
<1>1. /\ UNCHANGED <<dev, smd, recs, op>> /\ mode = "up" /\ seg_alloc_nr' = seg_alloc_nr + 1
      /\ unstamped' = unstamped \cup {st}
  BY DEF TakeSegment, durable
<1>2. PICK s \in Free : open' = [open EXCEPT ![st] = [seg |-> s, nr |-> 0]]
  BY DEF TakeSegment
<1>3. open \in [Streams -> Slot] /\ unstamped \subseteq Streams /\ seed = dev
  BY <1>1 DEF KeepInv, TypesOK, SeedsOK
<1>4. recs' \in [Segs -> [Offs -> Record]] /\ Lives' /\ Here' = Here
  BY <1>1, SameLives
<1>5. open'[st].seg = s /\ \A y \in Streams : y # st => open'[y] = open[y]
  BY <1>2, <1>3
<1>6. seg_alloc_nr \in Nat /\ \A x \in Here : smd[x].ts \in Nat /\ smd[x].ts <= seg_alloc_nr
  BY <1>1, <1>3 DEF TsInv, CounterAhead, MdOK, Log, validate_seg_md, Here
<1>7. \A x \in Here : smd[x].ts < seg_alloc_nr'
  BY <1>1, <1>6
<1>8. \A u \in Writers(op') : op'[u].g[1] \in Here
  BY <1>1 DEF LifeInv, Stamped
<1>9. Stamped'
  BY <1>1, <1>3, <1>4, <1>5, <1>7, <1>8 DEF LifeInv, Stamped, Streams
<1> QED
  BY <1>4, <1>9 DEF LifeInv

\* seg_md_callback(): the timestamp is ahead of those of the records.
LEMMA StampLife ==
  ASSUME KeepInv, TsInv, LifeInv, NEW st \in Streams, seg_md_callback(st)
  PROVE  /\ LifeInv'
         /\ \A o \in Offs : recs[open[st].seg][o].crc # <<seed, seg_alloc_nr>>
<1> DEFINE s == open[st].seg
           md == [type |-> "data", seed |-> seed, ts |-> seg_alloc_nr]
<1>1. /\ mode = "up" /\ st \in unstamped /\ unstamped' = unstamped \ {st} /\ smd' = [smd EXCEPT ![s] = md]
      /\ UNCHANGED <<dev, recs, open, op, seg_alloc_nr>>
  BY DEF seg_md_callback, persist_seg_md
<1>2. /\ open \in [Streams -> Slot] /\ StreamsOK(open, segst) /\ unstamped \subseteq Streams
      /\ seed = dev /\ dev # 0 /\ s # None
  BY <1>1 DEF KeepInv, TypesOK, SeedsOK, StoreOK, Loaded
<1>3. s \in Segs
  BY <1>2 DEF Slot
<1>4. md.type = "data" /\ md.seed = dev /\ md.ts = seg_alloc_nr
  BY <1>2
<1> HIDE DEF md
<1>5. smd'[s] = md /\ \A x \in Segs : x # s => smd'[x] = smd[x]
  BY <1>1, <1>3 DEF TsInv
<1>6. /\ s \in Here' /\ \A x \in Segs : x \in Here => x \in Here'
      /\ \A x \in Segs : x # s /\ x \in Here' => x \in Here
  BY <1>1, <1>3, <1>4, <1>5 DEF Here, Segs
<1>7. seg_alloc_nr \in Nat /\ (s \in Here => smd[s].ts \in Nat /\ smd[s].ts < seg_alloc_nr)
  BY <1>1 DEF TsInv, MdOK, Here, LifeInv, Stamped
<1>8. ASSUME NEW o \in Offs, recs[s][o].crc[1] = dev PROVE recs[s][o].crc[2] < seg_alloc_nr
  <2>1. s \in Here /\ recs[s][o].crc[2] <= smd[s].ts
    BY <1>2, <1>3, <1>8 DEF LifeInv, Lives
  <2>2. recs[s][o].crc[2] \in Nat
    <3>1. recs[s][o] \in Record
      BY <1>3 DEF LifeInv
    <3> QED
      BY <3>1 DEF Record
  <2> QED
    BY <1>7, <2>1, <2>2
<1>9. \A o \in Offs : recs[s][o].crc # <<seed, seg_alloc_nr>>
  BY <1>2, <1>7, <1>8
<1>10. ASSUME NEW x \in Segs, NEW o \in Offs
       PROVE  /\ recs[x][o].crc[1] <= dev
              /\ recs[x][o].crc[1] = dev => x \in Here' /\ recs[x][o].crc[2] <= smd'[x].ts
  <2>1. recs[x][o].crc[1] <= dev /\ (recs[x][o].crc[1] = dev => x \in Here /\ recs[x][o].crc[2] <= smd[x].ts)
    BY <1>2 DEF LifeInv, Lives
  <2>2. CASE x = s
    <3>1. ASSUME recs[x][o].crc[1] = dev PROVE recs[x][o].crc[2] <= seg_alloc_nr
      <4>1. recs[x][o] \in Record
        BY DEF LifeInv
      <4>2. recs[x][o].crc[2] \in Nat
        BY <4>1 DEF Record
      <4>3. recs[x][o].crc[2] < seg_alloc_nr
        BY <1>8, <2>2, <3>1
      <4> QED
        BY <1>7, <4>2, <4>3
    <3> QED
      BY <1>4, <1>5, <1>6, <2>1, <2>2, <3>1
  <2>3. CASE x # s
    BY <1>5, <1>6, <2>1, <2>3
  <2> QED
    BY <2>2, <2>3
<1>11. Lives'
  BY <1>1, <1>10 DEF Lives, Segs, Offs
<1>12. recs' \in [Segs -> [Offs -> Record]]
  BY <1>1 DEF LifeInv, Record, Segs, Offs
<1>13. \A y \in unstamped' : open[y].seg \in Here' => smd'[open[y].seg].ts < seg_alloc_nr
  <2> SUFFICES ASSUME NEW y \in unstamped', open[y].seg \in Here' PROVE smd'[open[y].seg].ts < seg_alloc_nr
    OBVIOUS
  <2>1. y \in unstamped /\ y # st /\ y \in Streams
    BY <1>1, <1>2
  <2>2. open[y].seg # s
    BY <1>2, <2>1 DEF StreamsOK, Streams
  <2>3. open[y].seg \in Segs
    BY DEF Here, Segs
  <2>4. open[y].seg \in Here /\ smd'[open[y].seg] = smd[open[y].seg]
    BY <1>5, <1>6, <2>2, <2>3
  <2> QED
    BY <2>1, <2>4 DEF LifeInv, Stamped
<1>14. \A y \in Streams : y \notin unstamped' /\ open[y].seg # None => open[y].seg \in Here'
  <2> SUFFICES ASSUME NEW y \in Streams, y \notin unstamped', open[y].seg # None PROVE open[y].seg \in Here'
    OBVIOUS
  <2>1. CASE y = st
    BY <1>6, <2>1
  <2>2. CASE y # st
    <3>1. open[y].seg \in Here
      BY <1>1, <2>2 DEF LifeInv, Stamped
    <3> QED
      BY <1>6, <3>1 DEF Here
  <2> QED
    BY <2>1, <2>2
<1>15. \A t \in Writers(op) : op[t].g[1] \in Here'
  <2>1. \A t \in Writers(op) : op[t].g[1] \in Here
    BY DEF LifeInv, Stamped
  <2> QED
    BY <1>6, <2>1 DEF Here
<1>16. Stamped'
  BY <1>1, <1>13, <1>14, <1>15 DEF Stamped, Streams
<1> QED
  BY <1>9, <1>11, <1>12, <1>16 DEF LifeInv

\* grow(), prep_crash_recovery(): the directory takes segments that no one
\* writes to, and their records are gone.
LEMMA GrownLife ==
  ASSUME TypesOK, LifeInv, seed \in Nat, dev \in Nat, NEW ss, NEW n, Placed(ss, n), NEW own,
         Grown(ss, dimg, own, smd), UNCHANGED <<dev, open, unstamped, op, seg_alloc_nr>>,
         \A st \in Streams : open[st].seg # None => open[st].seg \in Segs \ Range(ss),
         \A t \in Writers(op) : op[t].g[1] \notin Range(ss)
  PROVE  LifeInv'
<1>1. NewDir(ss, n, own)
  BY GrownIs
<1>2. /\ recs' = [s \in Segs |-> recs'[s]]
      /\ \A s \in Segs : recs'[s] = IF s \in Range(ss) THEN [o \in Offs |-> NoRec] ELSE recs[s]
  BY DEF Grown
<1>3. NoRec \in Record /\ NoRec.crc[1] = 0
  BY DEF NoRec, Record
<1>4. recs' \in [Segs -> [Offs -> Record]]
  BY <1>2, <1>3 DEF LifeInv
<1>5. \A s \in Segs : s \notin Range(ss) => smd'[s] = smd[s]
  BY <1>1 DEF NewDir
<1>6. \A s \in Segs : s \notin Range(ss) => (s \in Here' <=> s \in Here)
  BY <1>5 DEF Here, Segs
<1>7. ASSUME NEW s \in Segs, NEW o \in Offs
      PROVE  /\ recs'[s][o].crc[1] <= dev
             /\ recs'[s][o].crc[1] = dev /\ dev # 0 => s \in Here' /\ recs'[s][o].crc[2] <= smd'[s].ts
  <2>1. CASE s \in Range(ss)
    <3>1. recs'[s][o] = NoRec
      BY <1>2, <2>1
    <3> QED
      BY <1>3, <3>1
  <2>2. CASE s \notin Range(ss)
    <3>1. recs'[s][o] = recs[s][o]
      BY <1>2, <2>2
    <3> QED
      BY <1>5, <1>6, <2>2, <3>1 DEF LifeInv, Lives
  <2> QED
    BY <2>1, <2>2
<1>8. Lives'
  BY <1>7 DEF Lives, Segs, Offs
<1>9. \A t \in Writers(op') : op'[t].g[1] \in Here'
  <2> SUFFICES ASSUME NEW t \in Writers(op) PROVE op[t].g[1] \in Here'
    OBVIOUS
  <2>1. op[t].g[1] \in Here /\ op[t].g[1] \notin Range(ss)
    BY DEF LifeInv, Stamped
  <2> QED
    BY <1>6, <2>1 DEF Here
<1>10. \A st \in Streams : open[st].seg # None =>
         (open[st].seg \in Here' <=> open[st].seg \in Here) /\ smd'[open[st].seg] = smd[open[st].seg]
  BY <1>5, <1>6
<1>11. unstamped \subseteq Streams /\ None \notin Here /\ None \notin Here'
  BY DEF TypesOK, Here, Segs, None
<1>12. Stamped'
  BY <1>9, <1>10, <1>11 DEF LifeInv, Stamped, Streams
<1> QED
  BY <1>4, <1>8, <1>12 DEF LifeInv

\* grow()
LEMMA GrowLife ==
  ASSUME KeepInv, LifeInv, grow
  PROVE  LifeInv'
<1>1. UNCHANGED <<dev, open, unstamped, op, seg_alloc_nr>> /\ mode \in {"create", "up"} /\ Free \subseteq Segs
  BY DEF grow, Free
<1>2. TypesOK /\ {seed, dev} \subseteq Nat /\ OpsOK(op) /\ open \in [Streams -> Slot]
  BY DEF KeepInv, TypesOK
<1>3. CASE mode = "create"
  <2>1. dir = <<>> /\ open = AllClosed /\ \A t \in Threads : op[t] = Idle
    BY <1>3 DEF KeepInv, EmptyOK, AllClosed
  <2>2. 1 <= Cardinality(Free) /\ Grown(FirstOf(Free, 1), dimg, segst, smd)
    BY <1>3, <2>1 DEF grow
  <2>3. Placed(FirstOf(Free, 1), 1)
    BY <1>1, <2>2, FirstPlaced
  <2>4. (\A st \in Streams : open[st].seg = None) /\ Writers(op) = {}
    BY <2>1 DEF AllClosed, Closed, Writers, Idle
  <2> QED
    BY <1>1, <1>2, <2>2, <2>3, <2>4, GrownLife
<1>4. CASE mode = "up"
  <2>1. Len(dir) = 1 /\ \A t \in Threads : op[t] = Idle
    BY <1>4 DEF grow
  <2>2. dir # <<>>
    BY <2>1
  <2>3. 2 <= Cardinality(Free) /\ Grown(FirstOf(Free, 2), dimg, segst, smd)
    BY <2>1, <2>2 DEF grow
  <2>4. Placed(FirstOf(Free, 2), 2) /\ Range(FirstOf(Free, 2)) \subseteq Free
    BY <1>1, <2>3, FirstPlaced
  <2>5. Writers(op) = {}
    BY <2>1 DEF Writers, Idle
  <2>6. \A st \in Streams : open[st].seg # None => open[st].seg \in Segs \ Range(FirstOf(Free, 2))
    <3>1. StreamsOK(open, segst)
      BY <1>4 DEF KeepInv, StoreOK, Loaded
    <3>2. \A st \in Streams : open[st].seg # None => open[st].seg \in Segs /\ segst[open[st].seg] = "data"
      BY <1>2, <3>1 DEF StreamsOK, Slot
    <3> QED
      BY <2>4, <3>2 DEF Free
  <2> QED
    BY <1>1, <1>2, <2>3, <2>4, <2>5, <2>6, GrownLife
<1> QED
  BY <1>1, <1>3, <1>4

\* prep_crash_recovery()
LEMMA PrepLife ==
  ASSUME KeepInv, LifeInv, prep_crash_recovery
  PROVE  LifeInv'
<1>1. UNCHANGED <<dev, open, unstamped, op, seg_alloc_nr>> /\ mode = "restore"
  BY DEF prep_crash_recovery
<1>2. TypesOK /\ {seed, dev} \subseteq Nat /\ open = AllClosed /\ \A t \in Threads : op[t] = Idle
  BY <1>1 DEF KeepInv, TypesOK, EmptyOK, AllClosed
<1>3. (\A st \in Streams : open[st].seg = None) /\ Writers(op) = {}
  BY <1>2 DEF AllClosed, Closed, Writers, Idle
<1>4. CASE UNCHANGED <<smd, recs>>
  BY <1>1, <1>4, QuietLife
<1>5. CASE ~(Log = {} \/ Log = Segs)
  <2>1. Grown(FirstOf(Segs \ Log, 1), dimg, [x \in Segs |-> IF x \in Log THEN "data" ELSE "free"], smd)
    BY <1>5 DEF prep_crash_recovery
  <2>2. 1 <= Cardinality(Segs \ Log)
    <3>1. IsFiniteSet(1 .. SegNr) /\ Log \subseteq Segs
      BY RecoveryAssumption, FS_Interval DEF Log
    <3>2. IsFiniteSet(Segs \ Log) /\ Segs \ Log # {}
      BY <1>5, <3>1, FS_Subset DEF Segs
    <3>3. Cardinality(Segs \ Log) \in Nat /\ Cardinality(Segs \ Log) # 0
      BY <3>2, FS_CardinalityType, FS_EmptySet
    <3> QED
      BY <3>3
  <2>3. Placed(FirstOf(Segs \ Log, 1), 1)
    BY <2>2, FirstPlaced
  <2> QED
    BY <1>1, <1>2, <1>3, <2>1, <2>3, GrownLife
<1> QED
  BY <1>4, <1>5 DEF prep_crash_recovery

\* persist_dev_md(): no record is of the new store.
LEMMA PersistLife ==
  ASSUME KeepInv, LifeInv, persist_dev_md
  PROVE  LifeInv'
<1>1. mode = "persist" /\ dev' = seed /\ UNCHANGED <<smd, recs, open, unstamped, op>>
  BY DEF persist_dev_md
<1>2. dev < seed /\ {dev, seed} \subseteq Nat /\ open = AllClosed /\ unstamped = {} /\ \A t \in Threads : op[t] = Idle
  BY <1>1 DEF KeepInv, SeedsOK, TypesOK, EmptyOK, AllClosed
<1>3. Stamped'
  BY <1>1, <1>2, ClosedStamped
<1>4. \A s \in Segs, o \in Offs : recs[s][o].crc[1] <= dev /\ recs[s][o].crc[1] \in Nat
  <2> SUFFICES ASSUME NEW s \in Segs, NEW o \in Offs PROVE recs[s][o].crc[1] <= dev /\ recs[s][o].crc[1] \in Nat
    OBVIOUS
  <2>1. recs[s][o] \in Record
    BY DEF LifeInv
  <2> QED
    BY <2>1 DEF LifeInv, Lives, Record
<1>5. \A s \in Segs, o \in Offs : recs[s][o].crc[1] < seed
  BY <1>2, <1>4
<1>6. Lives'
  BY <1>1, <1>2, <1>4, <1>5 DEF Lives, Segs, Offs
<1>7. recs' \in [Segs -> [Offs -> Record]]
  BY <1>1 DEF LifeInv, Record, Segs, Offs
<1> QED
  BY <1>3, <1>6, <1>7 DEF LifeInv

\* Steps that leave the store without an open stream.
LEMMA ClosedLife ==
  ASSUME KeepInv, LifeInv, Open \/ restore \/ crash_recovery \/ crash \/ shutdown
  PROVE  LifeInv'
<1>1. UNCHANGED <<dev, smd, recs>>
  BY DEF Open, restore, crash_recovery, crash, shutdown, durable
<1>2. CASE Open \/ restore \/ crash_recovery
  <2>1. mode \in {"down", "restore", "scan"} /\ UNCHANGED <<open, unstamped, op>>
    BY <1>2 DEF Open, restore, crash_recovery
  <2>2. open = AllClosed /\ unstamped = {} /\ \A t \in Threads : op[t] = Idle
    BY <2>1 DEF KeepInv, EmptyOK, AllClosed
  <2>3. Stamped'
    BY <2>1, <2>2, ClosedStamped
  <2> QED
    BY <1>1, <2>3, SameLives DEF LifeInv
<1>3. CASE crash
  <2>1. open' = AllClosed /\ unstamped' = {} /\ \A t \in Threads : op'[t] = Idle
    BY <1>3 DEF crash, AllClosed
  <2>2. Stamped'
    BY <2>1, ClosedStamped
  <2> QED
    BY <1>1, <2>2, SameLives DEF LifeInv
<1>4. CASE shutdown
  <2>1. UNCHANGED <<unstamped, op, seg_alloc_nr>> /\ unstamped = {} /\ \A t \in Threads : op[t] = Idle
    BY <1>4 DEF shutdown, KeepInv, EmptyOK
  <2>2. CASE open' = AllClosed
    <3>1. Stamped'
      BY <2>1, <2>2, ClosedStamped
    <3> QED
      BY <1>1, <3>1, SameLives DEF LifeInv
  <2>3. CASE open' = open
    BY <1>1, <2>1, <2>3, QuietLife
  <2> QED
    BY <1>4, <2>2, <2>3 DEF shutdown, AllClosed
<1> QED
  BY <1>2, <1>3, <1>4

\* Operations that neither take nor stamp a segment.
LEMMA RunLife ==
  ASSUME KeepInv, TsInv, LifeInv, NEW t \in Threads, Running(t)
  PROVE  LifeInv'
<1>1. CASE \E k \in Keys, del \in BOOLEAN : Begin(t, k, del)
  <2>1. PICK k \in Keys, del \in BOOLEAN : Begin(t, k, del)
    BY <1>1
  <2>2. /\ UNCHANGED <<dev, smd, recs, open, unstamped, seg_alloc_nr>>
        /\ op' = [op EXCEPT ![t] = [what |-> "alloc", key |-> k, val |-> IF del THEN 0 ELSE vals + 1]]
    BY <2>1 DEF Begin, durable
  <2>3. \A u \in Threads : u \in Writers(op') => u \in Writers(op) /\ op'[u].g = op[u].g
    BY <2>2, OneLess
  <2> QED
    BY <2>2, <2>3, QuietLife
<1>2. CASE op[t] # Idle /\ (Allocate(t) \/ Write(t))
  BY <1>2, WriteLife
<1>3. CASE SetMapping(t) \/ DelGone(t)
  <2>1. UNCHANGED <<dev, smd, recs, open, unstamped, seg_alloc_nr>> /\ op' = [op EXCEPT ![t] = Idle]
    BY <1>3 DEF SetMapping, DelGone, Settle, Acknowledge, durable
  <2>2. Idle.what \notin {"write", "map"}
    BY DEF Idle
  <2>3. \A u \in Threads : u \in Writers(op') => u \in Writers(op) /\ op'[u].g = op[u].g
    BY <2>1, <2>2, OneLess
  <2> QED
    BY <2>1, <2>3, QuietLife
<1>4. CASE WriteAgain(t)
  BY <1>4, AgainLife
<1> QED
  BY <1>1, <1>2, <1>3, <1>4 DEF Running

\* Every step keeps the records of earlier lives behind.
LEMMA NextLife ==
  ASSUME KeepInv, TsInv, LifeInv, [Next]_vars
  PROVE  LifeInv'
<1>1. CASE Open \/ restore \/ crash_recovery \/ crash \/ shutdown
  BY <1>1, ClosedLife
<1>2. CASE grow
  BY <1>2, GrowLife
<1>3. CASE persist_dev_md
  BY <1>3, PersistLife
<1>4. CASE invalidate_ftr
  BY <1>4, QuietLife DEF invalidate_ftr
<1>5. CASE prep_crash_recovery
  BY <1>5, PrepLife
<1>6. CASE \E st \in Streams : TakeSegment(st) \/ seg_md_callback(st)
  BY <1>6, TakeLife, StampLife
<1>7. CASE \E t \in Threads : Running(t)
  BY <1>7, RunLife
<1>8. CASE relocate
  BY <1>8, RelocateLife
<1>9. CASE purge
  <2>1. UNCHANGED <<dev, smd, recs, open, unstamped, seg_alloc_nr, op>>
    BY <1>9 DEF purge, Settle, durable
  <2> QED
    BY <2>1, QuietLife
<1>10. CASE UNCHANGED vars
  BY <1>10, QuietLife DEF vars, durable, volatile
<1> QED
  BY <1>1, <1>2, <1>3, <1>4, <1>5, <1>6, <1>7, <1>8, <1>9, <1>10 DEF Next

\* A new device has no records.
LEMMA InitLife ==
  ASSUME RecInit
  PROVE  LifeInv
<1>1. dev = 0 /\ recs = [s \in Segs |-> [o \in Offs |-> NoRec]] /\ open = AllClosed /\ unstamped = {}
  BY DEF RecInit, AllClosed
<1>2. Writers(op) = {} /\ \A st \in Streams : open[st].seg = None
  BY <1>1 DEF RecInit, Writers, Idle, AllClosed, Closed
<1>3. NoRec \in Record /\ NoRec.crc[1] = 0
  BY DEF NoRec, Record
<1>4. Lives
  BY <1>1, <1>3 DEF Lives
<1>5. recs \in [Segs -> [Offs -> Record]]
  BY <1>1, <1>3
<1> QED
  BY <1>1, <1>2, <1>4, <1>5 DEF LifeInv, Stamped

\* A step that stamps a segment stamps it with a new timestamp.
LEMMA NewStamps ==
  ASSUME KeepInv, TsInv, LifeInv, [Next]_vars
  PROVE  \A s \in Segs : smd'[s] # smd[s] /\ smd'[s].type = "data" =>
           \A o \in Offs : recs[s][o].crc # <<smd'[s].seed, smd'[s].ts>>
<1> SUFFICES ASSUME NEW s \in Segs, smd'[s] # smd[s], smd'[s].type = "data", NEW o \in Offs
             PROVE  recs[s][o].crc # <<smd'[s].seed, smd'[s].ts>>
  OBVIOUS
<1>1. CASE \E st \in Streams : seg_md_callback(st)
  <2>1. PICK st \in Streams : seg_md_callback(st)
    BY <1>1
  <2>2. smd' = [smd EXCEPT ![open[st].seg] = [type |-> "data", seed |-> seed, ts |-> seg_alloc_nr]]
    BY <2>1 DEF seg_md_callback, persist_seg_md
  <2>3. smd = [x \in Segs |-> smd[x]]
    BY DEF TsInv
  <2>4. s = open[st].seg /\ smd'[s].seed = seed /\ smd'[s].ts = seg_alloc_nr
    BY <2>2, <2>3
  <2> QED
    BY <2>1, <2>4, StampLife
<1>2. ASSUME NEW ss, NEW own, Grown(ss, dimg, own, smd) PROVE FALSE
  <2>1. CASE s \in Range(ss)
    <3>1. smd'[s] = [type |-> "dir", seed |-> seed, ts |-> Len(dir)]
      BY <1>2, <2>1 DEF Grown, persist_seg_md, TsInv
    <3> QED
      BY <3>1
  <2>2. CASE s \notin Range(ss)
    BY <1>2, <2>2 DEF Grown
  <2> QED
    BY <2>1, <2>2
<1>3. CASE grow \/ prep_crash_recovery
  BY <1>2, <1>3 DEF grow, prep_crash_recovery
<1>4. CASE \/ Open \/ restore \/ crash_recovery \/ crash \/ shutdown \/ persist_dev_md \/ invalidate_ftr
           \/ relocate \/ purge \/ UNCHANGED vars
  BY <1>4 DEF Open, restore, crash_recovery, crash, shutdown, persist_dev_md, invalidate_ftr, relocate, purge,
              vars, durable
<1>5. CASE \E st \in Streams : TakeSegment(st)
  BY <1>5 DEF TakeSegment, durable
<1>6. CASE \E t \in Threads : Running(t)
  BY <1>6 DEF Running, Begin, Allocate, Write, SetMapping, WriteAgain, DelGone, durable
<1> QED
  BY <1>1, <1>3, <1>4, <1>5, <1>6 DEF Next

\* Over any number of crashes, restarts and new stores on the device, and with
\* the streams stamping their segments in any order, seg_md_callback() never
\* gives a segment a timestamp that a record left in it carries with the seed
\* of the store: no record of an earlier life of the segment passes the scan
\* of crash_recovery().  That holds of a store that does not delete, or is not
\* shut down but only ever dies.
THEOREM StampsStayNew == (\A c \in Confs : c.clean => ~c.dels) /\ Spec => StampsNew
<1> DEFINE I == KeepInv /\ TsInv /\ LifeInv
           A == \A s \in Segs : smd'[s] # smd[s] /\ smd'[s].type = "data" =>
                  \A o \in Offs : recs[s][o].crc # <<smd'[s].seed, smd'[s].ts>>
<1>1. (\A c \in Confs : c.clean => ~c.dels) /\ RecInit => I
  BY InitKeeps, InitTsInv, InitLife
<1>2. I /\ [Next]_vars => I'
  BY NextKeeps, NextTsInv, NextLife
<1>3. I /\ [Next]_vars => [A]_vars
  BY NewStamps
<1>4. StampsNew <=> [][A]_vars
  BY PTL DEF StampsNew
<1> HIDE DEF I, A
<1> QED
  BY <1>1, <1>2, <1>3, <1>4, PTL DEF Spec

=============================================================================
