--------------------------------- MODULE Scm ---------------------------------
(***************************************************************************)
(* How a store is configured and its capacity manager built and taken down:*)
(* KV_conf, uDepotSalsa::init_local() with its search for a geometry, the  *)
(* arguments of the capacity manager, its devices, queues and segments,    *)
(* the registration of controllers and the threads of the collector.       *)
(*                                                                         *)
(* A configuration is a store (conf.kv: a device and the starts that open  *)
(* it, one after the other) or a capacity manager of its own, with         *)
(* arguments, devices and controllers that register from their threads.    *)
(* Lengths keep their units, scaled down: PAGE, SECTOR and MDSIZE stand    *)
(* for 4096, 512 and the size of the device metadata.                      *)
(***************************************************************************)
EXTENDS DevProps, Integers

CONSTANTS
    Confs,          \* the configurations
    Ctlrs,          \* controllers, numbers from 1
    PAGE, SECTOR, MDSIZE,
    MAX_CTLRS,      \* SALSA_MAX_CTLRS
    MAX_STREAMS,    \* USALSAPP_MAX_STREAMS
    SEGMD,          \* grains of a segment its metadata take (reserved_per_seg)
    MaxFaults       \* bound: calls of the system that fail

ASSUME UnitsAssumption == /\ {PAGE, SECTOR, MDSIZE, MAX_CTLRS, MAX_STREAMS} \subseteq Nat \ {0}
                          /\ Ctlrs \subseteq Nat \ {0} /\ MaxFaults \in Nat

VARIABLES
    conf,           \* the configuration
    at,             \* where init_local(), shutdown() or the owner of the manager is
    nth,            \* which start of conf this is
    st,             \* grain_size_m, segment_size_m, size_m, streams, restored
    disk,           \* the device metadata on the device (off = 0: none)
    scm,            \* the capacity manager
    used_streams,           \* used_streams_
    lock,           \* register_mutex_g: 0 or its holder
    ctl,            \* the controllers
    faults

scm_vars == << conf, at, nth, st, disk, scm, used_streams, lock, ctl, faults >>

REL == 1                         \* SALSA_MIN_REL_SEGMENTS
MAX_DEVICES == 6
align_down(x, a) == (x \div a) * a
align_up(x, a) == ((x + a - 1) \div a) * a
LeastOf(a, b) == IF a < b THEN a ELSE b
GreatestOf(a, b) == IF a > b THEN a ELSE b

(***************************************************************************)
(* KV_conf                                                                 *)
(***************************************************************************)
AlignedTypes == {"O_DIRECT", "SPDK", "TRT_SPDK", "TRT_AIO", "TRT_SPDK_ARRAY", "O_DIRECT_MC",
                 "TRT_SPDK_ARRAY_MC"}
McTypes == {"O_DIRECT_MC", "TRT_AIO_MC", "TRT_URING_MC", "TRT_SPDK_ARRAY_MC"}

\* enum kv_type; its numbers start at 2.
KvTypes == << "SALSA", "O_DIRECT", "SPDK", "TRT_AIO", "TRT_URING", "TRT_SPDK", "TRT_SPDK_ARRAY",
              "O_DIRECT_MC", "TRT_SPDK_ARRAY_MC", "TRT_AIO_MC", "TRT_URING_MC" >>

valid_kv_type(t) == t - 1 \in DOMAIN KvTypes

KV_conf == [u |-> 2, s |-> 0, seg |-> 16, grain |-> PAGE, t |-> 1, o |-> 200, force |-> 0, h |-> 0, f |-> 0, err |-> FALSE]

\* An argument is a member of KV_conf and its value, -1 when it is no number.
\* Nothing is read behind "-h"; a type behind the last is ignored.
ParseArg(kv, a) ==
    IF kv.err \/ kv.h = 1 THEN kv
    ELSE IF a.val = -1 THEN [kv EXCEPT !.err = TRUE]
    ELSE IF a.key = "u" /\ a.val >= Len(KvTypes) + 2 THEN kv
    ELSE [kv EXCEPT ![a.key] = a.val]

\* The stores on SPDK need no file.
parse_args(args) ==
    LET kv == FoldLeft(ParseArg, KV_conf, args)
    IN  [kv EXCEPT !.err = \/ @ \/ kv.h = 1 \/ ~valid_kv_type(kv.u)
                           \/ kv.f = 0 /\ KvTypes[kv.u - 1] \notin {"SPDK", "TRT_SPDK", "TRT_SPDK_ARRAY"}]

sanitize_grain_size(g) == Max({p \in 1 .. GreatestOf(1, g) : \E e \in 0 .. 12 : p = 2 ^ e})

sanitize_segment_size(grain, seg) ==
    LET step == IF grain < PAGE THEN PAGE \div grain ELSE 1
    IN  GreatestOf(1, align_down(seg, step))

validate_and_sanitize(kv) ==
    LET g == sanitize_grain_size(IF KvTypes[kv.u - 1] \in AlignedTypes THEN align_up(kv.grain, SECTOR) ELSE kv.grain)
    IN  [kv EXCEPT !.grain = g, !.seg = sanitize_segment_size(g, kv.seg), !.o = GreatestOf(5, LeastOf(600, @))]

\* uDepotSalsa::init(): the stores of memcache purge and keep 4 % aside.
Overprovision(kv) == IF KvTypes[kv.u - 1] \in McTypes THEN 40 ELSE kv.o

(***************************************************************************)
(* Device metadata and the search for a segment size.                      *)
(***************************************************************************)
dev_md_grain_offset(phys, grain) ==
    LET md == align_up(MDSIZE, grain)
        dev == align_down(phys, grain)
    IN  IF md < dev THEN dev - md ELSE 0

check_dev_size(phys, grain, seg) ==
    LET off == dev_md_grain_offset(phys, grain) IN off # 0 /\ off >= align_down(phys, seg * grain)

get_dev_size(phys, grain) == phys - align_up(MDSIZE, grain)

\* The sizes from the next one down to more than half, the one that wastes least.
NewSegmentSize(s) ==
    LET cand == {n \in {sanitize_segment_size(s.grain, x) : x \in 1 .. s.seg - 1} : n > s.seg \div 2}
        Waste(n) == (s.size - s.grain) % (n * s.grain)
        least == {n \in cand : \A m \in cand : Waste(n) <= Waste(m)}
    IN  IF cand = {} THEN sanitize_segment_size(s.grain, s.seg - 1) ELSE Max(least)

(***************************************************************************)
(* The arguments of the capacity manager.  A token is a key, "" when it has*)
(* no "=", and what follows: a number, a device or the ranges of one.      *)
(***************************************************************************)
Numbers == {"dev_size", "grain_size", "segment_size", "raid", "dev_nr", "simulation", "seg_qs_conf",
            "gc_type", "gc_low_wm", "gc_high_wm", "gc_thread_nr"}

reset_scm_config ==
    [num |-> [k \in Numbers |-> CASE k = "grain_size" -> PAGE [] k = "segment_size" -> 64
                                  [] k = "dev_nr" -> 1 [] k = "gc_thread_nr" -> 1
                                  [] k = "gc_type" -> 14 [] k = "gc_low_wm" -> 3
                                  [] k = "gc_high_wm" -> 5 [] OTHER -> 0],
     dev |-> [i \in 0 .. MAX_DEVICES - 1 |-> << >>], name |-> << >>, err |-> FALSE]

RAID0 == 0
RAID5 == 5
LINEAR == 11

\* One token of parse_scm_args(); after an error nothing more is read.
ParseToken(cfg, t) ==
    IF cfg.err THEN cfg
    ELSE IF t.key \in Numbers THEN [cfg EXCEPT !.num[t.key] = IF t.key = "simulation" /\ t.val # 0 THEN 1 ELSE t.val]
    ELSE IF t.key = "scm_dev" THEN [cfg EXCEPT !.num["dev_nr"] = @ + 1, !.name = Append(@, t.val)]
    ELSE IF t.key = "scm_props_dev" /\ t.val < MAX_DEVICES THEN [cfg EXCEPT !.dev[t.val] = parse(t.spec)]
    ELSE [cfg EXCEPT !.err = TRUE]

\* What parse_scm_args() makes of the device arguments at the end.
ParseEnd(cfg) ==
    LET sim == cfg.num["simulation"] = 1
        nodev == cfg.num["dev_nr"] = 0
    IN  [cfg EXCEPT !.err = @ \/ (nodev /\ ~sim),
                    !.num["dev_size"] = IF sim THEN @ ELSE 0,
                    !.num["dev_nr"] = IF nodev THEN 1 ELSE @,
                    !.num["raid"] = IF cfg.num["dev_nr"] = 1 THEN RAID0 ELSE @]

parse_scm_args(tokens) ==
    LET first == CHOOSE n \in 0 .. Len(tokens) : /\ \A i \in 1 .. n : tokens[i].key = "/dev/"
                                                 /\ n = Len(tokens) \/ tokens[n + 1].key # "/dev/"
        named == [reset_scm_config EXCEPT !.num["dev_nr"] = first,
                                          !.name = [i \in 1 .. first |-> tokens[i].val],
                                          !.err = tokens = << >>]
    IN  ParseEnd(FoldLeft(ParseToken, named, SubSeq(tokens, first + 1, Len(tokens))))

\* usr_scm_parse_devs(): a device without ranges has one, of its own length.  A
\* device that cannot be opened (length 0) ends the loop, and nobody looks at it.
DeviceProps(cfg, i) ==
    LET Unknown(j) == cfg.dev[j] = << >> /\ conf.devs[cfg.name[j + 1]] = 0
    IN  IF cfg.num["simulation"] = 1 THEN IF i = 0 THEN set_default(cfg.num["dev_size"]) ELSE cfg.dev[i]
        ELSE IF cfg.dev[i] # << >> \/ \E j \in 0 .. i : Unknown(j) THEN cfg.dev[i]
        ELSE set_default(conf.devs[cfg.name[i + 1]])

\* scm_cfg_set_scm_props(): the ranges of the manager's device and its raw size.
\* The size of an array comes from its first device.
scm_cfg_set_scm_props(cfg) ==
    LET n == cfg.num["dev_nr"]
        segb == cfg.num["segment_size"] * cfg.num["grain_size"]
        devs == [i \in 1 .. n |-> DeviceProps(cfg, i - 1)]
        raidn == IF cfg.num["raid"] = RAID5 THEN n - 1 ELSE n
        lin == FoldLeft(append, << >>, devs)
        raw == size(devs[1])
    IN  CASE segb = 0 -> [err |-> TRUE, raw |-> 0, props |-> << >>]
          [] segb # 0 /\ n = 1 -> [err |-> FALSE, raw |-> raw, props |-> copy(devs[1], align_down(raw, segb))]
          [] segb # 0 /\ n # 1 /\ cfg.num["raid"] = LINEAR -> [err |-> FALSE, raw |-> size(lin), props |-> lin]
          [] OTHER -> [err |-> cfg.num["segment_size"] % raidn # 0, raw |-> raidn * raw,
                       props |-> set_default(raidn * align_down(raw, segb))]

\* scm_usr_init_cfg()
scm_usr_init_cfg(tokens) ==
    LET cfg == parse_scm_args(tokens)
        d == scm_cfg_set_scm_props(cfg)
        bad == cfg.err \/ d.err \/ size(d.props) = 0
    IN  IF cfg.err THEN [err |-> TRUE, cfg |-> cfg, raw |-> 0, props |-> << >>]
        ELSE [err |-> bad, cfg |-> cfg, raw |-> d.raw, props |-> d.props]

check_sto_capacity_mgr_parameters(r) ==
    LET g == r.cfg.num["grain_size"]
        s == r.cfg.num["segment_size"]
    IN  /\ r.cfg.num["simulation"] = 0 => g >= PAGE
        /\ \E e \in 0 .. 12 : g = 2 ^ e
        /\ s # 0 /\ r.cfg.num["raid"] \in {RAID0, RAID5, LINEAR}
        /\ size(r.props) >= s * g * REL

(***************************************************************************)
(* Queues of free segments.                                                *)
(***************************************************************************)
QueueSets(c) == IF c = 0 THEN << PropSetAll >> ELSE [i \in 1 .. PROP_LAST |-> {i - 1}]

find_queue(sets, p) == Min({i \in DOMAIN sets : p \in sets[i]})

EmptyQueues(sets) == [i \in DOMAIN sets |-> [set |-> sets[i], free |-> << >>, rel |-> << >>, max |-> 0, rmax |-> 0]]

\* fill_queue(): every d-th of the segments, the relocation queue first.
FillQueue(q, first, n, real) ==
    LET d == real \div n
        rem == REL - Len(q.rel)
        in == SelectSeq([k \in 1 .. real |-> k - 1], LAMBDA k : k % d = 0 /\ k \div d < n)
        Idx(t) == [k \in DOMAIN t |-> first + t[k]]
    IN  [q EXCEPT !.rel = @ \o Idx(SelectSeq(in, LAMBDA k : k < rem)),
                  !.free = @ \o Idx(SelectSeq(in, LAMBDA k : k >= rem))]


\* One range of scm_seg_queues_init(); acc has the queues, the next segment and
\* the class of each segment.
FillRange(sets, segb, acc, r) ==
    LET n == r.len \div segb
        real == GreatestOf(n, r.real \div segb)
        i == find_queue(sets, r.prop)
    IN  IF n = 0 THEN acc
        ELSE [q |-> [acc.q EXCEPT ![i] = FillQueue(@, acc.next, n, real)], next |-> acc.next + n,
              class |-> [s \in DOMAIN acc.class \cup acc.next .. acc.next + real - 1 |->
                             IF s >= acc.next /\ s < acc.next + real THEN r.prop ELSE acc.class[s]]]

scm_seg_queues_init(sets, segb, props) ==
    LET Fill(acc, r) == FillRange(sets, segb, acc, r)
        f == FoldLeft(Fill, [q |-> EmptyQueues(sets), next |-> 0, class |-> [s \in {} |-> 0]], props)
    IN  [q |-> [i \in DOMAIN f.q |-> [f.q[i] EXCEPT !.max = Len(f.q[i].free), !.rmax = Len(f.q[i].rel)]],
         class |-> f.class]

\* The queues of a controller: inside its set and with segments once.
avail_props(q, pset) == {i \in DOMAIN q : q[i].set \subseteq pset /\ q[i].max + q[i].rmax # 0}

\* scm_seg_queues_get_queue(): the preferred set, then the default; 0: EAGAIN, -1: EINVAL.
get_queue(q, pref, dflt, reloc) ==
    LET In(ps) == {i \in DOMAIN q : q[i].set \subseteq ps}
        Has(ps) == {i \in In(ps) : (IF reloc THEN q[i].rel ELSE q[i].free) # << >>}
    IN  IF Has(pref) # {} THEN Min(Has(pref))
        ELSE IF Has(dflt) # {} THEN Min(Has(dflt))
        ELSE IF In(pref) \cup In(dflt) # {} THEN 0 ELSE -1

\* scm_seg_queues_map_to_streams(): hot streams (high numbers) on good storage
\* (low queues); streams and queues count from 0.
map_to_streams(sets, sizes, streams) ==
    LET n == Len(sets)
        r == streams - n
        last == sizes[n]
        Set(q) == sets[q + 1]
        Size(q) == sizes[q + 1]
    IN  [s \in 0 .. streams - 1 |->
            IF streams = n THEN [set |-> Set(n - s - 1), size |-> Size(n - s - 1)]
            ELSE IF streams > n
            THEN IF s <= r THEN [set |-> Set(n - 1),
                                 size |-> IF s = r THEN last - (last \div (r + 1)) * r ELSE last \div (r + 1)]
                 ELSE [set |-> Set(n - (s - r) - 1), size |-> Size(n - (s - r) - 1)]
            ELSE LET d == n - streams
                 IN  IF s = 0 THEN [set |-> UNION {Set(q) : q \in n - d - 1 .. n - 1},
                                    size |-> SumOver(n - d - 1 .. n - 1, Size)]
                     ELSE [set |-> Set(n - s - d - 1), size |-> Size(n - s - d - 1)]]

(***************************************************************************)
(* Scm::init() and the manager it makes.                                   *)
(***************************************************************************)
NoScm == [up |-> FALSE, props |-> << >>, q |-> << >>, class |-> << >>, segs |-> 0, real |-> 0, seg |-> 1, grain |-> 1,
          maxr |-> 0, exit |-> 0, gcs |-> 0, gcthreads |-> 0, table |-> [i \in 1 .. MAX_CTLRS |-> 0], fns |-> {}]

has_enough_spare_segments(dev, s, n) ==
    LET segb == s.grain * s.seg
        total == dev \div segb
        inuse == (s.maxr * s.grain) \div segb
    IN  total - inuse >= REL + used_streams + n /\ dev > s.maxr * s.grain

\* The manager a configuration gives, before memory is asked for.
Built(r) ==
    LET g == r.cfg.num["grain_size"]
        s == r.cfg.num["segment_size"]
        f == scm_seg_queues_init(QueueSets(r.cfg.num["seg_qs_conf"]), s * g, r.props)
    IN  [NoScm EXCEPT !.up = TRUE, !.props = copy_full(r.props), !.q = f.q, !.class = f.class,
                      !.segs = size_grain(r.props, s * g), !.real = real_size_grain(r.props, s * g), !.seg = s, !.grain = g,
                      !.maxr = ((r.raw \div g) * (1000 - (IF conf.kv THEN st.over ELSE 200))) \div 1000 + 2 * s,
                      !.gcthreads = r.cfg.num["gc_thread_nr"]]

\* Scm::init() up to the allocation of the manager.
Acceptable(r) ==
    /\ ~r.err
    /\ LET b == Built(r) IN has_enough_spare_segments(align_down(r.raw, b.seg * b.grain), b, 3)
    /\ check_sto_capacity_mgr_parameters(r)
    /\ r.cfg.num["seg_qs_conf"] \in {0, 1}

Fault == faults < MaxFaults /\ faults' = faults + 1

(***************************************************************************)
(* Opening a store: uDepotSalsa::init_local().                             *)
(***************************************************************************)
IdleCtlr == [pc |-> "idle", streams |-> 0, rel |-> 0, pset |-> {}, id |-> 0, made |-> 0, held |-> {}]

ScmInit ==
    /\ conf \in Confs
    /\ at = IF conf.kv THEN "down" ELSE "args"
    /\ nth = 0
    /\ st = [grain |-> 1, seg |-> 1, size |-> 0, streams |-> 0, over |-> 0, restored |-> FALSE, up |-> FALSE, type |-> "SALSA"]
    /\ disk = [off |-> 0, grain |-> 1, seg |-> 1, phys |-> 0]
    /\ scm = NoScm
    /\ used_streams = 0 /\ lock = 0 /\ faults = 0
    /\ ctl = [c \in Ctlrs |-> IdleCtlr]

\* A slip: the configured segment size wins over the one on the device.
Open_conf ==
    /\ at = "down" /\ nth < Len(conf.starts)
    /\ LET args == parse_args(conf.starts[nth + 1])
           kv == validate_and_sanitize(args)
           phys == GreatestOf(conf.phys, kv.s)
           found == /\ kv.force = 0 /\ disk.off # 0 /\ disk.off = dev_md_grain_offset(phys, kv.grain)
       IN  IF args.err THEN UNCHANGED << conf, at, st >>
           ELSE /\ conf' = [conf EXCEPT !.phys = phys]
                /\ st' = [grain |-> IF found THEN disk.grain ELSE kv.grain, seg |-> kv.seg,
                          size |-> phys, streams |-> kv.t, over |-> Overprovision(kv), restored |-> found, up |-> FALSE,
                          type |-> KvTypes[kv.u - 1]]
                /\ at' = "geometry"
    /\ nth' = nth + 1
    /\ UNCHANGED << disk, scm, used_streams, lock, ctl, faults >>

\* The region is opened, longer when the size asked for is (a sparse file is
\* extended, and the store it had is not found again); metadata are looked for where the configured grain size
\* puts them.
Open ==
    /\ at = "down" /\ nth < Len(conf.starts)
    /\ LET args == parse_args(conf.starts[nth + 1])
           kv == validate_and_sanitize(args)
           phys == GreatestOf(conf.phys, kv.s)
           found == /\ kv.force = 0 /\ disk.off # 0 /\ disk.off = dev_md_grain_offset(phys, kv.grain)
       IN  IF args.err THEN UNCHANGED << conf, at, st >>
           ELSE /\ conf' = [conf EXCEPT !.phys = phys]
                /\ st' = [grain |-> IF found THEN disk.grain ELSE kv.grain, seg |-> IF found THEN disk.seg ELSE kv.seg,
                          size |-> phys, streams |-> kv.t, over |-> Overprovision(kv), restored |-> found, up |-> FALSE,
                          type |-> KvTypes[kv.u - 1]]
                /\ at' = "geometry"
    /\ nth' = nth + 1
    /\ UNCHANGED << disk, scm, used_streams, lock, ctl, faults >>

GeometryFits == check_dev_size(conf.phys, st.grain, st.seg)

Geometry ==
    /\ at = "geometry"
    /\ \/ GeometryFits /\ st' = [st EXCEPT !.size = get_dev_size(conf.phys, st.grain)]
          /\ at' = IF st.restored /\ disk.phys # conf.phys THEN "unregister" ELSE "args"
       \/ ~GeometryFits /\ ~st.restored /\ st.seg > 1
          /\ st' = [st EXCEPT !.seg = NewSegmentSize(st)] /\ UNCHANGED at
       \/ ~GeometryFits /\ (st.restored \/ st.seg = 1) /\ at' = "unregister" /\ UNCHANGED st
    /\ UNCHANGED << conf, nth, disk, scm, used_streams, lock, ctl, faults >>

Tok(k, v) == [key |-> k, val |-> v, spec |-> << >>]

Tokens ==
    IF ~conf.kv THEN conf.tokens
    ELSE << Tok("scm_dev", 1), Tok("dev_size", st.size), Tok("grain_size", st.grain), Tok("segment_size", st.seg),
            Tok("gc_thread_nr", 1), Tok("simulation", 1) >>

\* A slip: the halved size is lost.
HalfSegment_kept(s) == s.seg
HalfSegment(s) == sanitize_segment_size(s.grain, s.seg \div 2)

\* Scm::init() in init_local(): a new store tries again with half the segment.
\* The memory of the manager may be refused.
InitScm ==
    /\ at = "args"
    /\ \E r \in {scm_usr_init_cfg(Tokens)} : \E ok \in {Acceptable(r)} :
       LET half == HalfSegment(st)
           Failed == /\ scm' = NoScm
                     /\ IF ~conf.kv \/ st.restored \/ half <= 1 THEN at' = "unregister" /\ UNCHANGED st
                        ELSE st' = [st EXCEPT !.seg = half] /\ at' = "geometry"
       IN  \/ ok /\ scm' = Built(r) /\ at' = (IF conf.kv THEN "register" ELSE "serving") /\ UNCHANGED << st, faults >>
           \/ ok /\ Fault /\ Failed
           \/ ~ok /\ Failed /\ UNCHANGED faults
    /\ UNCHANGED << conf, nth, disk, used_streams, lock, ctl >>

Streams(c) == ctl[c].streams + ctl[c].rel

\* Scm::unregister_ctlr(): callback, streams, place.
Unregistered(c, to) ==
    /\ scm' = [scm EXCEPT !.fns = @ \ {ctl[c].id}, !.table[ctl[c].id] = 0]
    /\ used_streams' = used_streams - Streams(c)
    /\ ctl' = [ctl EXCEPT ![c] = [IdleCtlr EXCEPT !.pc = to]]

\* SalsaCtlr::init(): the streams are bounded by the arrays of allocators.
NewCtlr(streams, rel, pset) ==
    [IdleCtlr EXCEPT !.pc = "qset", !.streams = GreatestOf(LeastOf(streams, MAX_STREAMS), 1),
                     !.rel = LeastOf(rel, MAX_STREAMS), !.pset = pset]

\* SalsaCtlr::init() of the store with ever fewer streams.
RegisterStore ==
    /\ at = "register" /\ ctl[1].pc \in {"idle", "failed"}
    /\ IF ctl[1].pc = "failed" /\ st.streams \div 2 = 0
       THEN at' = "delete" /\ UNCHANGED << ctl, st >>
       ELSE /\ st' = [st EXCEPT !.streams = IF ctl[1].pc = "failed" THEN @ \div 2 ELSE @]
            /\ ctl' = [ctl EXCEPT ![1] = NewCtlr(st'.streams, 1, PropSetAll)]
            /\ UNCHANGED at
    /\ UNCHANGED << conf, nth, disk, scm, used_streams, lock, faults >>

\* map_m.init(): the directory map is the second controller of the store's
\* manager.  Its lock may fail before (fail4).
InitMap ==
    /\ at = "register" /\ ctl[1].pc = "up"
    /\ \/ at' = "map" /\ ctl' = [ctl EXCEPT ![2] = NewCtlr(1, 0, PropSetAll)] /\ UNCHANGED faults
       \/ at' = "ctlr" /\ Fault /\ UNCHANGED ctl
    /\ UNCHANGED << conf, nth, st, disk, scm, used_streams, lock >>

\* A new directory grows to one table, for which it waits until it has a segment.
\* A step of restore(), crash_recovery() or grow() may fail: then the map shuts its
\* controller down itself.
InitDirectory ==
    /\ at = "map"
    /\ \/ ctl[2].pc = "failed" /\ at' = "ctlr" /\ UNCHANGED << scm, used_streams, ctl, faults >>
       \/ ctl[2].pc = "up" /\ (st.restored \/ ctl[2].held # {}) /\ at' = "threads"
          /\ UNCHANGED << scm, used_streams, ctl, faults >>
       \/ ctl[2].pc = "up" /\ Fault /\ Unregistered(2, "failed") /\ at' = "ctlr"
    /\ UNCHANGED << conf, nth, st, disk, lock >>

\* sto_capacity_mgr_init_threads(): when a thread cannot be made the others are
\* stopped, and the manager's exit flag stays clear.
InitThreads ==
    /\ at \in {"threads", "serving"} /\ scm.up /\ scm.gcs = 0
    /\ \/ scm' = [scm EXCEPT !.exit = 0, !.gcs = scm.gcthreads] /\ UNCHANGED faults
          /\ at' = IF conf.kv THEN "persist" ELSE at
       \/ Fault /\ scm' = [scm EXCEPT !.exit = 0] /\ at' = IF conf.kv THEN "unmap" ELSE at
    /\ UNCHANGED << conf, nth, st, disk, used_streams, lock, ctl >>

\* The network is started and new device metadata are written, last (fail6).
Persist ==
    /\ at = "persist"
    /\ \/ at' = "up" /\ st' = [st EXCEPT !.up = TRUE] /\ UNCHANGED faults
          /\ disk' = IF st.restored THEN disk
                     ELSE [off |-> dev_md_grain_offset(conf.phys, st.grain), grain |-> st.grain,
                           seg |-> st.seg, phys |-> conf.phys]
       \/ at' = "exit" /\ Fault /\ UNCHANGED << disk, st >>
    /\ UNCHANGED << conf, nth, scm, used_streams, lock, ctl >>

\* shutdown() of the store, or the owner stops the collector.
Shutdown ==
    /\ \/ at = "up" /\ at' = "exit"
       \/ at = "serving" /\ scm.up /\ at' = "stopping"
    /\ scm' = IF at = "serving" THEN [scm EXCEPT !.exit = 1] ELSE scm
    /\ UNCHANGED << conf, nth, st, disk, used_streams, lock, ctl, faults >>

\* sto_capacity_mgr_exit_threads() sets the flag and waits for the threads.
ExitThreads ==
    /\ at = "exit"
    /\ scm' = [scm EXCEPT !.exit = 1] /\ at' = "stopping"
    /\ UNCHANGED << conf, nth, st, disk, used_streams, lock, ctl, faults >>

ThreadEnds ==
    /\ scm.up /\ scm.exit = 1 /\ scm.gcs > 0
    /\ scm' = [scm EXCEPT !.gcs = @ - 1]
    /\ UNCHANGED << conf, at, nth, st, disk, used_streams, lock, ctl, faults >>

Exited ==
    /\ at = "stopping" /\ scm.gcs = 0
    /\ at' = IF ~conf.kv THEN "serving" ELSE IF st.up THEN "ctlr" ELSE "unmap"
    /\ UNCHANGED << conf, nth, st, disk, scm, used_streams, lock, ctl, faults >>

\* A slip: only the threads are asked about.
MayFree_exit == scm.exit # 0

\* sto_capacity_mgr_dtr() refuses while controllers are registered or the exit
\* function was not called.
MayFree == (\A i \in DOMAIN scm.table : scm.table[i] = 0) /\ scm.exit # 0

\* delete scm.  A store forgets its manager even when the destructor refused (then
\* the memory is lost); the owner of a manager deletes it between the operations
\* of its controllers.
Delete ==
    /\ \/ at = "delete" /\ at' = IF st.up THEN "down" ELSE "unregister"
       \/ at = "serving" /\ scm.up /\ \A c \in Ctlrs : ctl[c].pc \in {"idle", "failed", "up", "exiting"}
          /\ UNCHANGED at
    /\ scm' = IF MayFree \/ at = "delete" THEN NoScm ELSE scm
    /\ used_streams' = IF scm'.up THEN used_streams ELSE 0
    /\ ctl' = IF scm'.up THEN ctl ELSE [c \in Ctlrs |-> IdleCtlr]
    /\ UNCHANGED << conf, nth, st, disk, lock, faults >>

\* The region is closed, by shutdown() before the manager is deleted.
Unregister ==
    /\ at = "unregister" /\ conf.kv
    /\ at' = IF scm.up THEN "delete" ELSE "down"
    /\ UNCHANGED << conf, nth, st, disk, scm, used_streams, lock, ctl, faults >>

(***************************************************************************)
(* Controllers: SalsaCtlr::init() and Scm::register_ctlr().                *)
(***************************************************************************)
\* A controller of conf begins.
CtlrInit(c) ==
    /\ ~conf.kv /\ scm.up /\ ctl[c].pc = "idle" /\ c \in DOMAIN conf.ctlrs
    /\ ctl' = [ctl EXCEPT ![c] = NewCtlr(conf.ctlrs[c].streams, conf.ctlrs[c].rel, conf.ctlrs[c].pset)]
    /\ UNCHANGED << conf, at, nth, st, disk, scm, used_streams, lock, faults >>

FindQueues(c) ==
    /\ ctl[c].pc = "qset"
    /\ ctl' = [ctl EXCEPT ![c].pc = IF avail_props(scm.q, ctl[c].pset) = {} THEN "failed" ELSE "check"]
    /\ UNCHANGED << conf, at, nth, st, disk, scm, used_streams, lock, faults >>

\* A slip: the mutex is given up before the streams are counted.
CheckSpare_unlock(c) ==
    /\ ctl[c].pc = "check" /\ lock = 0
    /\ ctl' = [ctl EXCEPT ![c].pc = IF has_enough_spare_segments(size(scm.props), scm, Streams(c))
                                     THEN "add" ELSE "failed"]
    /\ UNCHANGED << conf, at, nth, st, disk, scm, used_streams, lock, faults >>

\* Under the mutex: enough segments aside from the streams of the others?
CheckSpare(c) ==
    /\ ctl[c].pc = "check" /\ lock = 0
    /\ IF has_enough_spare_segments(size(scm.props), scm, Streams(c))
       THEN lock' = c /\ ctl' = [ctl EXCEPT ![c].pc = "add"]
       ELSE UNCHANGED lock /\ ctl' = [ctl EXCEPT ![c].pc = "failed"]
    /\ UNCHANGED << conf, at, nth, st, disk, scm, used_streams, faults >>

AddStreams(c) ==
    /\ ctl[c].pc = "add"
    /\ used_streams' = used_streams + Streams(c) /\ lock' = 0
    /\ ctl' = [ctl EXCEPT ![c].pc = "table"]
    /\ UNCHANGED << conf, at, nth, st, disk, scm, faults >>

\* scm_register_sto_ctlr(): the first free place, or the streams are given back.
RegisterTable(c) ==
    /\ ctl[c].pc = "table"
    /\ LET open == {i \in DOMAIN scm.table : scm.table[i] = 0}
           dup == \E i \in DOMAIN scm.table : scm.table[i] = c
       IN  IF dup \/ open = {}
           THEN /\ used_streams' = used_streams - Streams(c) /\ UNCHANGED scm
                /\ ctl' = [ctl EXCEPT ![c].pc = "failed"]
           ELSE /\ scm' = [scm EXCEPT !.table[Min(open)] = c] /\ UNCHANGED used_streams
                /\ ctl' = [ctl EXCEPT ![c].pc = "gc", ![c].id = Min(open)]
    /\ UNCHANGED << conf, at, nth, st, disk, lock, faults >>

\* gc_register_ctlr()
RegisterGc(c) ==
    /\ ctl[c].pc = "gc"
    /\ scm' = [scm EXCEPT !.fns = @ \cup {ctl[c].id}]
    /\ ctl' = [ctl EXCEPT ![c].pc = "alloc"]
    /\ UNCHANGED << conf, at, nth, st, disk, used_streams, lock, faults >>

\* An allocator per stream, those of relocation last.  When one cannot be made
\* those before it are taken down; after a relocation stream the loop starts one
\* too far, at an allocator that does not exist.
InitAllocator(c) ==
    /\ ctl[c].pc = "alloc"
    /\ \/ scm.seg >= SEGMD /\ UNCHANGED << scm, used_streams, faults >>
          /\ ctl' = [ctl EXCEPT ![c].made = @ + 1, ![c].pc = IF ctl[c].made + 1 = Streams(c) THEN "up" ELSE "alloc"]
       \/ (IF scm.seg < SEGMD THEN UNCHANGED faults ELSE Fault)
          /\ IF ctl[c].made < ctl[c].streams THEN Unregistered(c, "failed")
             ELSE ctl' = [ctl EXCEPT ![c].pc = "crash"] /\ UNCHANGED << scm, used_streams >>
    /\ UNCHANGED << conf, at, nth, st, disk, lock >>

\* scm_get_free_seg() for a stream: a segment of a class of the controller.  The
\* controllers of a store take none before it is up, but for the new directory.
TakeSegment(c, reloc) ==
    /\ conf.kv => at = "up" \/ (at = "map" /\ c = 2 /\ ~st.restored)
    /\ ctl[c].pc = "up" /\ Cardinality(ctl[c].held) < Streams(c)
    /\ LET i == get_queue(scm.q, ctl[c].pset, ctl[c].pset, reloc)
       IN  /\ i > 0
           /\ LET from == IF reloc THEN scm.q[i].rel ELSE scm.q[i].free
              IN  /\ scm' = [scm EXCEPT !.q[i] = IF reloc THEN [@ EXCEPT !.rel = Tail(@)]
                                                 ELSE [@ EXCEPT !.free = Tail(@)]]
                  /\ ctl' = [ctl EXCEPT ![c].held = @ \cup {Head(from)}]
    /\ UNCHANGED << conf, at, nth, st, disk, used_streams, lock, faults >>

\* ~SalsaCtlr() stops the collector first; SalsaCtlr::shutdown() does not.
CtlrExit(c) ==
    /\ ~conf.kv /\ ctl[c].pc = "up"
    /\ ctl' = [ctl EXCEPT ![c].pc = "exiting"]
    /\ scm' = [scm EXCEPT !.exit = 1]
    /\ UNCHANGED << conf, at, nth, st, disk, used_streams, lock, faults >>

CtlrShutdown(c) ==
    /\ \/ ~conf.kv /\ ctl[c].pc = "up" /\ UNCHANGED at
       \/ ctl[c].pc = "exiting" /\ scm.gcs = 0 /\ UNCHANGED at
       \/ conf.kv /\ at = "ctlr" /\ c = 1 /\ at' = IF st.up THEN "unmap" ELSE "delete"
       \/ conf.kv /\ at = "unmap" /\ c = 2 /\ at' = IF st.up THEN "unregister" ELSE "ctlr"
    /\ Unregistered(c, "failed")
    /\ UNCHANGED << conf, nth, st, disk, lock, faults >>

Owner == Open \/ Geometry \/ InitScm \/ RegisterStore \/ InitMap \/ InitDirectory \/ InitThreads \/ Persist \/ Shutdown
         \/ ExitThreads \/ Exited \/ Delete \/ Unregister

Ctlr(c) == \/ CtlrInit(c) \/ FindQueues(c) \/ CheckSpare(c) \/ AddStreams(c) \/ RegisterTable(c)
           \/ RegisterGc(c) \/ InitAllocator(c) \/ CtlrExit(c) \/ CtlrShutdown(c)
           \/ \E reloc \in BOOLEAN : TakeSegment(c, reloc)

ScmNext == Owner \/ ThreadEnds \/ \E c \in Ctlrs : Ctlr(c)

ScmSpec == ScmInit /\ [][ScmNext]_scm_vars

\* init_local() or shutdown() has a step to take.  The clean-up loop of
\* SalsaCtlr::init() may have ended the process (InitAllocator()).
Starting == conf.kv /\ at \notin {"up", "down"} /\ \A c \in Ctlrs : ctl[c].pc # "crash"

\* The thread that starts a store, and those of the collector it waits for, run on:
\* weak fairness of Next where Starting says that it is enabled.
StartsGoOn == []<>~Starting \/ []<><<ScmNext>>_scm_vars

(***************************************************************************)
(* Properties                                                              *)
(***************************************************************************)
SegBytes(s) == s * scm.seg * scm.grain .. (s + 1) * scm.seg * scm.grain - 1
Queued == UNION {ToSet(scm.q[i].free) \cup ToSet(scm.q[i].rel) : i \in DOMAIN scm.q}
Held == UNION {ctl[c].held : c \in Ctlrs}

\* No range is longer than it says, or only the last one is: behind another one,
\* scm_seg_queues_init() goes on after r_nsegs of the r_nsegs_real segments.
RealLengthLast == \A i \in DOMAIN scm.props : i < Len(scm.props) => scm.props[i].real <= scm.props[i].len


\* The streams that were let in (register_ctlr() with its mutex, its failures and
\* unregister_ctlr()) have a segment each beside the relocation reserve and the
\* segments that the full capacity fills.
SpareForStreams ==
    scm.up =>
    LET in == {c \in Ctlrs : ctl[c].pc \in {"table", "gc", "alloc", "up", "exiting"}}
    IN  scm.maxr \div scm.seg + REL + SumOver(in, Streams) <= scm.segs

\* The streams of a controller use all of its queues and no more, hot streams the
\* better storage, and their sizes add up (scm_seg_queues_map_to_streams()).
StreamsShareQueues ==
    \A c \in Ctlrs : ctl[c].pc = "up" =>
        LET qs == SetToSortSeq(avail_props(scm.q, ctl[c].pset), <)
            sets == [i \in DOMAIN qs |-> scm.q[qs[i]].set]
            sizes == [i \in DOMAIN qs |-> scm.q[qs[i]].max]
            m == map_to_streams(sets, sizes, Streams(c))
            Size(s) == m[s].size
            Of(i) == sizes[i]
        IN  /\ UNION {m[s].set : s \in DOMAIN m} = UNION {sets[i] : i \in DOMAIN sets}
            /\ SumOver(DOMAIN m, Size) = SumOver(DOMAIN sizes, Of)
            /\ \A s, t \in DOMAIN m : s < t => Min(m[t].set) <= Min(m[s].set)

\* The streams let in, concurrently and after failures, have the segments they
\* were let in for, and the queues to take them from.
StreamsHaveSegments == SpareForStreams /\ StreamsShareQueues

\* The manager is freed with no controller registered, no callback of one left and
\* no thread of the collector running (sto_capacity_mgr_dtr()).
FreedAfterLastUse ==
    [][scm.up /\ ~scm'.up => /\ scm.gcs = 0 /\ scm.fns = {}
                             /\ \A i \in DOMAIN scm.table : scm.table[i] = 0]_scm_vars

\* A start without force_destroy keeps the geometry of the store it finds on the
\* device, whatever segment size is configured (validate_dev_md(), init_local()).
StoreKeepsGeometry ==
    [][(at = "persist" /\ at' = "up" /\ disk.off # 0 /\ st.restored)
           => (disk' = disk /\ scm.seg = disk.seg /\ scm.grain = disk.grain)]_scm_vars

\* init_local() ends, with a store or without: the searches for a segment size and
\* for a number of streams do.
StartReturns == Starting ~> ~Starting
=============================================================================
