---------------------------- MODULE SpdkDevices ----------------------------
(***************************************************************************)
(* How the SPDK classes find their devices: SpdkGlobalState probes the     *)
(* controllers and the NVMe-oF targets of UDEPOT_NVMEF, every thread has a *)
(* queue pair for each namespace, and open() or the first call of a thread *)
(* chooses among them by name: one (TrtSpdkIO), those the user named       *)
(* (TrtSpdkArrayIO), or all of them (TrtSpdkArrayIO, SpdkIO).  A store is  *)
(* opened by several threads, and again by the next process.               *)
(*                                                                         *)
(* Names, and strings of the user, are numbers in the order of the strings.*)
(***************************************************************************)
EXTENDS Integers, Sequences, FiniteSets, SequencesExt

CONSTANTS
  Worlds,      \* [cls, env, local, targets, user, has] of the behaviours
  SdThreads,   \* threads that use the device; for SpdkIO, its schedulers
  Blk,         \* blk_m: bytes of a stripe; also the blocks of a long pwrite()
  SdMaxQps,    \* _UDEPOT_TRT_SPDK_ARRAY_IO_MAX
  SdUsers,     \* threads that call SpdkIO
  SdMaxQd,     \* _SPDKIOMGR_MAX_QD: slots of the manager
  SdExecutions \* processes, one after the other

ASSUME SpdkDevicesConstants == {Blk, SdMaxQps, SdMaxQd, SdExecutions} \subseteq Nat \ {0}

VARIABLES
  world,  \* the devices that exist and what the user asked for
  gs,     \* SpdkGlobalState, and GlobalState__ or SpdkNamespaceStr__
  ts,     \* [thread -> [st, qps, size]]: SpdkState and the thread's queue pairs
  ids,    \* id_gen_m, and id_m of the users: [free, held, lost]
  layout   \* [basis -> devices of the first thread that had queue pairs on it]

sdVars == <<world, gs, ts, ids, layout>>

NoThread == [st |-> "none", qps |-> <<>>, size |-> 0]
NewProcess(n) == [st |-> "none", up |-> {}, nss |-> <<>>, order |-> <<>>, set |-> FALSE, names |-> <<>>,
                  opened |-> "no", dead |-> FALSE, run |-> n]
\* The slots of the manager; the last one is taken first.
NewIds == [free |-> [i \in 1 .. SdMaxQd |-> i - 1], held |-> <<>>, lost |-> {}]

SdInit ==
  /\ world \in Worlds
  /\ gs = NewProcess(1)
  /\ ts = [t \in SdThreads |-> NoThread]
  /\ ids = NewIds /\ layout = <<>>

\* No process at all.
SdIdle == world = <<>> /\ gs = <<>> /\ ts = [t \in SdThreads |-> NoThread] /\ ids = NewIds /\ layout = <<>>

(***************************************************************************)
(* SpdkGlobalState.  A device is [dev, name, size, active]; a controller   *)
(* is the sequence of its namespaces, all with its own name.               *)
(***************************************************************************)
\* Entries of UDEPOT_NVMEF that have all three parts.
add_env_nvmef_targets(w) == SelectSeq(w.targets, LAMBDA t : t.wellformed)
register_ns(found, ns) == IF ns.active THEN Append(found, ns) ELSE found
register_ctrlr(found, ctrlr) == FoldLeft(register_ns, found, ctrlr)
\* attach_cb() for every controller a probe finds.
attach_cb(found, ctrlrs) == FoldLeft(register_ctrlr, found, ctrlrs)
\* Where a process looks: the local bus, and the addresses of the targets.  Of
\* them it reaches `up', another process others.
Pcie == 0
\* A target that cannot be reached is reported and passed over.
probe_nvmef_target(up, found, t) == IF t.at \in up THEN register_ctrlr(found, t.ctrlr) ELSE found
Targets(w) == IF w.cls = "trtspdk" THEN add_env_nvmef_targets(w) ELSE <<>>
\* The environment of SPDK on the cores the process may use.
spdk_init(w) == w.env
\* A failed local probe ends the search when there is no target to go on with.
register_controllers(w, up) ==
  IF ~spdk_init(w) \/ (Pcie \notin up /\ Targets(w) = <<>>) THEN <<>>
  ELSE FoldLeft(LAMBDA found, t : probe_nvmef_target(up, found, t),
                attach_cb(<<>>, IF Pcie \in up THEN w.local ELSE <<>>), Targets(w))
Addresses(w) == {Pcie} \cup {Targets(w)[i].at : i \in DOMAIN Targets(w)}

\* The namespaces are keys of a hash table of pointers: every thread of a
\* process walks it in one order, the next process in another.
Orders(n) == {p \in [1 .. n -> 1 .. n] : \A i, j \in 1 .. n : p[i] = p[j] => i = j}
\* init() takes the 1 of a failed probe for success.
SpdkGlobalState_init ==
  /\ gs.st = "none"
  /\ \E up \in SUBSET Addresses(world) :
       LET nss == register_controllers(world, up)
       IN \E p \in Orders(Len(nss)) : gs' = [gs EXCEPT !.st = "init", !.up = up, !.nss = nss, !.order = p]
  /\ UNCHANGED <<world, ts, ids, layout>>

(***************************************************************************)
(* The queue pairs of a thread, in the order it walks them.                *)
(***************************************************************************)
Walk(g) == [i \in DOMAIN g.nss |-> g.nss[g.order[i]]]
getNamespaceNames(g) == [i \in DOMAIN g.nss |-> Walk(g)[i].name]
FirstNamed(s, names) ==
  LET fit == {i \in DOMAIN s : s[i].name \in names}
  IN IF fit = {} THEN <<>> ELSE <<s[CHOOSE i \in fit : \A j \in fit : i <= j]>>
getQpair(g, name) == FirstNamed(Walk(g), {name})
getQpair_by_prefix(g, str) == FirstNamed(Walk(g), world.has[str])
\* std::sort(): an order in which no element is below one before it.
Sorted(s) ==
  LET p == CHOOSE p \in Orders(Len(s)) : \A i, j \in 1 .. Len(s) : i < j => s[p[i]] <= s[p[j]]
  IN [i \in DOMAIN s |-> s[p[i]]]

Devices(s) == [i \in DOMAIN s |-> s[i].dev]
\* As many bytes of every device as the smallest one has.
ts_get_size(qps) ==
  IF qps = <<>> THEN 0
  ELSE Len(qps) * (CHOOSE m \in {q.size : q \in Range(qps)} : \A q \in Range(qps) : m <= q.size)
SpdkIOMgr_get_size(qps) == ts_get_size(qps)

\* The queue pairs ts_init() or init() collects, one per name: none when one of
\* them is not found.
Capped(names) == SubSeq(names, 1, IF Len(names) < SdMaxQps THEN Len(names) ELSE SdMaxQps)
Collected(found) ==
  IF \E i \in DOMAIN found : found[i] = <<>> THEN [fail |-> TRUE, qps |-> <<>>]
  ELSE [fail |-> FALSE, qps |-> [i \in DOMAIN found |-> found[i][1]]]
Found(g, names) == LET n == Capped(names) IN [i \in DOMAIN n |-> getQpair(g, n[i])]
FoundByPrefix(g, names) == LET n == Capped(names) IN [i \in DOMAIN n |-> getQpair_by_prefix(g, n[i])]

\* TrtSpdkArrayIO: the names of the user, sorted, or all of them.  Names have
\* one length: a whole one is found in itself only.
get_namespaces_unsorted(g) == IF g.names = <<>> THEN getNamespaceNames(g) ELSE g.names
get_namespaces(g) == IF g.names = <<>> THEN Sorted(getNamespaceNames(g)) ELSE g.names
ts_init(g) ==
  LET names == get_namespaces(g)
  IN Collected(IF g.names = <<>> THEN Found(g, names) ELSE FoundByPrefix(g, names))
\* SpdkIOMgrThreadState::init(): all of them.
SpdkIOMgr_ts_init(g) == Collected(Found(g, Sorted(getNamespaceNames(g))))
\* TrtSpdkIO: the one that was chosen.
setThreadQP(g) == Collected(Found(g, g.names))

QpairsOf(g) == CASE world.cls = "array" -> ts_init(g)
                 [] world.cls = "spdk" -> SpdkIOMgr_ts_init(g)
                 [] world.cls = "trtspdk" -> setThreadQP(g)

\* What the choice of the devices rests on: a string of the user that TrtSpdkIO
\* has found in a name, otherwise all that this process has reached.
Basis(g) ==
  IF world.cls = "trtspdk" /\ getQpair_by_prefix(g, world.user[1]) # <<>> THEN [named |-> TRUE, up |-> {}]
  ELSE [named |-> FALSE, up |-> g.up]
Known(qps) ==
  IF qps = <<>> \/ Basis(gs) \in DOMAIN layout THEN layout
  ELSE [b \in DOMAIN layout \cup {Basis(gs)} |-> IF b = Basis(gs) THEN Devices(qps) ELSE layout[b]]

(***************************************************************************)
(* Striping: blocks of blk bytes over n devices.                           *)
(***************************************************************************)
offset_to_qpair(blk, n, off) == (off \div blk) % n
dev_offset(blk, n, off) == (off \div (blk * n)) * blk + (off % blk)
\* SpdkIO starts every stripe one device further.
SpdkIO_offset_to_qpair(blk, n, off) == (((off \div blk) % n) + (off \div (blk * n))) % n
SpdkIO_dev_offset(blk, n, off) == (off \div (blk * n)) * blk + (off % blk)

(***************************************************************************)
(* open().                                                                 *)
(***************************************************************************)
Repeated(s) == \E i, j \in DOMAIN s : i # j /\ s[i] = s[j]
\* A name given twice is an error.
set_namespaces ==
  IF Repeated(world.user) THEN [gs EXCEPT !.opened = "failed"]
  ELSE [gs EXCEPT !.set = TRUE, !.names = Sorted(world.user)]
\* The first namespace with the string in its name, otherwise the least one.
set_SpdkNamespaceStr ==
  LET all == getNamespaceNames(gs)
      hit == getQpair_by_prefix(gs, world.user[1])
  IN IF all = <<>> THEN [gs EXCEPT !.opened = "failed"]
     ELSE [gs EXCEPT !.set = TRUE, !.names = <<IF hit # <<>> THEN hit[1].name ELSE Sorted(all)[1]>>]

Opened(t, g) ==
  LET r == QpairsOf(g)
  IN IF ~g.set THEN gs' = g /\ UNCHANGED <<ts, layout>>
     ELSE IF r.fail THEN gs' = [g EXCEPT !.opened = "failed"] /\ UNCHANGED <<ts, layout>>
     ELSE /\ gs' = [g EXCEPT !.opened = "ok"]
          /\ ts' = [ts EXCEPT ![t].qps = r.qps, ![t].size = ts_get_size(r.qps)]
          /\ layout' = Known(r.qps)
TrtSpdkArrayIO_open(t) ==
  /\ world.cls = "array" /\ gs.opened = "no" /\ ts[t].st = "ready"
  /\ Opened(t, set_namespaces)
  /\ UNCHANGED <<world, ids>>
TrtSpdkIO_open(t) ==
  /\ world.cls = "trtspdk" /\ gs.opened = "no" /\ ts[t].st = "ready"
  /\ Opened(t, set_SpdkNamespaceStr)
  /\ UNCHANGED <<world, ids>>

(***************************************************************************)
(* Threads.                                                                *)
(***************************************************************************)
SdUp == gs.st = "init" /\ ~gs.dead
\* SpdkIOMgr::init() has waited for the schedulers.
SdStarted == \A t \in SdThreads : ts[t].st # "none"
\* SPDK::init(): a queue pair for every namespace.
SpdkThread_init(t) ==
  /\ SdUp /\ ts[t].st = "none" /\ world.cls # "spdk"
  /\ ts' = [ts EXCEPT ![t].st = "ready"]
  /\ UNCHANGED <<world, gs, ids, layout>>
\* Start of a scheduler of SpdkIOMgr.
spdk_io_scheduler_start(t) ==
  /\ SdUp /\ ts[t].st = "none" /\ world.cls = "spdk"
  /\ LET r == SpdkIOMgr_ts_init(gs)
     IN /\ ts' = [ts EXCEPT ![t] = [st |-> "ready", qps |-> r.qps, size |-> SpdkIOMgr_get_size(r.qps)]]
        /\ layout' = Known(r.qps)
  /\ UNCHANGED <<world, gs, ids>>
\* The first call of another thread; without queue pairs the process ends,
\* by abort() or by the division of offset_to_qpair().
SdFirstCall(t) ==
  /\ SdUp /\ gs.opened = "ok" /\ ts[t].st = "ready" /\ ts[t].qps = <<>>
  /\ LET r == QpairsOf(gs)
     IN IF r.qps = <<>> THEN gs' = [gs EXCEPT !.dead = TRUE] /\ UNCHANGED <<ts, layout>>
        ELSE /\ ts' = [ts EXCEPT ![t].qps = r.qps, ![t].size = ts_get_size(r.qps)]
             /\ layout' = Known(r.qps) /\ UNCHANGED gs
  /\ UNCHANGED <<world, ids>>
initThreadState_if_needed(t) == world.cls = "array" /\ SdFirstCall(t)
setThreadQP_if_needed(t) == world.cls = "trtspdk" /\ SdFirstCall(t)
SpdkThread_close(t) ==
  /\ SdUp /\ world.cls # "spdk" /\ ts[t].st = "ready" /\ ts[t].qps # <<>>
  /\ ts' = [ts EXCEPT ![t].qps = <<>>, ![t].size = 0]
  /\ UNCHANGED <<world, gs, ids, layout>>
SpdkThread_exit(t) ==
  /\ SdUp /\ ts[t].st = "ready"
  /\ world.cls = "spdk" => SdStarted /\ ids.held = <<>>
  /\ ts' = [ts EXCEPT ![t] = [NoThread EXCEPT !.st = "done"]]
  /\ UNCHANGED <<world, gs, ids, layout>>

(***************************************************************************)
(* Users of SpdkIO: a slot for each, from the first call to the end of the *)
(* thread.  open() asks for a slot again, and forgets the one it had.      *)
(***************************************************************************)
SdRegistered(u, i, l) ==
  [free |-> Front(i.free), held |-> [x \in DOMAIN i.held \cup {u} |-> IF x = u THEN Last(i.free) ELSE i.held[x]],
   lost |-> i.lost \cup l]
SpdkIOThreadState_init(u) ==
  /\ SdUp /\ world.cls = "spdk" /\ SdStarted /\ u \notin DOMAIN ids.held
  /\ IF ids.free = <<>> THEN gs' = [gs EXCEPT !.dead = TRUE] /\ UNCHANGED ids
     ELSE ids' = SdRegistered(u, ids, {}) /\ UNCHANGED gs
  /\ UNCHANGED <<world, ts, layout>>
SpdkIO_open(u) ==
  /\ SdUp /\ gs.opened = "no" /\ u \in DOMAIN ids.held
  /\ IF ids.free = <<>> THEN gs' = [gs EXCEPT !.opened = "failed"] /\ UNCHANGED ids
     ELSE ids' = SdRegistered(u, ids, {ids.held[u]}) /\ gs' = [gs EXCEPT !.opened = "ok"]
  /\ UNCHANGED <<world, ts, layout>>
deregister_user_stale(u) ==
  /\ SdUp /\ u \in DOMAIN ids.held
  /\ ids' = [ids EXCEPT !.free = Append(@, ids.held[u])]
  /\ UNCHANGED <<world, gs, ts, layout>>

deregister_user(u) ==
  /\ SdUp /\ u \in DOMAIN ids.held
  /\ ids' = [ids EXCEPT !.free = Append(@, ids.held[u]),
                        !.held = [x \in DOMAIN @ \ {u} |-> @[x]]]
  /\ UNCHANGED <<world, gs, ts, layout>>

\* The process ends, in whatever state, and the next one begins.
SdRestart ==
  /\ gs.run < SdExecutions
  /\ gs' = NewProcess(gs.run + 1)
  /\ ts' = [t \in SdThreads |-> NoThread]
  /\ ids' = NewIds
  /\ UNCHANGED <<world, layout>>

SdNext ==
  \/ SpdkGlobalState_init \/ SdRestart
  \/ \E t \in SdThreads :
       \/ SpdkThread_init(t) \/ spdk_io_scheduler_start(t) \/ initThreadState_if_needed(t)
       \/ setThreadQP_if_needed(t)
       \/ TrtSpdkArrayIO_open(t) \/ TrtSpdkIO_open(t) \/ SpdkThread_close(t) \/ SpdkThread_exit(t)
  \/ \E u \in SdUsers : SpdkIOThreadState_init(u) \/ SpdkIO_open(u) \/ deregister_user(u)

SdSpec == SdInit /\ [][SdNext]_sdVars

(***************************************************************************)
(* Properties.                                                             *)
(***************************************************************************)
Place(t, a) ==
  LET q == ts[t].qps
      n == Len(q)
  IN IF world.cls = "spdk"
     THEN [on |-> q[SpdkIO_offset_to_qpair(Blk, n, a) + 1], at |-> SpdkIO_dev_offset(Blk, n, a)]
     ELSE [on |-> q[offset_to_qpair(Blk, n, a) + 1], at |-> dev_offset(Blk, n, a)]

\* The namespaces a store is opened on are one disk: every address below
\* get_size() has a place of its own, on a device that is that large, and it
\* is the same place for every thread of this process, whatever order the
\* hash tables are walked in.  It is also the same place for every process
\* before it that found the string of the user in a name, as this one did
\* (TrtSpdkIO), or that reached the same targets.  Not claimed, and not so: a
\* process that does not reach the target the string names takes the least of
\* the names it has, which is another disk, and reports success
\* (trt-spdk.cc:125).  Holds where names are different, a string of the user is
\* in one of them, two strings are not in the same one, and sizes are multiples
\* of blk_m.
SameDisk ==
  \A t \in SdThreads : ts[t].qps # <<>> =>
    /\ Basis(gs) \in DOMAIN layout /\ Devices(ts[t].qps) = layout[Basis(gs)]
    /\ \A a \in 0 .. ts[t].size - 1 :
         /\ Place(t, a).at < Place(t, a).on.size
         /\ \A b \in 0 .. a - 1 : Place(t, a) # Place(t, b)

\* A slot of SpdkIOMgr is in the hands of one thread, which waits for what it
\* puts there: threads that come and go, and the second slot open() takes,
\* never make a slot free that a thread still uses.
SlotsOwned ==
  /\ \A u, v \in DOMAIN ids.held : u # v => ids.held[u] # ids.held[v]
  /\ \A i, j \in DOMAIN ids.free : i # j => ids.free[i] # ids.free[j]
  /\ Range(ids.free) \cap (Range(ids.held) \cup ids.lost) = {}
=============================================================================
