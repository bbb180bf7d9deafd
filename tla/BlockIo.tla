------------------------------ MODULE BlockIo ------------------------------
(***************************************************************************)
(* The IO classes of uDepot over the backends of TrtIo: FileIODirect,      *)
(* TrtFileIO (AIO), TrtFileIOUring, TrtSpdkIO, TrtSpdkArrayIO, SpdkIO, and *)
(* the mbuff helpers of io/helpers.hh.  A function of a class is the       *)
(* sequence of requests it makes, or an error; a call makes them one at a  *)
(* time, and what a request returns decides whether the call goes on.      *)
(***************************************************************************)
EXTENDS TrtIo, SpdkDevices

CONSTANTS
  Confs,     \* classes, programs and faults of the behaviours
  Page,      \* 4096: alignment pwrite() asks for
  IovMax,    \* entries of the iovec of an mbuff helper
  LCores,    \* rte_lcore_count()
  MaxSched   \* _SPDKIOMGR_MAX_SCHED

ASSUME BlockIoConstants ==
  /\ {Page, IovMax, LCores, MaxSched} \subseteq Nat \ {0}
  /\ Page % Sector = 0 /\ Blk % Sector = 0

VARIABLES
  call,  \* [task -> [pc, fn, off, iov, base, reqs, tot, ret]]
  todo,  \* [task -> calls it has still to make]
  mm,    \* mmap_off_m: regions, [off, len]
  mgr    \* SpdkIOMgr: [init, user, slot, ids, spawned]

blockVars == <<call, todo, mm, mgr>>
vars == <<conf, io, op, disk, rbuf, call, todo, mm, mgr>>

iov_size(iov) == LET upto[i \in 0 .. Len(iov)] == IF i = 0 THEN 0 ELSE upto[i - 1] + iov[i] IN upto[Len(iov)]
Up(x) == ((x + Sector - 1) \div Sector) * Sector
Down(x) == (x \div Sector) * Sector
Least(a, b) == IF a < b THEN a ELSE b
Zeros(n) == [i \in 1 .. n |-> 0]
Span(from, n) == [i \in 1 .. n |-> from + i - 1]

\* n bytes of the caller's buffer at `off', what is before and after them in
\* the request is padding.
Req(dir, q, off, lead, from, n, tail) ==
  [dir |-> dir, q |-> q, at |-> off - lead, map |-> Zeros(lead) \o Span(from, n) \o Zeros(tail)]
Plain(dir, off, from, n) == Req(dir, 0, off, 0, from, n, 0)
Does(reqs) == [err |-> 0, reqs |-> reqs]
Fails(e) == [err |-> e, reqs |-> <<>>]

(***************************************************************************)
(* FileIODirect: blocking calls on a file opened with O_DIRECT, through a  *)
(* buffer with the alignment it asks for.                                  *)
(***************************************************************************)
FileIODirect_pread(off, n, from) ==
  IF off % Sector # 0 THEN Fails(EINVAL) ELSE Does(<<Req("read", 0, off, 0, from, n, Up(n) - n)>>)
FileIODirect_pwrite(off, n, from) ==
  IF off % Page # 0 THEN Fails(EINVAL) ELSE Does(<<Plain("write", off, from, n)>>)
FileIODirect_preadv(off, iov, from) ==
  IF off % Sector # 0 THEN Fails(EINVAL)
  ELSE Does(<<Req("read", 0, off, 0, from, iov_size(iov), Up(iov_size(iov)) - iov_size(iov))>>)
FileIODirect_pwritev(off, iov, from) ==
  IF off % Sector # 0 THEN Fails(EINVAL) ELSE Does(<<Plain("write", off, from, iov_size(iov))>>)
FileIODirect_native(dir, off, iov, from) == Does(<<Plain(dir, off, from, iov_size(iov))>>)

(***************************************************************************)
(* TrtFileIO and TrtFileIOUring: the same on the descriptor of the thread; *)
(* the native calls are operations of the backend.                         *)
(***************************************************************************)
TrtFileIO_pread(off, n, from) == FileIODirect_pread(off, n, from)
TrtFileIO_pwrite(off, n, from) == FileIODirect_pwrite(off, n, from)
\* The call reads the length it was given, whether or not it is aligned.
TrtFileIO_preadv(off, iov, from) ==
  IF off % Sector # 0 THEN Fails(EINVAL) ELSE Does(<<Plain("read", off, from, iov_size(iov))>>)
TrtFileIO_pwritev(off, iov, from) == FileIODirect_pwritev(off, iov, from)
TrtFileIO_native(dir, off, iov, from) == Does(<<Plain(dir, off, from, iov_size(iov))>>)
TrtFileIO_mmap(off, n) == Does(<<Plain("read", off, 1, n)>>)
TrtFileIO_msync(off, n) == Does(<<Plain("write", off, 1, n)>>)

TrtFileIOUring_pread(off, n, from) == FileIODirect_pread(off, n, from)
\* Blocks of at most 16 MiB.
TrtFileIOUring_pwrite(off, n, from) ==
  IF off % Sector # 0 THEN Fails(EINVAL)
  ELSE Does([i \in 1 .. (n + Blk - 1) \div Blk |->
               Plain("write", off + (i - 1) * Blk, from + (i - 1) * Blk, Least(Blk, n - (i - 1) * Blk))])
TrtFileIOUring_preadv(off, iov, from) == TrtFileIO_preadv(off, iov, from)
TrtFileIOUring_pwritev(off, iov, from) == FileIODirect_pwritev(off, iov, from)
TrtFileIOUring_native(dir, off, iov, from) == Does(<<Plain(dir, off, from, iov_size(iov))>>)

(***************************************************************************)
(* TrtSpdkIO: one namespace.                                               *)
(***************************************************************************)
\* Start of element i of the vector.
Before(iov, i) == iov_size(SubSeq(iov, 1, i - 1))
\* read_sync(), write_sync(): whole sectors through a buffer of the device;
\* what a write does not fill of it is not read first.
read_sync(dir, q, off, from, n) ==
  Req(dir, q, off, off - Down(off), from, n, Up(off + n) - (off + n))
TrtSpdkIO_pread(off, n, from) == Does(<<read_sync("read", 0, off, from, n)>>)
TrtSpdkIO_pwrite(off, n, from) == Does(<<read_sync("write", 0, off, from, n)>>)
TrtSpdkIO_preadv(off, iov, from) ==
  Does([i \in DOMAIN iov |-> read_sync("read", 0, off + Before(iov, i), from + Before(iov, i), iov[i])])
TrtSpdkIO_pwritev(off, iov, from) ==
  Does([i \in DOMAIN iov |-> read_sync("write", 0, off + Before(iov, i), from + Before(iov, i), iov[i])])
\* pread_native(), pwrite_native(): aligned or refused.
TrtSpdkIO_pread_native(off, n, from) ==
  IF off % Sector # 0 \/ n % Sector # 0 THEN Fails(EINVAL) ELSE Does(<<Plain("read", off, from, n)>>)
TrtSpdkIO_pwrite_native(off, n, from) ==
  IF off % Sector # 0 \/ n % Sector # 0 THEN Fails(EINVAL) ELSE Does(<<Plain("write", off, from, n)>>)
\* preadv_native(), pwritev_native(): a request for each element, whole
\* sectors of it, up to the first element that is not made of them.
UpToRagged(iov) == {i \in DOMAIN iov : \A j \in 1 .. i - 1 : iov[j] % Sector = 0}
TrtSpdkIO_preadv_native(off, iov, from) ==
  Does([i \in UpToRagged(iov) |-> Plain("read", Down(off + Before(iov, i)), from + Before(iov, i), Down(iov[i]))])
TrtSpdkIO_pwritev_native(off, iov, from) ==
  Does([i \in UpToRagged(iov) |-> Plain("write", Down(off + Before(iov, i)), from + Before(iov, i), Down(iov[i]))])
\* mmap(), msync(): blocks of 8192 bytes.
Blocks(off, n) ==
  [i \in 1 .. (n + Blk - 1) \div Blk |-> [o |-> off + (i - 1) * Blk, l |-> Least(Blk, n - (i - 1) * Blk)]]
TrtSpdkIO_mmap(off, n) ==
  Does([i \in DOMAIN Blocks(off, n) |->
          LET b == Blocks(off, n)[i] IN read_sync("read", 0, b.o, 1 + b.o - off, b.l)])
TrtSpdkIO_msync(off, n) ==
  Does([i \in DOMAIN Blocks(off, n) |->
          LET b == Blocks(off, n)[i] IN read_sync("write", 0, b.o, 1 + b.o - off, b.l)])

(***************************************************************************)
(* TrtSpdkArrayIO: blocks of blk_m bytes over the namespaces.              *)
(***************************************************************************)
Devs == Cardinality(Queues)

\* The range cut at the boundaries of the blocks.
Chunks(off, n) ==
  LET first == off \div Blk
      last  == (off + n - 1) \div Blk
  IN [i \in 1 .. last - first + 1 |->
        LET b == (first + i - 1) * Blk
            o == IF b < off THEN off ELSE b
        IN [o |-> o, l |-> Least(off + n, b + Blk) - o]]
\* pread_native_fn(), pwrite_native_fn(): the sectors the range touches, into
\* the caller's buffer from its start.
array_native(dir, q, off, from, n) ==
  [dir |-> dir, q |-> q, at |-> Down(off),
   map |-> Span(from, n) \o Zeros(Up(off + n) - Down(off) - n)]
\* sync_pread_fn() and its siblings.
sync_fn(dir, q, off, from, n) == read_sync(dir, q, off, from, n)
pio(dir, off, n, from, native) ==
  Does([i \in DOMAIN Chunks(off, n) |->
          LET c == Chunks(off, n)[i]
              q == offset_to_qpair(Blk, Devs, c.o)
          IN IF native THEN array_native(dir, q, dev_offset(Blk, Devs, c.o), from + c.o - off, c.l)
             ELSE sync_fn(dir, q, dev_offset(Blk, Devs, c.o), from + c.o - off, c.l)])
\* Cut points of a vector: where its elements and the blocks begin.
Cuts(iov, w) == {Before(iov, i) : i \in DOMAIN iov} \cup {x \in 0 .. iov_size(iov) - 1 : x % w = 0}
Pieces(iov, w) ==
  LET cut == Cuts(iov, w)
      cs  == [i \in 1 .. Cardinality(cut) |-> CHOOSE x \in cut : Cardinality({y \in cut : y < x}) = i - 1]
  IN [i \in DOMAIN cs |-> [b |-> cs[i], l |-> (IF i = Len(cs) THEN iov_size(iov) ELSE cs[i + 1]) - cs[i]]]
\* The loop that steps over the elements leaves advance_len at zero, and
\* `off += advance_len' after it adds nothing: every block of the vector goes
\* to the place of the first one.
piov(dir, off, iov, from, native) ==
  LET w == Blk - (off % Blk)
      q == offset_to_qpair(Blk, Devs, off)
  IN Does([i \in DOMAIN Pieces(iov, w) |->
             LET p == Pieces(iov, w)[i]
                 o == dev_offset(Blk, Devs, off) + (p.b % w)
             IN IF native THEN array_native(dir, q, o, from + p.b, p.l)
                ELSE sync_fn(dir, q, o, from + p.b, p.l)])
TrtSpdkArrayIO_pread(off, n, from) == pio("read", off, n, from, FALSE)
TrtSpdkArrayIO_pwrite(off, n, from) == pio("write", off, n, from, FALSE)
TrtSpdkArrayIO_preadv(off, iov, from) == piov("read", off, iov, from, FALSE)
TrtSpdkArrayIO_pwritev(off, iov, from) == piov("write", off, iov, from, FALSE)
TrtSpdkArrayIO_preadv_native(off, iov, from) ==
  IF Len(iov) = 1 THEN pio("read", off, iov[1], from, TRUE) ELSE piov("read", off, iov, from, TRUE)
TrtSpdkArrayIO_pwritev_native(off, iov, from) ==
  IF Len(iov) = 1 THEN pio("write", off, iov[1], from, TRUE) ELSE piov("write", off, iov, from, TRUE)
TrtSpdkArrayIO_mmap(off, n) == pio("read", off, n, 1, FALSE)
TrtSpdkArrayIO_msync(off, n) == pio("write", off, n, 1, FALSE)

(***************************************************************************)
(* SpdkIO: threads that are not of the runtime hand their requests to the  *)
(* schedulers of SpdkIOMgr through slots.                                  *)
(***************************************************************************)
\* A task of the manager, for one block: whole sectors of its device.
SpdkIOMgr_io(dir, o, from, n) ==
  read_sync(dir, SpdkIO_offset_to_qpair(Blk, Devs, o), SpdkIO_dev_offset(Blk, Devs, o), from, n)
\* One block at a time, through the buffer of the thread.
SpdkIO_preadv(off, n, from) ==
  Does([i \in DOMAIN Chunks(off, n) |->
          LET c == Chunks(off, n)[i] IN SpdkIOMgr_io("read", c.o, from + c.o - off, c.l)])
\* A block has to end at the end of a sector; those before it are written.
SpdkIO_pwritev_block(c) == (c.o + c.l) % Sector = 0
SpdkIO_pwritev(off, n, from) ==
  LET good == SelectSeq(Chunks(off, n), SpdkIO_pwritev_block)
  IN [err  |-> IF Len(good) = Len(Chunks(off, n)) THEN 0 ELSE EINVAL,
      reqs |-> [i \in DOMAIN good |->
                  LET c == good[i] IN SpdkIOMgr_io("write", c.o, from + c.o - off, c.l)]]
SpdkIO_mmap(off, n) == SpdkIO_preadv(off, n, 1)
SpdkIO_msync(off, n) == SpdkIO_pwritev(off, n, 1)

(***************************************************************************)
(* A call of the class the behaviour is about.                             *)
(***************************************************************************)
FileIODirect(fn, off, iov, from) ==
  CASE fn = "pread" -> FileIODirect_pread(off, iov_size(iov), from)
    [] fn = "pwrite" -> FileIODirect_pwrite(off, iov_size(iov), from)
    [] fn = "preadv" -> FileIODirect_preadv(off, iov, from)
    [] fn = "pwritev" -> FileIODirect_pwritev(off, iov, from)
    [] fn \in {"pread_native", "preadv_native"} -> FileIODirect_native("read", off, iov, from)
    [] fn \in {"pwrite_native", "pwritev_native"} -> FileIODirect_native("write", off, iov, from)
TrtFileIO(fn, off, iov, from) ==
  CASE fn = "pread" -> TrtFileIO_pread(off, iov_size(iov), from)
    [] fn = "pwrite" -> TrtFileIO_pwrite(off, iov_size(iov), from)
    [] fn = "preadv" -> TrtFileIO_preadv(off, iov, from)
    [] fn = "pwritev" -> TrtFileIO_pwritev(off, iov, from)
    [] fn \in {"pread_native", "preadv_native"} -> TrtFileIO_native("read", off, iov, from)
    [] fn \in {"pwrite_native", "pwritev_native"} -> TrtFileIO_native("write", off, iov, from)
    [] fn = "mmap" -> TrtFileIO_mmap(off, iov_size(iov))
    [] fn = "msync" -> TrtFileIO_msync(off, iov_size(iov))
TrtFileIOUring(fn, off, iov, from) ==
  CASE fn = "pread" -> TrtFileIOUring_pread(off, iov_size(iov), from)
    [] fn = "pwrite" -> TrtFileIOUring_pwrite(off, iov_size(iov), from)
    [] fn = "preadv" -> TrtFileIOUring_preadv(off, iov, from)
    [] fn = "pwritev" -> TrtFileIOUring_pwritev(off, iov, from)
    [] fn \in {"pread_native", "preadv_native"} -> TrtFileIOUring_native("read", off, iov, from)
    [] fn \in {"pwrite_native", "pwritev_native"} -> TrtFileIOUring_native("write", off, iov, from)
TrtSpdkIO(fn, off, iov, from) ==
  CASE fn = "pread" -> TrtSpdkIO_pread(off, iov_size(iov), from)
    [] fn = "pwrite" -> TrtSpdkIO_pwrite(off, iov_size(iov), from)
    [] fn = "preadv" -> TrtSpdkIO_preadv(off, iov, from)
    [] fn = "pwritev" -> TrtSpdkIO_pwritev(off, iov, from)
    [] fn = "pread_native" -> TrtSpdkIO_pread_native(off, iov_size(iov), from)
    [] fn = "pwrite_native" -> TrtSpdkIO_pwrite_native(off, iov_size(iov), from)
    [] fn = "preadv_native" -> TrtSpdkIO_preadv_native(off, iov, from)
    [] fn = "pwritev_native" -> TrtSpdkIO_pwritev_native(off, iov, from)
    [] fn = "mmap" -> TrtSpdkIO_mmap(off, iov_size(iov))
    [] fn = "msync" -> TrtSpdkIO_msync(off, iov_size(iov))
TrtSpdkArrayIO(fn, off, iov, from) ==
  CASE fn = "pread" -> TrtSpdkArrayIO_pread(off, iov_size(iov), from)
    [] fn = "pwrite" -> TrtSpdkArrayIO_pwrite(off, iov_size(iov), from)
    [] fn = "preadv" -> TrtSpdkArrayIO_preadv(off, iov, from)
    [] fn = "pwritev" -> TrtSpdkArrayIO_pwritev(off, iov, from)
    [] fn \in {"pread_native", "preadv_native"} -> TrtSpdkArrayIO_preadv_native(off, iov, from)
    [] fn \in {"pwrite_native", "pwritev_native"} -> TrtSpdkArrayIO_pwritev_native(off, iov, from)
    [] fn = "mmap" -> TrtSpdkArrayIO_mmap(off, iov_size(iov))
    [] fn = "msync" -> TrtSpdkArrayIO_msync(off, iov_size(iov))
SpdkIO(fn, off, iov, from) ==
  CASE fn \in {"pread", "preadv"} -> SpdkIO_preadv(off, iov_size(iov), from)
    [] fn \in {"pwrite", "pwritev"} -> SpdkIO_pwritev(off, iov_size(iov), from)
    [] fn = "mmap" -> SpdkIO_mmap(off, iov_size(iov))
    [] fn = "msync" -> SpdkIO_msync(off, iov_size(iov))

Plan(cls, fn, off, iov, from) ==
  CASE cls = "direct" -> FileIODirect(fn, off, iov, from)
    [] cls = "aio" -> TrtFileIO(fn, off, iov, from)
    [] cls = "uring" -> TrtFileIOUring(fn, off, iov, from)
    [] cls = "trtspdk" -> TrtSpdkIO(fn, off, iov, from)
    [] cls = "array" -> TrtSpdkArrayIO(fn, off, iov, from)
    [] cls = "spdk" -> SpdkIO(fn, off, iov, from)

(***************************************************************************)
(* The mbuff helpers: native calls until the whole range is done.          *)
(***************************************************************************)
IsFull(fn) == fn \in {"io_pread_mbuff_append_full", "io_pwrite_mbuff_full"}
\* What is left of the buffers after `base' bytes, as many as the iovec holds.
Rest(iov, base) ==
  LET left == [i \in DOMAIN iov |->
                 LET b == Before(iov, i)
                 IN IF base <= b THEN iov[i] ELSE IF base >= b + iov[i] THEN 0 ELSE b + iov[i] - base]
      some == SelectSeq(left, LAMBDA n : n > 0)
  IN SubSeq(some, 1, Least(Len(some), IovMax))
io_pread_mbuff_append(iov, base) ==
  [fn |-> IF Len(Rest(iov, base)) = 1 THEN "pread_native" ELSE "preadv_native", iov |-> Rest(iov, base)]
io_pwrite_mbuff(iov, base) == [fn |-> "pwritev_native", iov |-> Rest(iov, base)]

\* The requests of the calls of the behaviours, once `base' bytes are done.
Calls == UNION {UNION {{<<c.cls, w[1], w[2], w[3], b>> : b \in IF IsFull(w[1]) THEN 0 .. iov_size(w[3]) - 1 ELSE {0}}
                        : w \in UNION {Range(c.prog[t]) : t \in DOMAIN c.prog}} : c \in Confs}
Plans ==
  [k \in {k \in Calls : k[2] # "munmap"} |->
     LET n == CASE k[2] = "io_pread_mbuff_append_full" -> io_pread_mbuff_append(k[4], k[5])
                [] k[2] = "io_pwrite_mbuff_full" -> io_pwrite_mbuff(k[4], k[5])
                [] OTHER -> [fn |-> k[2], iov |-> k[4]]
     IN Plan(k[1], n.fn, k[3] + k[5], n.iov, k[5] + 1)]
CallPlan(c) == Plans[<<conf.cls, c.fn, c.off, c.iov, c.base>>]

\* How the requests of a call are made: by a system call, as an operation of
\* the backend, by polling the queue pair, or through a slot of the manager.
IsNative(fn) == IsFull(fn) \/ fn \in {"pread_native", "pwrite_native", "preadv_native", "pwritev_native"}
Way(fn) ==
  CASE conf.cls = "direct" -> "sys"
    [] conf.cls \in {"aio", "uring"} -> IF IsNative(fn) THEN "async" ELSE "sys"
    [] conf.cls = "trtspdk" -> IF IsNative(fn) THEN "async" ELSE "spin"
    [] conf.cls = "array" -> "spin"
    [] conf.cls = "spdk" -> "slot"

ENODATA == -61
NoCall == [pc |-> "idle", fn |-> "none", off |-> 0, iov |-> <<>>, base |-> 0, reqs |-> <<>>, tot |-> 0, ret |-> 0]

\* The call, or the helper, is over with `ret', or goes on.
Planned(c) ==
  LET p == CallPlan(c)
  IN IF p.reqs = <<>> THEN [c EXCEPT !.pc = "done", !.ret = p.err]
     ELSE [c EXCEPT !.pc = "issue", !.reqs = p.reqs, !.tot = 0]
Returned(c, ret) ==
  LET n == iov_size(c.iov)
  IN CASE ~IsFull(c.fn) -> [c EXCEPT !.pc = "done", !.ret = ret]
       [] IsFull(c.fn) /\ ret < 0 -> [c EXCEPT !.pc = "done", !.ret = ret]
       [] c.fn = "io_pread_mbuff_append_full" /\ ret = 0 -> [c EXCEPT !.pc = "done", !.ret = ENODATA]
       [] IsFull(c.fn) /\ ret > 0 /\ c.base + ret >= n -> [c EXCEPT !.pc = "done", !.ret = n]
       [] OTHER -> Planned([c EXCEPT !.base = @ + ret])

\* A request of a call with plan p has returned rc.  Bytes of the caller's it
\* was for:
Useful(r) == Cardinality({i \in DOMAIN r.map : r.map[i] # 0})
Progress(c, p, rc) ==
  LET n  == Useful(c.reqs[1])
      ok == rc = IF conf.cls = "spdk" THEN n ELSE Len(c.reqs[1].map)
  IN IF ok /\ Len(c.reqs) > 1
     THEN [c EXCEPT !.pc = "issue", !.reqs = Tail(@), !.tot = @ + n]
     ELSE Returned(c, IF ok THEN IF p.err # 0 THEN p.err ELSE c.tot + n
                      ELSE IF Len(p.reqs) = 1 \/ rc < 0 \/ conf.cls = "spdk" THEN rc ELSE c.tot)

(***************************************************************************)
(* Steps of a task.                                                        *)
(***************************************************************************)
Free(t) == (~io.dead /\ io.busy = 0) \/ conf.kind = "mgr"
BackendUp == conf.kind = "none" \/ io.st = "ready" \/ (conf.kind = "mgr" /\ mgr.init)

\* munmap() forgets the region the address is in; SpdkIO, the one that begins
\* there.
RegionsAt(off) == {r \in mm : r.off <= off /\ off < r.off + r.len}
TrtFileIO_munmap(off) == mm \ RegionsAt(off)
TrtSpdkIO_munmap(off) == mm \ RegionsAt(off)
TrtSpdkArrayIO_munmap(off) == mm \ RegionsAt(off)
SpdkIO_munmap(off) == {r \in mm : r.off # off}
Unmapped(off) ==
  CASE conf.cls = "trtspdk" -> TrtSpdkIO_munmap(off)
    [] conf.cls = "array" -> TrtSpdkArrayIO_munmap(off)
    [] conf.cls = "spdk" -> SpdkIO_munmap(off)
    [] OTHER -> TrtFileIO_munmap(off)

\* A caller gives up after a call that failed or fell short.
Whole(c) == c.ret = (IF c.fn = "munmap" THEN 0 ELSE iov_size(c.iov))
StartCall(t) ==
  /\ Free(t) /\ BackendUp /\ todo[t] # <<>>
  /\ call[t].pc = "idle" \/ (call[t].pc = "done" /\ Whole(call[t]))
  /\ Way(todo[t][1][1]) = "slot" => t \in DOMAIN mgr.user
  /\ LET w == todo[t][1]
         c == [NoCall EXCEPT !.fn = w[1], !.off = w[2], !.iov = w[3]]
     IN /\ call' = [call EXCEPT ![t] =
               CASE w[1] = "munmap" -> [c EXCEPT !.pc = "done", !.ret = IF Unmapped(w[2]) = mm THEN EINVAL ELSE 0]
                 [] w[1] = "msync" /\ [off |-> w[2], len |-> iov_size(w[3])] \notin mm ->
                      [c EXCEPT !.pc = "done", !.ret = EINVAL]
                 [] OTHER -> Planned(c)]
        /\ mm' = IF w[1] = "munmap" THEN Unmapped(w[2]) ELSE mm
        /\ rbuf' = [rbuf EXCEPT ![t] = [p \in 1 .. iov_size(w[3]) |-> Junk]]
  /\ todo' = [todo EXCEPT ![t] = Tail(@)]
  /\ UNCHANGED <<conf, io, op, disk, mgr>>

\* mmap() registers the region it has read.
Mapped(c) == IF c.fn = "mmap" /\ c.pc = "done" /\ c.ret = iov_size(c.iov)
             THEN mm \cup {[off |-> c.off, len |-> iov_size(c.iov)]} ELSE mm
\* The call goes on after a request that returned rc.
Advance(t, rc) ==
  \E c \in {Progress(call[t], p, rc) : p \in {CallPlan(call[t])}} :
    call' = [call EXCEPT ![t] = c] /\ mm' = Mapped(c)

SysCall(t) ==
  /\ Free(t) /\ call[t].pc = "issue" /\ Way(call[t].fn) = "sys"
  /\ \E res \in Outcomes(call[t].reqs[1], FALSE) :
       /\ Transferred(call[t].reqs[1], t, Moved(res))
       /\ Advance(t, res)
  /\ UNCHANGED <<conf, io, op, todo, mgr>>

Submit(t) ==
  /\ Free(t) /\ call[t].pc = "issue" /\ Way(call[t].fn) = "async"
  /\ CASE conf.kind = "aio" -> Aio_submit(t, call[t].reqs[1])
       [] conf.kind = "uring" -> Iou_submit(t, call[t].reqs[1])
       [] conf.kind = "spdk" -> Spdk_submit(t, call[t].reqs[1])
  /\ call' = [call EXCEPT ![t].pc = "wait"]
  /\ UNCHANGED <<conf, disk, rbuf, todo, mm, mgr>>
Spin(t) ==
  /\ Free(t) /\ call[t].pc = "issue" /\ Way(call[t].fn) = "spin"
  /\ Spdk_sync(t, call[t].reqs[1])
  /\ call' = [call EXCEPT ![t].pc = "wait"]
  /\ UNCHANGED <<conf, disk, rbuf, todo, mm, mgr>>

\* The task runs again: await_resume().
Rc(t) == CASE conf.kind = "spdk" -> IF op[t].res = 0 THEN Len(op[t].req.map) ELSE -1
           [] conf.kind = "mgr" -> IF op[t].res < 0 THEN -1 ELSE op[t].res
           [] OTHER -> op[t].res
Resume(t) ==
  /\ Free(t) /\ call[t].pc = "wait" /\ op[t].st = "ready"
  /\ Advance(t, Rc(t))
  /\ op' = [op EXCEPT ![t] = NoOp]
  /\ UNCHANGED <<conf, io, disk, rbuf, todo, mgr>>

(***************************************************************************)
(* SpdkIOMgr.                                                              *)
(***************************************************************************)
SchedNr == Least(MaxSched, LCores)
\* The main core runs no scheduler, but is counted in sched_nr_m.
Schedulers == 0 .. Least(MaxSched, LCores - 1) - 1
MgrRest == UNCHANGED <<conf, io, disk, rbuf, todo, mm>>
Slots == 0 .. Cardinality(Tasks) - 1
\* Slots of a scheduler; the last one takes those that are left.
SlotsOf(j) ==
  LET per == Cardinality(Slots) \div SchedNr
  IN j * per .. (IF j = SchedNr - 1 THEN Cardinality(Slots) ELSE (j + 1) * per) - 1

\* The barrier waits for sched_nr_m schedulers and the main thread.
SpdkIOMgr_init ==
  /\ conf.kind = "mgr" /\ ~mgr.init
  /\ Cardinality(Schedulers) = SchedNr
  /\ mgr' = [mgr EXCEPT !.init = TRUE]
  /\ MgrRest /\ UNCHANGED <<op, call>>
\* register_user() on the first call of a thread.
register_user(t) ==
  /\ conf.kind = "mgr" /\ mgr.init /\ t \notin DOMAIN mgr.user
  /\ \E id \in Slots \ {mgr.user[u] : u \in DOMAIN mgr.user} :
       mgr' = [mgr EXCEPT !.user = [u \in DOMAIN @ \cup {t} |-> IF u = t THEN id ELSE @[u]]]
  /\ MgrRest /\ UNCHANGED <<op, call>>
submit_io(t) ==
  /\ call[t].pc = "issue" /\ Way(call[t].fn) = "slot"
  /\ mgr' = [mgr EXCEPT !.slot[mgr.user[t]] = @ + 1]
  /\ op' = [op EXCEPT ![t] = [NoOp EXCEPT !.st = "slot", !.req = call[t].reqs[1]]]
  /\ call' = [call EXCEPT ![t].pc = "wait"]
  /\ MgrRest
User(i) == CHOOSE t \in DOMAIN mgr.user : mgr.user[t] = i
\* One round of a scheduler: a task for every slot whose number has moved.
spdk_io_scheduler(j) ==
  LET new == {i \in SlotsOf(j) : mgr.slot[i] # mgr.ids[i]}
  IN /\ conf.kind = "mgr" /\ mgr.init /\ new # {}
     /\ mgr' = [mgr EXCEPT !.ids = [i \in Slots |-> IF i \in new THEN @[i] + 1 ELSE @[i]], !.spawned = @ \cup new]
     /\ MgrRest /\ UNCHANGED <<op, call>>
\* spdk_io_task(): the request, polled for; then the thread is woken.
spdk_io_task(i) ==
  /\ i \in mgr.spawned
  /\ LET t == User(i)
     IN \/ /\ op[t].st = "slot"
           /\ op' = [op EXCEPT ![t].st = "flying"] /\ UNCHANGED mgr
        \/ /\ op[t].st = "landed"
           /\ op' = [op EXCEPT ![t].st = "ready"]
           /\ mgr' = [mgr EXCEPT !.spawned = @ \ {i}]
  /\ MgrRest /\ UNCHANGED call

Init ==
  /\ conf \in Confs
  /\ io = NewIoState
  /\ op = [t \in Tasks |-> NoOp]
  /\ disk = [q \in Queues |-> [x \in 0 .. DevSize - 1 |-> 0]]
  /\ rbuf = [t \in Tasks |-> <<>>]
  /\ call = [t \in Tasks |-> NoCall]
  /\ todo = [t \in Tasks |-> IF t \in DOMAIN conf.prog THEN conf.prog[t] ELSE <<>>]
  /\ mm = {}
  /\ mgr = [init |-> FALSE, user |-> <<>>, slot |-> [i \in Slots |-> 0], ids |-> [i \in Slots |-> 0], spawned |-> {}]

ThreadInit == (AioState_init \/ UringState_init \/ SpdkState_init) /\ UNCHANGED <<conf, op, disk, rbuf, call, todo, mm, mgr>>
Backend == IoStep /\ UNCHANGED blockVars
TaskStep(t) == StartCall(t) \/ SysCall(t) \/ Submit(t) \/ Spin(t) \/ Resume(t) \/ register_user(t) \/ submit_io(t)
Next ==
  \/ ThreadInit \/ Backend \/ SpdkIOMgr_init
  \/ \E t \in Tasks : TaskStep(t)
  \/ \E j \in Schedulers : spdk_io_scheduler(j)
  \/ \E i \in Slots : spdk_io_task(i)

\* The scheduler of the thread runs every runnable task in turn, the poller
\* included; the kernel and the devices complete what they are given.  No
\* step is repeated for ever, so it is enough that one of them is taken.
Fairness == WF_vars(Next)

Spec == Init /\ [][Next]_vars /\ Fairness

(***************************************************************************)
(* Properties.                                                             *)
(***************************************************************************)
\* The calls of t that have come before the one at hand.
Earlier(t) == 1 .. Len(conf.prog[t]) - Len(todo[t]) - 1
IsWrite(fn) == fn \in {"msync", "pwrite", "pwritev", "pwrite_native", "pwritev_native", "io_pwrite_mbuff_full"}
IsRead(fn) == fn \in {"pread", "preadv", "pread_native", "preadv_native", "io_pread_mbuff_append_full", "mmap"}
\* Bytes a write of task u puts at address a of the file.
Written(u, I, a) ==
  {Byte(u, a - w[2] + 1) :
     w \in {conf.prog[u][i] : i \in {j \in I : LET w == conf.prog[u][j]
                                           IN IsWrite(w[1]) /\ a \in w[2] .. w[2] + iov_size(w[3]) - 1}}}

\* A call with the blocks it reaches over, and the elements and offset not all
\* of whole sectors.
IsVector(fn, iov) == fn \in {"preadv", "pwritev"} \/ (IsNative(fn) /\ Len(iov) > 1)
OverBlocks(off, iov) == off \div Blk # (off + iov_size(iov) - 1) \div Blk
Ragged(fn, off, iov) ==
  off % Sector # 0 \/ (IF IsVector(fn, iov) THEN \E i \in DOMAIN iov : iov[i] % Sector # 0 ELSE iov_size(iov) % Sector # 0)
\* A vector of TrtSpdkArrayIO over several blocks puts them all at the place of
\* the first, and reads them all from there (trt-spdk-array.cc:307).
Folded(fn, off, iov) == conf.cls = "array" /\ IsVector(fn, iov) /\ OverBlocks(off, iov)
\* Addresses of which nothing is known once a write of SPDK was made: it was
\* folded, or not of whole sectors, whose other bytes it does not read first.
Spoilt(fn, off, iov) ==
  IF conf.cls \in {"trtspdk", "array", "spdk"} /\ (Folded(fn, off, iov) \/ Ragged(fn, off, iov))
  THEN Down(off) .. Up(off + iov_size(iov)) - 1 ELSE {}
SpoiltByAny == UNION {UNION {Spoilt(w[1], w[2], w[3]) : w \in {x \in Range(conf.prog[u]) : IsWrite(x[1])}} : u \in DOMAIN conf.prog}
\* Reads that do not return what is at their addresses: folded ones, native ones
\* of SPDK that are not of whole sectors, which begin at the sector they are in,
\* and those of SpdkIO over several blocks that are not: the block that is not
\* whole ends the call with the bytes of its sectors, which may be as many as
\* were asked for (spdk.cc:680).
Misread(fn, off, iov) ==
  \/ Folded(fn, off, iov)
  \/ conf.cls \in {"trtspdk", "array"} /\ IsNative(fn) /\ Ragged(fn, off, iov)
  \/ conf.cls = "spdk" /\ OverBlocks(off, iov) /\ Ragged(fn, off, iov)


\* aio_pending_, iou_pending_, sqp_npending count the requests that are not
\* reaped, spinning ones included; the queue of user space and the count of
\* the thread's pending operations agree with what tasks wait for.  The
\* pollers and stop() decide by these counters alone.
CountersAccount ==
  ~io.dead =>
    /\ \A q \in Queues : conf.kind # "mgr" => io.q[q].pend = Cardinality(Outstanding(q))
    /\ io.ioq = Cardinality(In({"queued"}))
    /\ conf.kind # "mgr" =>
         io.npend = Cardinality({t \in In({"queued", "flying", "landed"}) : ~op[t].sync})

\* A state that is DONE has no request left that the kernel could still write
\* into a task's buffer, and no task is left waiting when the poller is gone.
DrainedWhenDone ==
  (~io.dead /\ (io.st = "done" \/ io.poller = "ended")) =>
    \A t \in Tasks : call[t].pc = "wait" => op[t].st = "ready" \/ op[t].sync

\* A call that was begun returns, through errors, short transfers, a stop of
\* the backend and full queues, unless the process aborts.
InCall == {t \in Tasks : call[t].pc \in {"issue", "wait"}}
CallsReturn == []<>(InCall = {} \/ io.dead)
=============================================================================
