------------------------------- MODULE Mbuff -------------------------------
(***************************************************************************)
(* Message buffers: an Mbuff is a list of buffers with valid data, at whose *)
(* two ends bytes are added, and a list of free buffers.  Buffers move      *)
(* between mbuffs, mbuffs between threads through the mbuff cache.          *)
(*                                                                         *)
(* An mbuff is the record                                                  *)
(*    list   sequence of nodes [b, off, len], from mb_head_ to mb_tail_     *)
(*    free   mb_free_, a stack of buffers                                   *)
(*    valid, fsize, fnodes   mb_valid_size_, mb_free_size_, mb_free_nodes_  *)
(*    inl, heap, nfree       the cache the nodes are taken from             *)
(* A node is the buffer it holds.  mem is the content of the buffers.       *)
(***************************************************************************)
EXTENDS Naturals, Sequences, SequencesExt, FiniteSets, FiniteSetsExt

CONSTANTS
  Mbuffs, Buffers,
  Size,        \* length of each buffer
  Align,       \* to which the length of an allocation is rounded: 4096
  INLINE,      \* nodes inside an mbuff: 16
  Threads,
  Private,     \* the threads whose id is below N: they have a cache of their own
  Data,        \* byte sequences that are written
  Fill,        \* the byte append_val() writes
  MaxWrites,   \* bound: appends and prepends
  Prefix, Suffix,  \* putKeyvalPrefixSize(), putKeyvalSuffixSize()
  Grain,       \* grain_size_m
  Sector,      \* to which the length of a lookup's read is rounded: 512
  Iov,         \* chunks recv_request() hands out at most: 7
  ApiOps       \* the calls of the store's interface that are made

ASSUME MbuffAssumption ==
  /\ Size \in [Buffers -> Nat \ {0}] /\ Align \in Nat \ {0}
  /\ Private \subseteq Threads /\ INLINE \in Nat
  /\ {"none", "cached", "shared"} \cap Threads = {}
  /\ <<>> \in Data /\ Fill \notin {"h", "f"} /\ \A d \in Data : Range(d) \cap {"h", "f"} = {}
  /\ Prefix \in Nat \ {0} /\ Suffix \in Nat \ {0} /\ Grain \in Nat \ {0}
  /\ Sector \in Nat \ {0} /\ Iov \in Nat \ {0}
  /\ ApiOps \subseteq {"get", "put", "del", "exists"}

VARIABLES
  mb,          \* the mbuffs
  mem,         \* content of the buffers
  own,         \* per mbuff the thread that uses it, "cached" or "none"
  cache,       \* mbuff_thread_caches_m and mbuff_shared_cache_m
  bytes,       \* per mbuff the bytes its user has put there
  call,        \* per mbuff the state of the call that uses it: "kv" - about to
               \* write it, "io" - writing it, "del" - a tombstone is written,
               \* "ret" - it is returning
  writes       \* appends and prepends so far

vars == <<mb, mem, own, cache, bytes, call, writes>>

Smallest(a, b) == IF a < b THEN a ELSE b
Total(f, S) == FoldSet(LAMBDA x, acc : f[x] + acc, 0, S)
align_up(n, a) == ((n + a - 1) \div a) * a

Empty == [list |-> <<>>, free |-> <<>>, valid |-> 0, fsize |-> 0, fnodes |-> 0,
          inl |-> 0, heap |-> 0, nfree |-> 0]

-----------------------------------------------------------------------------
(* Nodes and the free list *)

append_space(n) == Size[n.b] - (n.off + n.len)
\* The assertion that a node without data has no offset, which a debug build
\* stops at, is left out: BuffersAccounted says when it fails
prepend_space(n) == IF n.len = 0 THEN Size[n.b] ELSE n.off

\* InlineObjCache::get(), put() and reset()
node_get(m) ==
  IF m.nfree > 0 THEN [m EXCEPT !.nfree = @ - 1]
  ELSE IF m.inl < INLINE THEN [m EXCEPT !.inl = @ + 1] ELSE [m EXCEPT !.heap = @ + 1]
node_put(m) == [m EXCEPT !.nfree = @ + 1]
node_reset(m) == [m EXCEPT !.nfree = 0, !.inl = @ - Smallest(@, m.nfree),
                           !.heap = @ - (m.nfree - Smallest(m.inl, m.nfree))]

get_free_node(m) ==
  [m EXCEPT !.free = Tail(@), !.fsize = @ - Size[Head(m.free)], !.fnodes = @ - 1]
put_free_node(m, b) ==
  [m EXCEPT !.free = <<b>> \o @, !.fsize = @ + Size[b], !.fnodes = @ + 1]

add_buff(m, b) == put_free_node(node_get(m), b)
\* get_free_buff() of an mbuff that has one
get_free_buff(m) == node_put(get_free_node(m))

append_avail_size(m) == m.fsize + (IF m.list = <<>> THEN 0 ELSE append_space(Last(m.list)))
get_total_size(m) ==
  m.fsize + m.valid
    + (IF m.list = <<>> THEN 0 ELSE Size[Head(m.list).b] - Head(m.list).len)
    + (IF Len(m.list) < 2 THEN 0 ELSE Size[Last(m.list).b] - Last(m.list).len)

-----------------------------------------------------------------------------
(* Appending and prepending.  The function the caller passes is given a     *)
(* chunk, writes what remains of its data and says how much that was; it is  *)
(* called again as long as it fills its chunks, and so a new node may be     *)
(* linked and stay empty.                                                    *)

\* append_prepare(), when a node with space exists or can be made
append_prepare(m) ==
  IF m.list # <<>> /\ append_space(Last(m.list)) > 0 THEN m
  ELSE [get_free_node(m) EXCEPT !.list = Append(@, [b |-> Head(m.free), off |-> 0, len |-> 0])]

\* put_append_chunk() and append_finalize()
append_finalize(m, n) ==
  [m EXCEPT !.list[Len(m.list)].len = @ + n, !.valid = @ + n]

prepend_prepare(m) ==
  IF m.list # <<>> /\ prepend_space(Head(m.list)) > 0 THEN m
  ELSE [get_free_node(m) EXCEPT !.list = <<[b |-> Head(m.free), off |-> 0, len |-> 0]>> \o @]

\* Defect: the first data of a node are put at its beginning
prepend_finalize_Front(m, n) ==
  LET h == Head(m.list)
      e == IF h.off = 0 /\ h.len = 0 THEN [h EXCEPT !.len = n]
           ELSE [h EXCEPT !.off = @ - n, !.len = @ + n]
  IN [m EXCEPT !.list[1] = e, !.valid = @ + n]

\* put_prepend_chunk() and prepend_finalize()
prepend_finalize(m, n) ==
  LET h == Head(m.list)
      e == IF h.off = 0 /\ h.len = 0 THEN [h EXCEPT !.off = Size[h.b] - n, !.len = n]
           ELSE [h EXCEPT !.off = @ - n, !.len = @ + n]
  IN [m EXCEPT !.list[1] = e, !.valid = @ + n]

\* The buffer's content c, with the bytes d put at offset o
Overwrite(c, o, d) == [i \in DOMAIN c |-> IF i - o \in DOMAIN d THEN d[i - o] ELSE c[i]]

\* One turn of append(f): x has the mbuff, the memory, the bytes copied so
\* far, the chunks given out and whether the loop has ended
AppendTurn(x, d, iov) ==
  IF x.end \/ (x.m.free = <<>> /\ (x.m.list = <<>> \/ append_space(Last(x.m.list)) = 0))
    THEN [x EXCEPT !.end = TRUE]
    ELSE LET m == append_prepare(x.m)
             t == Last(m.list)
             avail == append_space(t)
             cp == IF x.iov = iov THEN 0 ELSE Smallest(Len(d) - x.copied, avail)
         IN [m |-> append_finalize(m, cp), copied |-> x.copied + cp, iov |-> x.iov + 1, end |-> cp < avail,
             mem |-> [x.mem EXCEPT ![t.b] = Overwrite(@, t.off + t.len, SubSeq(d, x.copied + 1, x.copied + cp))]]

PrependTurn(x, d) ==
  IF x.end \/ (x.m.free = <<>> /\ (x.m.list = <<>> \/ prepend_space(Head(x.m.list)) = 0))
    THEN [x EXCEPT !.end = TRUE]
    ELSE LET m == prepend_prepare(x.m)
             h == Head(m.list)
             avail == prepend_space(h)
             left == Len(d) - x.copied
             cp == Smallest(left, avail)
         IN [m |-> prepend_finalize(m, cp), copied |-> x.copied + cp, iov |-> x.iov + 1, end |-> cp < avail,
             mem |-> [x.mem EXCEPT ![h.b] = Overwrite(@, avail - cp, SubSeq(d, left - cp + 1, left))]]

\* The turns are at most one per buffer and one more
Turns(m) == [i \in 1 .. Len(m.free) + 2 |-> i]
Start(m) == [m |-> m, mem |-> mem, copied |-> 0, iov |-> 0, end |-> FALSE]
prepend_from_buffer(m, d) == FoldLeft(LAMBDA x, i : PrependTurn(x, d), Start(m), Turns(m))

\* fill_iovec_append(), which gives out at most iov chunks, and what is read
\* into them afterwards
fill_iovec_append(m, d, iov) == FoldLeft(LAMBDA x, i : AppendTurn(x, d, iov), Start(m), Turns(m))
\* append_from_buffer(), and append_uninitialized() with what is written later
append_from_buffer(m, d) == fill_iovec_append(m, d, Len(m.free) + 2)

-----------------------------------------------------------------------------
(* reslice() and reset() *)

FreeNodes(m, nodes) == FoldLeft(LAMBDA a, n : put_free_node(a, n.b), m, nodes)

\* The bytes of the first i nodes
Before(m, i) == FoldLeft(LAMBDA acc, n : acc + n.len, 0, SubSeq(m.list, 1, i))

\* reslice(len, off) that does not fail
reslice(m, len, off) ==
  IF len = 0
    THEN [FreeNodes(m, m.list) EXCEPT !.list = <<>>, !.valid = 0]
    ELSE LET k == Max({i \in 0 .. Len(m.list) : i = 0 \/ (Before(m, i - 1) < off /\ Before(m, i) <= off)})
             cut == off - Before(m, k)
             head == [m.list[k + 1] EXCEPT !.off = @ + cut, !.len = @ - cut]
             rest == <<head>> \o SubSeq(m.list, k + 2, Len(m.list))
             a == [FreeNodes(m, SubSeq(m.list, 1, k)) EXCEPT !.list = rest]
             j == Min({i \in DOMAIN rest : Before(a, i) >= len})
             last == [rest[j] EXCEPT !.len = len - Before(a, j - 1)]
         IN [FreeNodes(a, SubSeq(rest, j + 1, Len(rest))) EXCEPT
               !.list = Append(SubSeq(rest, 1, j - 1), last), !.valid = len]

\* The bytes move_free_buffs_to() moves when the caller gives no bound
ALL == Total(Size, Buffers)

\* move_free_buffs_to(), which stops once max bytes have been moved
MoveFree(m, to, max) ==
  FoldLeft(LAMBDA a, b : IF a.moved >= max /\ a.moved > 0 THEN a
                         ELSE [src |-> get_free_buff(a.src), dst |-> add_buff(a.dst, b),
                               moved |-> a.moved + Size[b]],
           [src |-> m, dst |-> to, moved |-> 0], m.free)

\* reset(): every buffer is freed; mb_valid_size_ is left as it was
reset(m) ==
  LET nodes == Len(m.list) + Len(m.free)
  IN node_reset([m EXCEPT !.list = <<>>, !.free = <<>>, !.fsize = 0, !.fnodes = 0, !.nfree = @ + nodes])

-----------------------------------------------------------------------------
(* Iterators *)

\* find_node(): the first node that reaches beyond off
find_node(m, off) == Min({i \in DOMAIN m.list : Before(m, i) > off})

\* The chunks do_initialize_iterator() and next() give, as triples of a
\* buffer, an offset in it and a length: next() ends when nothing is left
Chunks(m, off, len) ==
  LET first == find_node(m, off)
      skip(i) == IF i = first THEN off - Before(m, first - 1) ELSE 0
      left[i \in first - 1 .. Len(m.list)] ==
        IF i = first - 1 THEN len ELSE left[i - 1] - Smallest(left[i - 1], m.list[i].len - skip(i))
      last == Min({i \in first .. Len(m.list) : left[i] = 0})
  IN [j \in 1 .. last - first + 1 |->
        LET i == first + j - 1
        IN [b |-> m.list[i].b, off |-> m.list[i].off + skip(i), len |-> left[i - 1] - left[i]]]

iterate_valid_init(m, off, len) ==
  IF len = 0 THEN <<>> ELSE Chunks(m, off, len)
iterate_valid_partial_init(m, off, len) ==
  iterate_valid_init(m, off, Smallest(len, m.valid - off))

BytesOf(c) == SubSeq(mem[c.b], c.off + 1, c.off + c.len)
Concat(cs) == FlattenSeq([i \in DOMAIN cs |-> BytesOf(cs[i])])
copy_to_buffer(m, off, len) == Concat(iterate_valid_partial_init(m, off, len))
\* What the socket is given, chunk by chunk
send(m, off, len) == Concat(iterate_valid_init(m, off, len))

\* mem_compare_buffer(): chunk after chunk with the part of the buffer at its place
mem_compare_buffer(m, off, d) ==
  LET cs == iterate_valid_init(m, off, Len(d))
      at(i) == FoldLeft(LAMBDA acc, c : acc + c.len, 0, SubSeq(cs, 1, i - 1))
  IN \A i \in DOMAIN cs : BytesOf(cs[i]) = SubSeq(d, at(i) + 1, at(i) + cs[i].len)

\* mem_compare(): two iterators, advanced by the shorter rest of their chunks
CompareTurn(x, c, d) ==
  IF x.res # "going" THEN x
  ELSE LET n == Smallest(c[x.i].len - x.o, d[x.j].len - x.p)
           same == SubSeq(BytesOf(c[x.i]), x.o + 1, x.o + n) = SubSeq(BytesOf(d[x.j]), x.p + 1, x.p + n)
           ci == x.o + n = c[x.i].len
           dj == x.p + n = d[x.j].len
       IN [i |-> IF ci THEN x.i + 1 ELSE x.i, o |-> IF ci THEN 0 ELSE x.o + n,
           j |-> IF dj THEN x.j + 1 ELSE x.j, p |-> IF dj THEN 0 ELSE x.p + n,
           n |-> x.n - n,
           res |-> IF ~same THEN "differ" ELSE IF x.n = n THEN "match" ELSE "going"]
mem_compare(m1, off1, m2, off2, len) ==
  LET c == iterate_valid_init(m1, off1, len)
      d == iterate_valid_init(m2, off2, len)
  IN FoldLeft(LAMBDA x, i : CompareTurn(x, c, d),
              [i |-> 1, o |-> 0, j |-> 1, p |-> 0, n |-> len, res |-> "going"],
              [i \in 1 .. Len(c) + Len(d) |-> i]).res = "match"

-----------------------------------------------------------------------------

Init ==
  /\ mb = [m \in Mbuffs |-> Empty]
  /\ mem = [b \in Buffers |-> [i \in 1 .. Size[b] |-> Fill]]
  /\ own = [m \in Mbuffs |-> "none"]
  /\ cache = [q \in Private \cup {"shared"} |-> <<>>]
  /\ bytes = [m \in Mbuffs |-> <<>>]
  /\ call = [m \in Mbuffs |-> "none"]
  /\ writes = 0

\* What lies outside the valid areas is never read: it is forgotten
Forget(ms, c) ==
  LET cover(b) == {n \in UNION {Range(ms[m].list) : m \in Mbuffs} : n.b = b}
  IN [b \in Buffers |-> [i \in 1 .. Size[b] |->
        IF \E n \in cover(b) : i \in n.off + 1 .. n.off + n.len THEN c[b][i] ELSE Fill]]

Held(m) == own[m] \in Threads /\ call[m] = "none"
Write(m) == Held(m) /\ writes < MaxWrites /\ writes' = writes + 1
Unused == Buffers \ UNION {{n.b : n \in Range(mb[m].list)} \cup Range(mb[m].free) : m \in Mbuffs}

CacheOf(t) == IF t \in Private THEN t ELSE "shared"

\* MbuffCache::mb_get(): a cached mbuff, or one that is made
mb_get(t) ==
  LET q == CacheOf(t)
  IN /\ IF cache[q] # <<>>
          THEN /\ own' = [own EXCEPT ![Head(cache[q])] = t]
               /\ cache' = [cache EXCEPT ![q] = Tail(@)]
               /\ UNCHANGED mb
          ELSE \E m \in Mbuffs : /\ own[m] = "none" /\ own' = [own EXCEPT ![m] = t]
                                 /\ mb' = [mb EXCEPT ![m] = Empty]
                                 /\ UNCHANGED cache
     /\ UNCHANGED <<mem, bytes, call, writes>>

\* Defect: the mbuff is cached with its data
mb_put_Dirty(t, m) ==
  /\ own[m] = t /\ call[m] \in {"none", "ret"}
  /\ own' = [own EXCEPT ![m] = "cached"]
  /\ cache' = [cache EXCEPT ![CacheOf(t)] = <<m>> \o @]
  /\ bytes' = [bytes EXCEPT ![m] = <<>>]
  /\ call' = [call EXCEPT ![m] = "none"]
  /\ UNCHANGED <<mb, mem, writes>>

mb_put(t, m) ==
  /\ own[m] = t /\ call[m] \in {"none", "ret"}
  /\ call' = [call EXCEPT ![m] = "none"]
  /\ mb' = [mb EXCEPT ![m] = reslice(@, 0, 0)]
  /\ own' = [own EXCEPT ![m] = "cached"]
  /\ cache' = [cache EXCEPT ![CacheOf(t)] = <<m>> \o @]
  /\ bytes' = [bytes EXCEPT ![m] = <<>>]
  /\ mem' = Forget(mb', mem) /\ UNCHANGED writes

\* MbuffAllocIO::mbuff_add_buffers(): nothing to do, or a buffer is allocated
mbuff_add_buffers(m, s) ==
  /\ Held(m) /\ mb[m].fsize < s
  /\ \E b \in Unused : /\ Size[b] = align_up(s - mb[m].fsize, Align)
                       /\ mb' = [mb EXCEPT ![m] = add_buff(@, b)]
  /\ UNCHANGED <<mem, own, cache, bytes, call, writes>>

\* mbuff_free_buffers(): all its callers destroy the mbuff afterwards
mbuff_free_buffers(m) ==
  /\ Held(m) /\ mb[m].list # <<>>
  /\ mb' = [mb EXCEPT ![m] = reset(@)]
  /\ bytes' = [bytes EXCEPT ![m] = <<>>]
  /\ own' = [own EXCEPT ![m] = "none"]
  /\ mem' = Forget(mb', mem) /\ UNCHANGED <<cache, call, writes>>

Append_(m, d) ==
  /\ Write(m)
  /\ LET x == append_from_buffer(mb[m], d)
     IN /\ mb' = [mb EXCEPT ![m] = x.m] /\ mem' = Forget(mb', x.mem)
        /\ bytes' = [bytes EXCEPT ![m] = @ \o SubSeq(d, 1, x.copied)]
  /\ UNCHANGED <<own, cache, call>>

Prepend(m, d) ==
  /\ Write(m)
  /\ LET x == prepend_from_buffer(mb[m], d)
     IN /\ mb' = [mb EXCEPT ![m] = x.m] /\ mem' = Forget(mb', x.mem)
        /\ bytes' = [bytes EXCEPT ![m] = SubSeq(d, Len(d) - x.copied + 1, Len(d)) \o @]
  /\ UNCHANGED <<own, cache, call>>

\* append_zero(n)
append_val(m, n) == Append_(m, [i \in 1 .. n |-> Fill])

\* recv_request(): all the free space is handed out, as far as Iov chunks
\* reach, the bytes d are received and the rest is cut off again
recv_request(m, d) ==
  /\ Write(m) /\ Len(d) <= append_avail_size(mb[m])
  /\ LET room == append_avail_size(mb[m])
         x == fill_iovec_append(mb[m], d \o [i \in 1 .. room - Len(d) |-> Fill], Iov)
     IN /\ Len(d) <= x.copied
        /\ mb' = [mb EXCEPT ![m] = reslice(x.m, mb[m].valid + Len(d), 0)]
        /\ mem' = Forget(mb', x.mem)
        /\ bytes' = [bytes EXCEPT ![m] = @ \o d]
  /\ UNCHANGED <<own, cache, call>>

\* append_recv(): the peer sends n of the bytes expected, and the connection
\* ends if that is not all
append_recv(m, d, n) ==
  /\ append_avail_size(mb[m]) >= Len(d)
  /\ Append_(m, SubSeq(d, 1, n))

Reslice(m, len, off) ==
  /\ Held(m) /\ off + len <= mb[m].valid
  /\ mb' = [mb EXCEPT ![m] = reslice(@, len, off)]
  /\ bytes' = [bytes EXCEPT ![m] = IF len = 0 THEN <<>> ELSE SubSeq(@, off + 1, off + len)]
  /\ mem' = Forget(mb', mem) /\ UNCHANGED <<own, cache, call, writes>>

\* append_from_mbuff(): chunk by chunk
append_from_mbuff(m, from, off, len) ==
  /\ Write(m) /\ own[from] = own[m] /\ m # from /\ len > 0 /\ off + len <= mb[from].valid
  /\ LET cs == iterate_valid_init(mb[from], off, len)
         x == FoldLeft(LAMBDA a, c : FoldLeft(LAMBDA y, i : AppendTurn(y, BytesOf(c), Cardinality(Buffers) + 2),
                                              [a EXCEPT !.copied = 0, !.iov = 0, !.end = FALSE], Turns(mb[m])),
                       Start(mb[m]), cs)
     IN /\ append_avail_size(mb[m]) >= len
        /\ mb' = [mb EXCEPT ![m] = x.m] /\ mem' = Forget(mb', x.mem)
        /\ bytes' = [bytes EXCEPT ![m] = @ \o SubSeq(bytes[from], off + 1, off + len)]
  /\ UNCHANGED <<own, cache, call>>

move_free_buffs_to(m, to, max) ==
  /\ Held(m) /\ own[to] = own[m] /\ m # to /\ mb[m].free # <<>>
  /\ LET x == MoveFree(mb[m], mb[to], max)
     IN mb' = [mb EXCEPT ![m] = x.src, ![to] = x.dst]
  /\ UNCHANGED <<mem, own, cache, bytes, call, writes>>

-----------------------------------------------------------------------------
(* The store's interface for keys and values in plain buffers.  An mbuff is  *)
(* taken from the cache (mb_get) and given back (mb_put) when the call ends. *)

\* Bound: the length of the keys
KeyLen == 1

Hdr == [i \in 1 .. Prefix |-> "h"]
Ftr == [i \in 1 .. Suffix |-> "f"]
Pad(n) == [i \in 1 .. n |-> Fill]

BuffersOf(m) == {n.b : n \in Range(m.list)} \cup Range(m.free)
\* The mbuffs that mbuff_add_buffers(m, s) may give, while the call's other
\* mbuff has the buffers used
Enough(m, s, used) ==
  LET fit == {b \in Unused \ (BuffersOf(m) \cup used) : Size[b] = align_up(s - m.fsize, Align)}
  IN IF m.fsize >= s \/ fit = {} THEN {m} ELSE {add_buff(m, b) : b \in fit}

Again(x) == [x EXCEPT !.copied = 0, !.iov = 0, !.end = FALSE]
AppendMore(x, d) ==
  FoldLeft(LAMBDA y, i : AppendTurn(y, d, Cardinality(Buffers) + 2), Again(x),
           [i \in 1 .. Cardinality(Buffers) + 2 |-> i])

\* One chunk only.  A function that does not find it as it should be writes
\* nothing, and nothing is what is prepended or appended
append_inline(x, d) ==
  IF x.m.list = <<>> \/ append_space(Last(x.m.list)) < Len(d) THEN <<FALSE, x>>
  ELSE <<TRUE, AppendTurn(Again(x), d, 1)>>
prepend_inline(x, d) ==
  IF x.m.list = <<>> \/ prepend_space(Head(x.m.list)) = 0 THEN <<FALSE, x>>
  ELSE IF prepend_space(Head(x.m.list)) # Len(d) THEN <<FALSE, [x EXCEPT !.m = prepend_finalize(@, 0)]>>
  ELSE <<TRUE, PrependTurn(Again(x), d)>>

\* Header and footer: the footer is appended even if there is no place for the
\* header.  The result says which of the two are there
mbuff_prepend_append_md(x) ==
  LET p == prepend_inline(x, Hdr)
      a == append_inline(p[2], Ftr)
  IN [hdr |-> p[1], ftr |-> a[1], x |-> a[2]]

\* The space asked for is what is missing, though the callee takes it for the
\* space that is to be there
mbuff_append_padding(x, n, used) ==
  {IF append_avail_size(m) < n THEN <<FALSE, [x EXCEPT !.m = m]>>
   ELSE <<TRUE, AppendMore([x EXCEPT !.m = m], Pad(n))>> :
     m \in IF append_avail_size(x.m) < n THEN Enough(x.m, n - x.m.fsize, used) ELSE {x.m}}

Padding(n) == align_up(n, Grain) - n

\* The call on mbuff m goes on with x and the bytes d
CallStep(m, x, d, c) ==
  /\ mb' = [mb EXCEPT ![m] = x.m] /\ mem' = Forget(mb', x.mem)
  /\ bytes' = [bytes EXCEPT ![m] = d]
  /\ call' = [call EXCEPT ![m] = c]
  /\ UNCHANGED cache

\* reslice(len, off), which changes nothing when there is not as much
Resliced(m, len, off) == IF off + len <= m.valid THEN reslice(m, len, off) ELSE m
ReslicedBytes(d, len, off) == IF off + len <= Len(d) THEN SubSeq(d, off + 1, off + len) ELSE d

\* The temporary mbuff t of a lookup: it reads the beginning of a record, n
\* bytes, or finds no entry to read, or gets no buffer for it
LookedUp(t, n, used) ==
  {t} \cup {IF a.fsize < n THEN a ELSE AppendMore(Start(a), Pad(n)).m : a \in Enough(t, n, used)}
GiveBack(t, m) == MoveFree(reslice(t, 0, 0), m, ALL).dst

Fresh(m, op) == op \in ApiOps /\ Write(m) /\ mb[m].list = <<>>

\* put() of key and value: the space of the header is appended, and cut off again
ApiPut(m, k, v) ==
  LET total == Prefix + Len(k) + Len(v) + Suffix
  IN /\ Fresh(m, "put") /\ UNCHANGED own
     /\ \E a \in Enough(mb[m], total, {}) :
          LET x == AppendMore(AppendMore(AppendMore(Start(a), Hdr), k), v)
          IN IF a.fsize < total THEN CallStep(m, Start(a), <<>>, "ret")
             ELSE CallStep(m, [x EXCEPT !.m = reslice(@, Len(k \o v), Prefix)], k \o v, "kv")

\* put() of an mbuff that its user has filled
ApiPutMbuff(m) ==
  /\ "put" \in ApiOps /\ Held(m) /\ bytes[m] # <<>>
  /\ call' = [call EXCEPT ![m] = "kv"] /\ UNCHANGED <<mb, mem, own, cache, bytes, writes>>

\* local_put_mbuff_io(): header, footer and padding.  If one of them fails,
\* put() cuts the mbuff as if they were there, and returns
PutIo(m) ==
  LET size == Len(bytes[m])
      w == mbuff_prepend_append_md(Start(mb[m]))
      d == (IF w.hdr THEN Hdr ELSE <<>>) \o bytes[m] \o (IF w.ftr THEN Ftr ELSE <<>>)
      pad == Padding(Prefix + size + Suffix)
      Fail(x) == CallStep(m, [x EXCEPT !.m = Resliced(@, size, Prefix)], ReslicedBytes(d, size, Prefix), "ret")
  IN /\ call[m] = "kv" /\ UNCHANGED <<own, writes>>
     /\ IF ~(w.hdr /\ w.ftr) THEN Fail(w.x)
        ELSE \E y \in mbuff_append_padding(w.x, pad, {}) :
               IF y[1] THEN CallStep(m, y[2], d \o Pad(pad), "io") ELSE Fail(y[2])

\* The record is written: the mbuff is cut back to key and value and lends its
\* free buffers to the lookup; the call ends or tries another place
PutDone(m) ==
  LET size == Min({i \in DOMAIN bytes[m] : bytes[m][i] = "f"}) - Prefix - 1
      cut == reslice(mb[m], size, Prefix)
      n == align_up(Prefix + KeyLen, Sector)
      l == MoveFree(cut, Empty, n)
  IN /\ call[m] = "io" /\ UNCHANGED <<own, writes>>
     /\ \E t \in LookedUp(l.dst, n, BuffersOf(cut)), c \in {"ret", "kv"} :
          CallStep(m, [Start(mb[m]) EXCEPT !.m = GiveBack(t, l.src)], SubSeq(bytes[m], Prefix + 1, Prefix + size), c)

\* get(): the record is read into a second mbuff, which keeps its value
ApiGet(m, o, k, v) ==
  LET r == Hdr \o k \o v \o Ftr
      io == Len(r) + Padding(Len(r))
  IN /\ Fresh(m, "get") /\ Held(o) /\ own[o] = own[m] /\ o # m /\ mb[o].list = <<>>
     /\ UNCHANGED <<own, cache>>
     /\ \E b \in Enough(mb[m], Len(k), {}) : \E a \in Enough(mb[o], io, BuffersOf(b)) :
          LET x == append_from_buffer(b, k)
              y == AppendMore([x EXCEPT !.m = a], r \o Pad(Padding(Len(r))))
              key == b.fsize >= Len(k)
              val == key /\ a.fsize >= io
          IN /\ mb' = [mb EXCEPT ![m] = IF key THEN x.m ELSE b,
                                 ![o] = IF val THEN reslice(y.m, Len(v), Prefix + Len(k)) ELSE IF key THEN a ELSE @]
             /\ mem' = Forget(mb', y.mem)
             /\ bytes' = [bytes EXCEPT ![m] = IF key THEN k ELSE <<>>, ![o] = IF val THEN v ELSE <<>>]
             /\ call' = [call EXCEPT ![m] = "ret", ![o] = "ret"]

\* del(): free buffers of the key's mbuff serve to read the record and then to
\* write the tombstone, in a temporary mbuff o, and come back.  The tombstone is
\* the key, cut out of what was read, between a header and a footer
ApiDel(m, o, k) ==
  LET n == align_up(Prefix + Len(k), Sector)
      io == Prefix + Len(k) + Suffix
  IN /\ Fresh(m, "del") /\ own[o] = "none"
     /\ \E a \in Enough(mb[m], Len(k), {}) :
          LET x == append_from_buffer(a, k)
              l == MoveFree(x.m, Empty, align_up(io, Sector))
              Ends(t) == CallStep(m, [x EXCEPT !.m = GiveBack(t, l.src)], k, "ret") /\ UNCHANGED own
          IN IF a.fsize < Len(k) THEN CallStep(m, Start(a), <<>>, "ret") /\ UNCHANGED own
             ELSE \/ \E t \in LookedUp(l.dst, n, BuffersOf(x.m)) : Ends(t)
                  \/ \E t \in Enough(l.dst, n, BuffersOf(x.m)) :
                       LET read == AppendMore([x EXCEPT !.m = t], Hdr \o k \o Pad(n - Prefix - Len(k)))
                           w == mbuff_prepend_append_md([read EXCEPT !.m = reslice(@, Len(k), Prefix)])
                       IN /\ t.fsize >= n
                          /\ IF ~(w.hdr /\ w.ftr) THEN Ends(w.x.m)
                             ELSE \E y \in mbuff_append_padding(w.x, Padding(io), BuffersOf(l.src)) :
                                    IF ~y[1] THEN Ends(y[2].m)
                                    ELSE /\ mb' = [mb EXCEPT ![m] = l.src, ![o] = y[2].m]
                                         /\ mem' = Forget(mb', y[2].mem)
                                         /\ bytes' = [bytes EXCEPT ![m] = k, ![o] = Hdr \o k \o Ftr \o Pad(Padding(io))]
                                         /\ call' = [call EXCEPT ![m] = "del", ![o] = "del"]
                                         /\ own' = [own EXCEPT ![o] = own[m]] /\ UNCHANGED cache

\* The tombstone is written, and the temporary mbuff is destroyed
DelDone(m, o) ==
  /\ call[m] = "del" /\ call[o] = "del" /\ own[o] = own[m] /\ o # m
  /\ ~IsPrefix(Hdr, bytes[m]) /\ IsPrefix(Hdr, bytes[o])
  /\ mb' = [mb EXCEPT ![m] = GiveBack(mb[o], @), ![o] = Empty]
  /\ mem' = Forget(mb', mem)
  /\ bytes' = [bytes EXCEPT ![o] = <<>>]
  /\ call' = [call EXCEPT ![m] = "ret", ![o] = "none"]
  /\ own' = [own EXCEPT ![o] = "none"] /\ UNCHANGED <<cache, writes>>

\* exists(): the key is copied into an mbuff just taken
ApiExists(m, k) ==
  /\ Fresh(m, "exists") /\ UNCHANGED own
  /\ \E a \in Enough(mb[m], Len(k), {}) :
       IF a.fsize < Len(k) THEN CallStep(m, Start(a), <<>>, "ret")
       ELSE CallStep(m, append_from_buffer(a, k), k, "ret")

-----------------------------------------------------------------------------

Lengths == {Len(d) : d \in Data}
ApiKeys == {d \in Data : Len(d) = KeyLen}
ApiVals == {d \in Data : Len(d) <= 1}

CacheStep ==
  \/ \E t \in Threads : mb_get(t)
  \/ \E t \in Threads, m \in Mbuffs : mb_put(t, m)

UserStep ==
  \E m \in Mbuffs :
     \/ \E s \in Lengths : mbuff_add_buffers(m, s) \/ append_val(m, s)
     \/ mbuff_free_buffers(m)
     \/ \E d \in Data : Append_(m, d) \/ Prepend(m, d) \/ recv_request(m, d)
     \/ \E d \in Data : \E n \in {1, Len(d)} \cap (0 .. Len(d)) : append_recv(m, d, n)
     \/ \E len, off \in 0 .. mb[m].valid : Reslice(m, len, off)
     \/ \E o \in Mbuffs : \/ \E max \in {0, 1, Align + 1} : move_free_buffs_to(m, o, max)
                          \/ \E len, off \in 0 .. mb[o].valid : append_from_mbuff(m, o, off, len)

ApiStep ==
  \E m \in Mbuffs :
     \/ ApiPutMbuff(m) \/ PutIo(m) \/ PutDone(m)
     \/ \E o \in Mbuffs : DelDone(m, o)
     \/ \E k \in ApiKeys : ApiExists(m, k) \/ \E o \in Mbuffs : ApiDel(m, o, k)
     \/ \E k \in ApiKeys, v \in ApiVals : ApiPut(m, k, v) \/ \E o \in Mbuffs : ApiGet(m, o, k, v)

Next == CacheStep \/ UserStep \/ ApiStep

Spec == Init /\ [][Next]_vars

-----------------------------------------------------------------------------

\* The mbuff reads back what its user put there, at every offset and in every
\* length, however its data lie in the buffers, and comparing it with the
\* bytes or with another mbuff says whether they are equal
ReadBack ==
  \A m \in {i \in Mbuffs : own[i] # "none"} :
     /\ mb[m].valid = Len(bytes[m])
     /\ \A off \in 0 .. Len(bytes[m]) : \A len \in 0 .. Len(bytes[m]) + 1 - off :
          /\ copy_to_buffer(mb[m], off, len)
               = SubSeq(bytes[m], off + 1, Smallest(off + len, Len(bytes[m])))
          /\ off + len <= Len(bytes[m]) =>
               /\ send(mb[m], off, len) = SubSeq(bytes[m], off + 1, off + len)
               /\ mem_compare_buffer(mb[m], off, SubSeq(bytes[m], off + 1, off + len))

\* mem_compare() tells equal keys from different ones, wherever their chunks end
CompareExact ==
  \A m, o \in Mbuffs : \A a \in 0 .. Len(bytes[m]), b \in 0 .. Len(bytes[o]), n \in 1 .. Max(Lengths) :
     m # o /\ a + n <= Len(bytes[m]) /\ b + n <= Len(bytes[o]) =>
       (mem_compare(mb[m], a, mb[o], b, n)
          <=> SubSeq(bytes[m], a + 1, a + n) = SubSeq(bytes[o], b + 1, b + n))

\* What was put into an mbuff is what is copied, sent and compared.
ContentKept == ReadBack /\ CompareExact

\* Every buffer is in one place: in one list of one mbuff, once, or with
\* nobody; only the head has an offset and only the tail has room, and the
\* sizes kept are those of the lists.  A node without data is as it was made,
\* except the one that a prepend links when it has just filled the head: its
\* offset is its end, which the assertion of prepend_space() does not allow
\* for, and the next prepend of a debug build stops there.  An mbuff is one
\* thread's or in one cache, a cached one holds no data of its last user, and
\* one that is destroyed holds no buffer.
BuffersAccounted ==
  /\ \A b \in Buffers :
       Cardinality({<<m, i>> \in Mbuffs \X (1 .. Cardinality(Buffers)) :
                      i \in DOMAIN mb[m].list /\ mb[m].list[i].b = b})
         + Cardinality({<<m, i>> \in Mbuffs \X (1 .. Cardinality(Buffers)) :
                      i \in DOMAIN mb[m].free /\ mb[m].free[i] = b}) <= 1
  /\ \A m \in {i \in Mbuffs : own[i] # "none"} :
       /\ mb[m].fsize = Total(Size, Range(mb[m].free)) /\ mb[m].fnodes = Len(mb[m].free)
       /\ get_total_size(mb[m])
            = mb[m].fsize + Total(Size, {n.b : n \in Range(mb[m].list)})
       /\ mb[m].inl + mb[m].heap = mb[m].nfree + Len(mb[m].list) + Len(mb[m].free)
       /\ \A i \in DOMAIN mb[m].list :
            LET n == mb[m].list[i]
            IN /\ i # 1 => n.off = 0
               /\ i # Len(mb[m].list) => append_space(n) = 0
               /\ n.len = 0 => n.off = 0 \/ (i = 1 /\ n.off = Size[n.b])
  /\ \A q, p \in DOMAIN cache : q # p => Range(cache[q]) \cap Range(cache[p]) = {}
  /\ \A q \in DOMAIN cache : IsInjective(cache[q])
  /\ \A m \in Mbuffs : own[m] = "cached" <=> \E q \in DOMAIN cache : m \in Range(cache[q])
  /\ \A m \in Mbuffs : own[m] = "cached" => mb[m].valid = 0 /\ mb[m].list = <<>>
  /\ \A m \in Mbuffs : own[m] = "none" => BuffersOf(mb[m]) = {}

=============================================================================
