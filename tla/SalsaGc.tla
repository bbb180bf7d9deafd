------------------------------ MODULE SalsaGc ------------------------------
(***************************************************************************)
(* The garbage collector of SALSA and the queues it lives on: the free     *)
(* segments and the ones kept for relocation, the bins in which destaged   *)
(* segments wait by their number of valid grains, and the queue in which   *)
(* the XNP collectors let segments age.  Clients that invalidate grains,   *)
(* the threads that destage segments and the collector's threads move      *)
(* segments between these lists; what one of them does under the spin lock *)
(* of a segment is one step, what it does between two of them is not.      *)
(*                                                                         *)
(* No caller of the build sets is_reloc or stream of a segment, so both    *)
(* are 0 and are left out, and the second XNP level is never filled.       *)
(***************************************************************************)
EXTENDS Naturals, Sequences, FiniteSets, SequencesExt, FiniteSetsExt

CONSTANTS
  Segs, NoSeg,
  Order,        \* the segments in the order of the device
  SegSize,      \* seg_size, in grains
  bin_nr,       \* gc_parameters.bin_nr
  Types,        \* collectors to choose from: gc_type
  low_watermark, high_watermark, \* gc_parameters, 0 for the default
  MIN_REL,      \* SALSA_MIN_REL_SEGMENTS
  xnp_circ_buf_len, xnp_max_capacity, \* queues of the PATENT collector and the segments in them
  xnp_thr,      \* length at which the XNP queue gives a segment up
  CHERRY_PICK,  \* XNP_CHERRY_PICK_THRESHOLD, in percent
  Clients, Gcs, \* threads
  RecordSizes,  \* grains of a record
  max_capacity, \* grains a client may use; relocation may use two segments more
  MaxWrites,    \* bound: segments that clients fill
  MaxErrors     \* bound: relocations that fail with an IO error

VARIABLES
  type,         \* gc->gc_type
  g,            \* segments, free queues and collector queues
  done,         \* done_fifo of the user's and of the relocation allocator
  open,         \* the segment relocation writes to, and its grains left
  th,           \* what each thread is doing
  live,         \* per segment, the grains that an entry names
  used,         \* used_capacity_
  writes,       \* segments filled by clients
  errs          \* relocations that failed

vars == <<type, g, done, open, th, live, used, writes, errs>>

\* Scm::has_enough_spare_segments(), for the streams of the store
EnoughSpareSegments(stream_nr) ==
  LET used_segs == (max_capacity + 2 * SegSize) \div SegSize
  IN Cardinality(Segs) >= used_segs + MIN_REL + stream_nr

\* gc_ctr(): watermarks that make no sense are replaced
GivenWatermarks == low_watermark >= 2 /\ high_watermark > low_watermark
LOW_WATERMARK == IF GivenWatermarks THEN low_watermark ELSE 2 * MIN_REL
HIGH_WATERMARK == IF GivenWatermarks THEN high_watermark ELSE LOW_WATERMARK + 2

ASSUME SalsaGcAssumption ==
  /\ NoSeg \notin Segs /\ Order \in [1 .. Cardinality(Segs) -> Segs] /\ Range(Order) = Segs
  /\ SegSize \in Nat \ {0} /\ bin_nr \in 1 .. SegSize
  /\ Types \subseteq {"NBIN", "3BIN", "DYN", "XNP", "OVRW", "INTRPT", "PATENT", "CIRCULAR", "GREEDY"}
  /\ low_watermark \in Nat /\ high_watermark \in Nat /\ xnp_thr > 1
  /\ xnp_circ_buf_len \in Nat \ {0} /\ xnp_max_capacity \in Nat
  /\ RecordSizes \subseteq 1 .. SegSize
  /\ EnoughSpareSegments(2)

Allocators == {"user", "reloc"}
Threads == Clients \cup Allocators \cup Gcs

\* states of a segment, and values of priv that are no bin
XNP_BIN_ID == bin_nr + 3
INVALID_PRIVATE_ID == bin_nr + 4
Fresh == [state |-> "FREE", priv |-> INVALID_PRIVATE_ID, valid |-> SegSize]

-----------------------------------------------------------------------------
(* The free queues *)

\* fill_queue(): the first segments of the device are kept for relocation
FilledQueues ==
  [seg |-> [s \in Segs |-> [Fresh EXCEPT !.state =
              IF s \in Range(SubSeq(Order, 1, MIN_REL)) THEN "FREE_REL" ELSE "FREE"]],
   relq |-> SubSeq(Order, 1, MIN_REL),
   freeq |-> SubSeq(Order, MIN_REL + 1, Len(Order)),
   fifo |-> [b \in 0 .. bin_nr + 2 |-> <<>>], wait |-> <<>>, bmap |-> {},
   circ |-> [i \in 0 .. xnp_circ_buf_len - 1 |-> <<>>], current |-> 0]

\* scm_put_free_seg(): relocation is served first
put_free_seg(q, s) ==
  IF Len(q.relq) < MIN_REL
    THEN [q EXCEPT !.seg[s] = [Fresh EXCEPT !.state = "FREE_REL"], !.relq = Append(@, s)]
    ELSE [q EXCEPT !.seg[s] = [Fresh EXCEPT !.state = "FREE"], !.freeq = Append(@, s)]

\* scm_get_free_seg() of a queue that is not empty, and what
\* allocator_allocate_segment() makes of the segment
get_free_seg(q, reloc) ==
  IF reloc
    THEN [q EXCEPT !.seg[Head(q.relq)].state = "LSA_ALLOCATOR", !.relq = Tail(@)]
    ELSE [q EXCEPT !.seg[Head(q.freeq)].state = "LSA_ALLOCATOR", !.freeq = Tail(@)]

free_qset == Len(g.freeq)
gc_check_start == free_qset <= LOW_WATERMARK
gc_check_continue == free_qset < HIGH_WATERMARK
gc_check_critical == free_qset <= 1

\* Scm::provision_grains(), which takes back what it added when it fails
MayProvision(len, reloc) ==
  /\ ~reloc => ~gc_check_critical
  /\ used + len <= max_capacity + (IF reloc THEN 2 * SegSize ELSE 0)

-----------------------------------------------------------------------------
(* Bins *)

bin_div == (SegSize \div bin_nr) + (IF SegSize % bin_nr = 0 THEN 0 ELSE 1)
IsBase == type \in {"CIRCULAR", "GREEDY"}
MED_BIN_THRESHOLD == (SegSize * 120) \div 400
HIGH_BIN_THRESHOLD == (SegSize * 180) \div 400

\* LOW_QUEUE, MED_QUEUE, HIGH_QUEUE
seg2bin_3BIN(nfree) ==
  IF nfree < MED_BIN_THRESHOLD THEN 0 ELSE IF nfree < HIGH_BIN_THRESHOLD THEN 1 ELSE 2

\* gc_salsa_n_seg2bin(): the last bin is for segments that are fully valid
seg2bin_OVRW(valid) == IF valid = SegSize THEN bin_nr ELSE valid \div bin_div

\* gc_salsa_init(): the thresholds of the bins grow strictly
threshold(b) ==
  IF b = bin_nr THEN SegSize
  ELSE IF b = bin_nr - 1 /\ SegSize <= (b + 1) * bin_div - 1 THEN SegSize - 1
  ELSE (b + 1) * bin_div - 1

find_right_bin(valid) ==
  Min({b \in 0 .. bin_nr - 1 : b = bin_nr - 1 \/ valid < threshold(b)})

seg2bin(valid) ==
  CASE type = "3BIN" -> seg2bin_3BIN(SegSize - valid)
    [] type = "OVRW" -> seg2bin_OVRW(valid)
    [] type = "DYN"  -> find_right_bin(valid)
    [] IsBase        -> 0
    [] OTHER         -> valid \div bin_div

rm_from_bin(q, s) == [q EXCEPT !.fifo[q.seg[s].priv] = Remove(@, s)]
add_to_bin(q, s, b) == [q EXCEPT !.fifo[b] = Append(@, s), !.seg[s].priv = b]
add_to_bin_head(q, s, b) == [q EXCEPT !.fifo[b] = <<s>> \o @, !.seg[s].priv = b]

rebin(q, s, b) == IF q.seg[s].priv = b THEN q ELSE add_to_bin(rm_from_bin(q, s), s, b)

\* The segment gc_xnp_pushone_popone() gives up when s joins the queue
Popped(q, s) == IF Len(q.wait) + 1 >= xnp_thr THEN Head(Append(q.wait, s)) ELSE NoSeg

\* gc_xnp_pushone_popone(), and the segment given up put into its bin, where
\* it is not yet active
pushone_popone(q, s) ==
  LET r == [q EXCEPT !.wait = Append(@, s), !.seg[s].state = "GC_XNP", !.seg[s].priv = XNP_BIN_ID]
      p == Popped(q, s)
  IN IF p = NoSeg THEN r ELSE add_to_bin([r EXCEPT !.wait = Remove(@, p)], p, seg2bin(r.seg[p].valid))

-----------------------------------------------------------------------------
(* Threads.  pc is where a thread is, s the segment it works on, v the     *)
(* number of valid grains it left there, n what it has to unprovision, l    *)
(* the segments it has drained.                                            *)

Idle == [pc |-> "idle", s |-> NoSeg, v |-> 0, n |-> 0, l |-> <<>>]

Init ==
  /\ type \in Types
  /\ g = FilledQueues
  /\ done = [a \in Allocators |-> <<>>]
  /\ open = [s |-> NoSeg, left |-> 0]
  /\ th = [t \in Threads |-> Idle]
  /\ live = [s \in Segs |-> 0]
  /\ used = 0 /\ writes = 0 /\ errs = 0

At(t, pc) == th[t].pc = pc
Goto(t, pc) == th' = [th EXCEPT ![t].pc = pc]
\* A collector that updates bins for others goes on with its loop
Return(t) == th' = [th EXCEPT ![t] = [Idle EXCEPT !.pc = IF t \in Gcs THEN "run" ELSE "idle"]]
\* Defect: the grains stay provisioned
ReturnUnprovision_Kept(t) == Return(t) /\ UNCHANGED used

\* Scm::invalidate_grains() ends with unprovision_grains()
ReturnUnprovision(t) == Return(t) /\ used' = used - th[t].n

\* A client fills a segment: provisioning, allocation of its grains, release
WriteSegment ==
  /\ MayProvision(SegSize, FALSE) /\ writes < MaxWrites
  /\ LET s == Head(g.freeq)
     IN /\ g' = get_free_seg(g, FALSE)
        /\ done' = [done EXCEPT !["user"] = Append(@, s)]
        /\ live' = [live EXCEPT ![s] = SegSize]
  /\ used' = used + SegSize /\ writes' = writes + 1
  /\ UNCHANGED <<type, open, th, errs>>

\* What becomes of a destaged segment: it is free, it goes into a bin, where
\* it has to be activated, or it ages, and another one may be given up for it
Recycle(s) == g' = put_free_seg(g, s) /\ UNCHANGED th
IntoBin(a, s, b) ==
  /\ g' = add_to_bin(g, s, b)
  /\ th' = [th EXCEPT ![a] = [Idle EXCEPT !.pc = "activate", !.s = s]]
IntoQueue(a, s) ==
  /\ g' = pushone_popone(g, s)
  /\ th' = IF Popped(g, s) = NoSeg THEN th
           ELSE [th EXCEPT ![a] = [Idle EXCEPT !.pc = "activate", !.s = Popped(g, s)]]

gc_base_seg_destaged(a, s) ==
  /\ IsBase
  /\ g' = [g EXCEPT !.fifo[0] = Append(@, s)]
  /\ UNCHANGED th

gc_salsa_seg_destaged(a, s) == type = "3BIN" /\ IntoBin(a, s, seg2bin(g.seg[s].valid))

gc_salsa_n_seg_destaged(a, s) ==
  /\ type = "NBIN"
  /\ IF g.seg[s].valid = 0 THEN Recycle(s) ELSE IntoBin(a, s, seg2bin(g.seg[s].valid))

gc_salsa_n_dyn_thr_seg_destaged(a, s) ==
  /\ type = "DYN"
  /\ IF g.seg[s].valid = 0 THEN Recycle(s) ELSE IntoBin(a, s, seg2bin(g.seg[s].valid))

gc_salsa_n_xnp_seg_destaged(a, s) ==
  /\ type \in {"XNP", "INTRPT"}
  /\ IF g.seg[s].valid = 0 THEN Recycle(s) ELSE IntoQueue(a, s)

\* A fully valid segment does not age before its first grain is invalidated
gc_salsa_n_xnp_ovrw_seg_destaged(a, s) ==
  /\ type = "OVRW"
  /\ IF g.seg[s].valid = 0 THEN Recycle(s)
     ELSE IF g.seg[s].valid = SegSize THEN IntoBin(a, s, seg2bin(SegSize))
     ELSE IntoQueue(a, s)

(* The PATENT collector: every destaged segment turns the ring of queues by *)
(* one, and the segments that waited a whole turn go into bins              *)

xnp_full == FoldFunction(LAMBDA q, n : Len(q) + n, 0, g.circ) >= xnp_max_capacity

\* gc_salsa_n_xnp_ovrw_pat_drain_queue(), under xnp_current_rwlock
pat_drain(q) ==
  LET i == (q.current + 1) % xnp_circ_buf_len
  IN [q EXCEPT !.current = i, !.circ[i] = <<>>]

pat_enqueue(q, s) == [q EXCEPT !.circ[q.current] = Append(@, s)]

gc_salsa_n_xnp_ovrw_pat_seg_destaged(a, s) ==
  /\ type = "PATENT"
  /\ IF g.seg[s].valid = 0 THEN Recycle(s)
     ELSE /\ g' = pat_drain(g)
          /\ th' = [th EXCEPT ![a] = [Idle EXCEPT !.s = s, !.l = g.circ[pat_drain(g).current],
                                      !.pc = IF g.seg[s].valid = SegSize \/ xnp_full
                                               THEN "drain" ELSE "draintoring"]]

\* gc_salsa_n_xnp_ovrw_pat_drain_next_queue_and_inc(): a drained segment goes
\* into its bin, and is activated there under its lock
PatDrained(a) ==
  /\ th[a].pc \in {"drain", "draintoring"} /\ th[a].l # <<>>
  /\ LET s == Head(th[a].l)
     IN g' = [add_to_bin(g, s, seg2bin(g.seg[s].valid)) EXCEPT !.seg[s].state = "GC"]
  /\ th' = [th EXCEPT ![a].l = Tail(@)]
  /\ UNCHANGED <<type, done, open, live, used, writes, errs>>

\* The destaged segment itself: into a bin, or into the ring
PatPlaced(a) ==
  /\ th[a].l = <<>>
  /\ \/ At(a, "drain") /\ IntoBin(a, th[a].s, seg2bin(g.seg[th[a].s].valid))
     \/ At(a, "draintoring") /\ g' = pat_enqueue(g, th[a].s) /\ Return(a)
  /\ UNCHANGED <<type, done, open, live, used, writes, errs>>

\* gc_seg_destaged(), by the thread of an allocator
Destage(a) ==
  /\ At(a, "idle") /\ done[a] # <<>>
  /\ LET s == Head(done[a])
     IN \/ gc_base_seg_destaged(a, s) \/ gc_salsa_seg_destaged(a, s)
        \/ gc_salsa_n_seg_destaged(a, s) \/ gc_salsa_n_dyn_thr_seg_destaged(a, s)
        \/ gc_salsa_n_xnp_seg_destaged(a, s) \/ gc_salsa_n_xnp_ovrw_seg_destaged(a, s)
        \/ gc_salsa_n_xnp_ovrw_pat_seg_destaged(a, s)
  /\ done' = [done EXCEPT ![a] = Tail(@)]
  /\ UNCHANGED <<type, open, live, used, writes, errs>>

\* gc_salsa_n_segment_locks_activate()
Activate(t) ==
  /\ At(t, "activate")
  /\ g' = [g EXCEPT !.seg[th[t].s].state = "GC"]
  /\ ReturnUnprovision(t)
  /\ UNCHANGED <<type, done, open, live, writes, errs>>

-----------------------------------------------------------------------------
(* Invalidation: gc_page_invalidate(), for a record no entry names any more *)

gc_base_page_invalidate(c, s, v) ==
  /\ IsBase
  /\ g' = [g EXCEPT !.seg[s].valid = v]
  /\ UNCHANGED th /\ used' = used - (g.seg[s].valid - v)

gc_salsa_n_xnp_intrpt_safe_page_invalidate(c, s, v) ==
  /\ type = "INTRPT"
  /\ g' = [g EXCEPT !.seg[s].valid = v, !.bmap = @ \cup {s}]
  /\ UNCHANGED th /\ used' = used - (g.seg[s].valid - v)

\* The others go on to look for the segment's bin
gc_salsa_n_page_invalidate(c, s, v) ==
  /\ ~IsBase /\ type # "INTRPT"
  /\ g' = [g EXCEPT !.seg[s].valid = v]
  /\ th' = [th EXCEPT ![c] = [Idle EXCEPT !.pc = IF type = "OVRW" THEN "look"
                                    ELSE IF type = "PATENT" /\ v = SegSize - 1 /\ ~xnp_full THEN "first"
                                    ELSE "lookup", !.s = s, !.v = v, !.n = g.seg[s].valid - v]]
  /\ UNCHANGED used

Invalidate(c, s, n) ==
  /\ At(c, "idle") /\ n <= live[s]
  /\ live' = [live EXCEPT ![s] = @ - n]
  /\ LET v == g.seg[s].valid - n
     IN \/ gc_base_page_invalidate(c, s, v) \/ gc_salsa_n_page_invalidate(c, s, v)
        \/ gc_salsa_n_xnp_intrpt_safe_page_invalidate(c, s, v)
  /\ UNCHANGED <<type, done, open, writes, errs>>

Pickable(v) == v < (SegSize * CHERRY_PICK) \div 100

\* gc_salsa_n_xnp_try_cherry_pick() as far as the lock
LookForCherry(t) ==
  /\ At(t, "look")
  /\ Goto(t, IF Pickable(th[t].v) /\ g.seg[th[t].s].priv = XNP_BIN_ID THEN "pick" ELSE "lookup")
  /\ UNCHANGED <<type, g, done, open, live, used, writes, errs>>

\* The rest of it: the segment leaves the XNP queue, if it is still there
CherryPick(t) ==
  /\ At(t, "pick")
  /\ LET s == th[t].s
         q == [g EXCEPT !.wait = Remove(@, s)]
         v == g.seg[s].valid
     IN IF Pickable(v) /\ Contains(g.wait, s)
          THEN /\ g' = IF v = 0 THEN put_free_seg(q, s)
                       ELSE [add_to_bin(q, s, seg2bin(v)) EXCEPT !.seg[s].state = "GC"]
               /\ ReturnUnprovision(t)
          ELSE Goto(t, "lookup") /\ UNCHANGED <<g, used>>
  /\ UNCHANGED <<type, done, open, live, writes, errs>>

\* gc_salsa_n_segment_lookup()
InGc(s) == g.seg[s].state = "GC"

FreeNext(t) ==
  /\ g' = [g EXCEPT !.seg[th[t].s].state = "INVALID"]
  /\ Goto(t, "free") /\ UNCHANGED used

\* Only exact numbers of free grains move a segment between the three bins
gc_salsa_page_invalidate(t, s) ==
  /\ type = "3BIN" /\ InGc(s)
  /\ LET nfree == SegSize - th[t].v
         newbin == IF nfree = MED_BIN_THRESHOLD THEN 1
                   ELSE IF nfree = HIGH_BIN_THRESHOLD THEN 2 ELSE g.seg[s].priv
     IN IF g.seg[s].valid = 0 THEN FreeNext(t)
        ELSE g' = rebin(g, s, newbin) /\ ReturnUnprovision(t)

gc_salsa_n_page_invalidate_common(t, s) ==
  /\ type \in {"NBIN", "XNP", "INTRPT"} /\ InGc(s)
  /\ IF g.seg[s].valid = 0 THEN FreeNext(t)
     ELSE g' = rebin(g, s, seg2bin(g.seg[s].valid)) /\ ReturnUnprovision(t)

\* A segment without valid grains stays in its bin
gc_salsa_n_dyn_thr_page_invalidate(t, s) ==
  /\ type = "DYN" /\ InGc(s)
  /\ g' = rebin(g, s, seg2bin(g.seg[s].valid))
  /\ ReturnUnprovision(t)

\* The thread that invalidated the first grain makes the segment age
gc_salsa_n_xnp_ovrw_page_invalidate(t, s) ==
  /\ type = "OVRW" /\ InGc(s)
  /\ IF g.seg[s].valid = 0 THEN FreeNext(t)
     ELSE IF th[t].v = SegSize - 1
       THEN /\ g' = [rm_from_bin(g, s) EXCEPT !.seg[s].state = "INVALID"]
            /\ Goto(t, "push") /\ UNCHANGED used
       ELSE g' = rebin(g, s, seg2bin(g.seg[s].valid)) /\ ReturnUnprovision(t)

\* The first invalidation makes a segment that is in a bin wait in the ring,
\* if the ring had room when the thread came
gc_salsa_n_xnp_ovrw_pat_page_invalidate(t, s) ==
  /\ type = "PATENT" /\ InGc(s)
  /\ IF g.seg[s].valid = 0 THEN FreeNext(t)
     ELSE IF At(t, "first")
       THEN /\ g' = [rm_from_bin(g, s) EXCEPT !.seg[s].state = "INVALID"]
            /\ Goto(t, "ring") /\ UNCHANGED used
       ELSE g' = rebin(g, s, seg2bin(g.seg[s].valid)) /\ ReturnUnprovision(t)

\* gc_salsa_n_xnp_ovrw_pat_enqueue()
PatEnqueue(t) ==
  /\ At(t, "ring")
  /\ g' = pat_enqueue(g, th[t].s)
  /\ ReturnUnprovision(t)
  /\ UNCHANGED <<type, done, open, live, writes, errs>>

\* Under the lock of the segment
UpdateBin(t) ==
  /\ th[t].pc \in {"lookup", "first"}
  /\ LET s == th[t].s
     IN \/ ~InGc(s) /\ UNCHANGED g /\ ReturnUnprovision(t)
        \/ gc_salsa_page_invalidate(t, s) \/ gc_salsa_n_page_invalidate_common(t, s)
        \/ gc_salsa_n_dyn_thr_page_invalidate(t, s) \/ gc_salsa_n_xnp_ovrw_page_invalidate(t, s)
        \/ gc_salsa_n_xnp_ovrw_pat_page_invalidate(t, s)
  /\ UNCHANGED <<type, done, open, live, writes, errs>>

\* gc_free_seg_on_zero_valid_pages() after the lock
FreeOnZero(t) ==
  /\ At(t, "free")
  /\ g' = put_free_seg(rm_from_bin(g, th[t].s), th[t].s)
  /\ ReturnUnprovision(t)
  /\ UNCHANGED <<type, done, open, live, writes, errs>>

PushAged(t) ==
  /\ At(t, "push")
  /\ g' = pushone_popone(g, th[t].s)
  /\ IF Popped(g, th[t].s) = NoSeg THEN ReturnUnprovision(t)
     ELSE /\ th' = [th EXCEPT ![t].pc = "activate", ![t].s = Popped(g, th[t].s)]
          /\ UNCHANGED used
  /\ UNCHANGED <<type, done, open, live, writes, errs>>

-----------------------------------------------------------------------------
(* The loop of a collector thread *)

\* gc_salsa_run() and gc_greedy_run() wait with a timeout
WaitEnds == gc_check_start \/ type \in {"3BIN", "GREEDY"}

StartGc(t) ==
  /\ At(t, "idle") /\ WaitEnds
  /\ Goto(t, "run")
  /\ UNCHANGED <<type, g, done, open, live, used, writes, errs>>

StopGc(t) ==
  /\ At(t, "run") /\ ~gc_check_continue
  /\ Goto(t, "idle")
  /\ UNCHANGED <<type, g, done, open, live, used, writes, errs>>

\* gc_salsa_n_xnp_intrpt_safe_update_segs()
UpdateSegs(t) ==
  /\ At(t, "run") /\ gc_check_continue
  /\ \E s \in g.bmap :
        /\ g' = [g EXCEPT !.bmap = @ \ {s}]
        /\ th' = [th EXCEPT ![t] = [Idle EXCEPT !.pc = "look", !.s = s, !.v = g.seg[s].valid]]
  /\ UNCHANGED <<type, done, open, live, used, writes, errs>>

\* The bins that are searched, in this order: the last one, of fully valid
\* segments, is not among them
Bins == IF type = "3BIN" THEN <<2, 1, 0>> ELSE [i \in 1 .. bin_nr |-> i - 1]

ChooseFrom(t, s) ==
  /\ At(t, "run") /\ gc_check_continue
  /\ g' = [g EXCEPT !.fifo[0] = Remove(@, s)]
  /\ th' = [th EXCEPT ![t].pc = "reloc", ![t].s = s]
  /\ UNCHANGED <<type, done, open, live, used, writes, errs>>

gc_circular_run(t) == type = "CIRCULAR" /\ g.fifo[0] # <<>> /\ ChooseFrom(t, Head(g.fifo[0]))

\* The first of those with the fewest valid grains; the window of 1024
\* segments is longer than the queue here
gc_greedy_run(t) ==
  /\ type = "GREEDY" /\ g.fifo[0] # <<>>
  /\ LET f == g.fifo[0]
         best == Min({g.seg[f[i]].valid : i \in DOMAIN f})
     IN ChooseFrom(t, f[Min({i \in DOMAIN f : g.seg[f[i]].valid = best})])

\* gc_salsa_get_first_seg(): look at the head of the first bin that is not
\* empty, then lock it; an ageing segment is given up when all are empty
Choose(t) ==
  /\ At(t, "run") /\ gc_check_continue /\ ~IsBase /\ g.bmap = {}
  /\ LET full == {i \in DOMAIN Bins : g.fifo[Bins[i]] # <<>>}
     IN IF full = {} THEN Goto(t, "none")
        ELSE th' = [th EXCEPT ![t].pc = "grab", ![t].s = Head(g.fifo[Bins[Min(full)]])]
  /\ UNCHANGED <<type, g, done, open, live, used, writes, errs>>

\* Defect: the state of the segment is not looked at
Grab_Blind(t) ==
  /\ At(t, "grab")
  /\ g' = [rm_from_bin(g, th[t].s) EXCEPT !.seg[th[t].s].state = "INVALID"]
  /\ Goto(t, "reloc")
  /\ UNCHANGED <<type, done, open, live, used, writes, errs>>

\* A segment in state INVALID is taken out of its bin by nobody else
Grab(t) ==
  /\ At(t, "grab")
  /\ IF InGc(th[t].s)
       THEN /\ g' = [rm_from_bin(g, th[t].s) EXCEPT !.seg[th[t].s].state = "INVALID"]
            /\ Goto(t, "reloc")
       ELSE UNCHANGED g /\ Goto(t, "run")
  /\ UNCHANGED <<type, done, open, live, used, writes, errs>>

\* gc_xnp_popone_force(): the oldest of the ageing segments
popone_force == IF g.wait = <<>> THEN NoSeg ELSE Head(g.wait)

\* gc_salsa_n_xnp_try_pop_one(): nothing found, an ageing segment is given up
PopForce(t) ==
  /\ At(t, "none")
  /\ IF popone_force = NoSeg \/ type = "3BIN" THEN UNCHANGED g /\ Goto(t, "run")
     ELSE LET p == popone_force
          IN /\ g' = add_to_bin([g EXCEPT !.wait = Tail(@)], p, g.seg[p].valid \div bin_div)
             /\ th' = [th EXCEPT ![t].pc = "activate", ![t].s = p]
  /\ UNCHANGED <<type, done, open, live, used, writes, errs>>

Room == open.left > 0 \/ g.relq # <<>>

\* One record of one grain is relocated: its new grain is allocated from the
\* relocation stream and provisioned, the old one is invalidated
Relocate(t) ==
  /\ At(t, "reloc") /\ live[th[t].s] > 0 /\ Room /\ MayProvision(1, TRUE)
  /\ LET s == th[t].s
         q == IF open.left > 0 THEN g ELSE get_free_seg(g, TRUE)
         r == IF open.left > 0 THEN open.s ELSE Head(g.relq)
         left == (IF open.left > 0 THEN open.left ELSE SegSize) - 1
     IN /\ g' = [q EXCEPT !.seg[s].valid = @ - 1]
        /\ open' = [s |-> IF left = 0 THEN NoSeg ELSE r, left |-> left]
        /\ done' = IF left = 0 THEN [done EXCEPT !["reloc"] = Append(@, r)] ELSE done
        /\ live' = [live EXCEPT ![s] = @ - 1, ![r] = @ + 1]
  /\ UNCHANGED <<type, th, used, writes, errs>>

\* The callback takes the map lock of every record of the segment, so it does
\* not end before those who replace one of them have
Relocated(t) ==
  /\ At(t, "reloc") /\ live[th[t].s] = 0
  /\ \A c \in Clients : th[c].s # th[t].s
  /\ g' = put_free_seg(g, th[t].s)
  /\ Return(t)
  /\ UNCHANGED <<type, done, open, live, used, writes, errs>>

\* What becomes of a segment whose relocation failed
gc_salsa_return_failed_reloc_seg(t, s) ==
  /\ type = "3BIN"
  /\ g' = add_to_bin_head(g, s, seg2bin(g.seg[s].valid))
  /\ Goto(t, "activate")

gc_salsa_n_return_failed_reloc_seg(t, s) ==
  /\ ~IsBase /\ type # "3BIN"
  /\ g' = add_to_bin(g, s, g.seg[s].valid \div bin_div)
  /\ Goto(t, "activate")

gc_base_add_seg(t, s) ==
  /\ IsBase
  /\ g' = [g EXCEPT !.fifo[0] = IF type = "GREEDY" THEN <<s>> \o @ ELSE Append(@, s)]
  /\ Return(t)

\* An IO error, or no room after a thousand attempts
RelocFailed(t) ==
  /\ At(t, "reloc") /\ live[th[t].s] > 0 /\ (errs < MaxErrors \/ ~Room)
  /\ \/ gc_salsa_return_failed_reloc_seg(t, th[t].s)
     \/ gc_salsa_n_return_failed_reloc_seg(t, th[t].s)
     \/ gc_base_add_seg(t, th[t].s)
  /\ errs' = IF Room THEN errs + 1 ELSE errs
  /\ UNCHANGED <<type, done, open, live, used, writes>>

-----------------------------------------------------------------------------

Step(t) ==
  \/ Activate(t) \/ LookForCherry(t) \/ CherryPick(t) \/ UpdateBin(t)
  \/ FreeOnZero(t) \/ PushAged(t) \/ PatEnqueue(t) \/ PatDrained(t) \/ PatPlaced(t)

Collect(t) ==
  \/ StartGc(t) \/ StopGc(t) \/ UpdateSegs(t) \/ gc_circular_run(t) \/ gc_greedy_run(t) \/ Choose(t)
  \/ Grab(t) \/ PopForce(t) \/ Relocate(t) \/ Relocated(t)

Next ==
  \/ WriteSegment
  \/ \E a \in Allocators : Destage(a)
  \/ \E c \in Clients, s \in Segs, n \in RecordSizes : Invalidate(c, s, n)
  \/ \E t \in Threads : Step(t)
  \/ \E t \in Gcs : Collect(t) \/ RelocFailed(t)

Spec == Init /\ [][Next]_vars

-----------------------------------------------------------------------------

\* The queues a segment can be in
Queues == {<<"free", g.freeq>>, <<"rel", g.relq>>, <<"wait", g.wait>>, <<"open", <<open.s>>>>}
            \cup {<<a, done[a]>> : a \in Allocators} \cup {<<ToString(b), g.fifo[b]>> : b \in DOMAIN g.fifo}
            \cup {<<"ring", q>> : q \in Range(g.circ)}

\* A segment that is in no list is in the hands of one thread
InHand(t, s) ==
  \/ th[t].s = s /\ th[t].pc \in {"push", "reloc", "ring", "drain", "draintoring"}
  \/ Contains(th[t].l, s)

\* Every segment is in exactly one list, once, or in the hands of exactly one
\* thread, and what its state says of its place is true: the lists are
\* intrusive, so a segment put into a second one tears the first.  It is freed
\* only when no entry names a grain of it.
SegmentsPlaced ==
  \A s \in Segs :
     /\ Cardinality({q \in Queues : Contains(q[2], s)}) + Cardinality({t \in Threads : InHand(t, s)}) = 1
     /\ \A q \in Queues : IsInjective(q[2])
     /\ g.seg[s].state = "GC" => ~IsBase /\ Contains(g.fifo[g.seg[s].priv], s)
     /\ Contains(g.wait, s) => g.seg[s].state = "GC_XNP"
     /\ g.seg[s].state = "FREE" <=> Contains(g.freeq, s)
     /\ g.seg[s].state = "FREE_REL" <=> Contains(g.relq, s)
     /\ Contains(g.freeq, s) \/ Contains(g.relq, s) => live[s] = 0

\* The grains provisioned are the ones in use and those being invalidated
UsedIsLive ==
  used = FoldFunction(LAMBDA a, b : a + b, 0, live)
              + FoldFunction(LAMBDA t, b : t.n + b, 0, th)

\* With one collector thread and no errors a relocation always has room
RelocationHasRoom ==
  \A t \in Gcs : Cardinality(Gcs) = 1 /\ errs = 0 /\ At(t, "reloc") /\ live[th[t].s] > 0
                   => Room /\ MayProvision(1, TRUE)

\* Capacity is neither lost nor promised twice, and what is kept back for the
\* collector is there when it relocates (provision_grains(), scm_put_free_seg()).
CapacityAccounted == UsedIsLive /\ RelocationHasRoom

=============================================================================
