--------------------------- MODULE SalsaSegments ---------------------------
(***************************************************************************)
(* The segments of the log-structured allocator, and what the store's      *)
(* threads do to them: a stream takes a free segment, stamps it with a     *)
(* timestamp and hands out its grains in order; a grain is released when   *)
(* its user has done with it, and a segment whose grains are all released  *)
(* is destaged, that is handed to the collector.  A grain is invalidated   *)
(* when no entry names it any more; a segment without valid grains is free *)
(* again.  Grains here are the data grains of a segment: the one that      *)
(* holds the segment's metadata is reserved when the segment is taken.     *)
(***************************************************************************)
EXTENDS Integers, FiniteSets

CONSTANTS
  Segs,         \* the segments
  NoSeg,
  SegSize,      \* data grains of a segment
  StreamsNr,    \* user streams; relocation has one of its own
  MaxTs         \* bound: segments taken

ASSUME SegmentsAssumption ==
  /\ IsFiniteSet(Segs)
  /\ NoSeg \notin Segs
  /\ SegSize \in Nat \ {0}
  /\ StreamsNr \in Nat \ {0}
  /\ MaxTs \in Nat

VARIABLES
  seg,          \* struct segment
  staged,       \* per stream, the segment in stage_fifo (or on its way there)
  seg_alloc_nr  \* segments taken so far

segVars == <<seg, staged, seg_alloc_nr>>

Reloc == StreamsNr
Streams == 0 .. StreamsNr

\* A grain is a segment and an offset: only offsets of one segment are ordered
Grains == Segs \X (0 .. SegSize - 1)

\* "taken": not yet stamped; "alloc": grains not all released; "done": in
\* done_fifo; "gc": the collector may choose it; "reloc": it has chosen it
SegStates == {"free", "taken", "alloc", "done", "gc", "reloc"}

Segment == [state : SegStates, ts : 0 .. MaxTs, nr3 : 0 .. SegSize,
            nr4 : 0 .. SegSize, valid : 0 .. SegSize]

SegInit ==
  /\ seg = [s \in Segs |-> [state |-> "free", ts |-> 0, nr3 |-> 0, nr4 |-> 0, valid |-> 0]]
  /\ staged = [st \in Streams |-> NoSeg]
  /\ seg_alloc_nr = 0

FreeSegs == {s \in Segs : seg[s].state = "free"}

\* gc_check_critical(): the last free segment is kept for relocation
MayProvision(st) == st # Reloc => Cardinality(FreeSegs) > 1

-----------------------------------------------------------------------------

\* allocator_allocate_segment() as far as the increment of seg_alloc_nr_ in
\* the segment metadata callback
TakeSegment(st, s) ==
  /\ staged[st] = NoSeg
  /\ MayProvision(st)
  /\ seg[s].state = "free"
  /\ seg_alloc_nr < MaxTs
  /\ seg' = [seg EXCEPT ![s] = [state |-> "taken", ts |-> @.ts, nr3 |-> 0,
                                nr4 |-> SegSize, valid |-> SegSize]]
  /\ staged' = [staged EXCEPT ![st] = s]
  /\ seg_alloc_nr' = seg_alloc_nr + 1

\* The rest of it: the counter is read again, for the timestamp
StampSegment(st) ==
  /\ staged[st] # NoSeg
  /\ seg[staged[st]].state = "taken"
  /\ seg' = [seg EXCEPT ![staged[st]].state = "alloc", ![staged[st]].ts = seg_alloc_nr]
  /\ UNCHANGED <<staged, seg_alloc_nr>>

\* Defect: the last valid grain is not counted
Destage_OneLeft(s) ==
  /\ seg[s].state = "done"
  /\ seg' = [seg EXCEPT ![s].state = IF seg[s].valid <= 1 THEN "free" ELSE "gc"]
  /\ UNCHANGED <<staged, seg_alloc_nr>>

\* allocator_thread(): the end-of-destage operation on a segment in done_fifo
Destage(s) ==
  /\ seg[s].state = "done"
  /\ seg' = [seg EXCEPT ![s].state = IF seg[s].valid = 0 THEN "free" ELSE "gc"]
  /\ UNCHANGED <<staged, seg_alloc_nr>>

-----------------------------------------------------------------------------
(* Parts of the store's actions: allocation of a grain, and what becomes of *)
(* the segments sg when a grain is released or invalidated                  *)

CanAllocate(st) ==
  /\ MayProvision(st)
  /\ staged[st] # NoSeg
  /\ seg[staged[st]].state = "alloc"

NextGrain(st) == <<staged[st], seg[staged[st]].nr3>>

\* A segment leaves stage_fifo with its last grain
StagedAfter(st) ==
  IF seg[staged[st]].nr3 = SegSize - 1 THEN [staged EXCEPT ![st] = NoSeg] ELSE staged

Allocated(sg, g) == [sg EXCEPT ![g[1]].nr3 = g[2] + 1]

\* n grains of segment s leave nr4; the one that leaves none enqueues it
Put4(sg, s, n) ==
  [sg EXCEPT ![s].nr4 = @ - n, ![s].state = IF sg[s].nr4 = n THEN "done" ELSE @]

Released(sg, g) == Put4(sg, g[1], 1)

Invalidated(sg, g) ==
  [sg EXCEPT ![g[1]].valid = @ - 1,
             ![g[1]].state = IF @ = "gc" /\ sg[g[1]].valid = 1 THEN "free" ELSE @]

\* Defect: a grain that was relocated stays valid
RelocInvalidated_Kept(sg, g) == sg

RelocInvalidated(sg, g) == [sg EXCEPT ![g[1]].valid = @ - 1]

\* allocator_drain_remaining_grains(): what is left of the segment is given up
Drainable(st) == staged[st] # NoSeg /\ seg[staged[st]].state = "alloc"

Drained(st) ==
  LET s == staged[st]
      rem == SegSize - seg[s].nr3
  IN IF Drainable(st) THEN Put4([seg EXCEPT ![s].valid = @ - rem], s, rem) ELSE seg

StagedDrained(st) == IF Drainable(st) THEN [staged EXCEPT ![st] = NoSeg] ELSE staged
=============================================================================
