------------------------------- MODULE TrtIo -------------------------------
(***************************************************************************)
(* Asynchronous disk IO of a TRT scheduler thread: AioState, UringState    *)
(* and SpdkState (trt_util), their operations and their poller tasks       *)
(* (trt_backends).  Tasks of one thread are cooperative: a step is what a  *)
(* task does between two suspensions.  The kernel, or the device, is       *)
(* concurrent and completes requests in any order.                         *)
(*                                                                         *)
(* A request transfers Len(map) bytes at offset `at' of device q; byte i   *)
(* of it is byte map[i] of the caller's buffer, or padding where that is 0.*)
(***************************************************************************)
EXTENDS Integers, Sequences, FiniteSets, SequencesExt

CONSTANTS
  Tasks,      \* tasks of the thread, positive integers
  Queues,     \* devices 0 .. n-1; an SPDK queue pair for each
  DevSize,    \* bytes of a device
  Sector,     \* 512
  IoqSize,    \* aio_ioq_size_, iou_ioq_size_
  MaxEvents   \* completions the poller takes at once

ASSUME TrtIoConstants ==
  /\ Tasks \subseteq Nat \ {0}
  /\ Queues = 0 .. Cardinality(Queues) - 1 /\ Queues # {}
  /\ {DevSize, Sector, IoqSize, MaxEvents} \subseteq Nat \ {0}

VARIABLES
  conf,  \* [cls, kind, faults, stop, prog] of this behaviour
  io,    \* the thread's AioState, UringState or SpdkState
  op,    \* [task -> [st, req, res, sync]]: the operation it waits for
  disk,  \* [device -> [offset -> byte]], 0 is what it holds at first
  rbuf   \* [task -> [position -> byte]]: the caller's buffer

Junk == -1
EIO == -5
ENOMEM == -12
EINVAL == -22
NoOp == [st |-> "none", req |-> <<>>, res |-> 0, sync |-> FALSE]
NewQueue == [st |-> "ready", pend |-> 0]
\* st, qst, pend: aio_state_ and aio_pending_, iou_state_ and iou_pending_, or
\* spdk_state with sqp_state and sqp_npending of every queue pair.  ioq counts
\* the operations that wait in user space; npend is s_io_npending_; busy is
\* the task that spins in read_sync() or write_sync().
NewIoState == [st |-> "uninit", q |-> [x \in Queues |-> NewQueue], ioq |-> 0, npend |-> 0,
               poller |-> "none", busy |-> 0, dead |-> FALSE]

\* What the caller's byte p of task t is: its buffer is filled before a write.
Byte(t, p) == 100 * t + p

Ready(kind) == conf.kind = kind /\ ~io.dead
In(st) == {t \in Tasks : op[t].st \in st}
Outstanding(q) == {t \in In({"queued", "flying", "landed"}) : op[t].req.q = q}

\* AIO::init(), IOU::init(), SPDK::init() and the spawn of the poller.
AioState_init == Ready("aio") /\ io.st = "uninit" /\ io' = [io EXCEPT !.st = "ready", !.poller = "run"]
UringState_init == Ready("uring") /\ io.st = "uninit" /\ io' = [io EXCEPT !.st = "ready", !.poller = "run"]
SpdkState_init == Ready("spdk") /\ io.st = "uninit" /\ io' = [io EXCEPT !.st = "ready", !.poller = "run"]

(***************************************************************************)
(* Submission: await_ready() and await_suspend() of the operation.         *)
(***************************************************************************)
Queued(t, r) == [op EXCEPT ![t] = [NoOp EXCEPT !.st = "queued", !.req = r]]
Flushed(o) == [t \in Tasks |-> IF o[t].st = "queued" THEN [o[t] EXCEPT !.st = "flying"] ELSE o[t]]

\* The process aborts: a submission on a state that is not READY.
Abort == io' = [io EXCEPT !.dead = TRUE] /\ UNCHANGED op
\* Or one the kernel refuses, or takes a part of.
MayRefuse == "submit" \in conf.faults
flush_ioq_fails(n) == MayRefuse /\ n > 0 /\ Abort

Aio_submit(t, r) ==
  \/ io.st # "ready" /\ Abort
  \/ io.st = "ready" /\ io.ioq + 1 = IoqSize /\ flush_ioq_fails(IoqSize)
  \/ /\ io.st = "ready"
     /\ LET full == io.ioq + 1 = IoqSize
            o    == Queued(t, r)
        IN /\ op' = IF full THEN Flushed(o) ELSE o
           /\ io' = [io EXCEPT !.q[0].pend = @ + 1, !.npend = @ + 1, !.ioq = IF full THEN 0 ELSE @ + 1]

Iou_queued(t, r) == [op EXCEPT ![t] = [NoOp EXCEPT !.st = "queued", !.req = r]]
Iou_flushed(o) == [t \in Tasks |-> IF o[t].st = "queued" THEN [o[t] EXCEPT !.st = "flying"] ELSE o[t]]
Iou_submit(t, r) ==
  \/ io.st # "ready" /\ Abort
  \/ io.st = "ready" /\ io.ioq + 1 = IoqSize /\ flush_ioq_fails(IoqSize)
  \/ /\ io.st = "ready"
     /\ LET full == io.ioq + 1 = IoqSize
            o    == Iou_queued(t, r)
        IN /\ op' = IF full THEN Iou_flushed(o) ELSE o
           /\ io' = [io EXCEPT !.q[0].pend = @ + 1, !.npend = @ + 1, !.ioq = IF full THEN 0 ELSE @ + 1]

\* SPDK has no queue of its own: the request goes to the device.  A read on a
\* queue pair that is not READY aborts, a write is refused.  The driver may
\* refuse a command too: then nothing is pending and the call is over at once.
Spdk_refused(t, r, err) ==
  op' = [op EXCEPT ![t] = [NoOp EXCEPT !.st = "ready", !.req = r, !.res = err]] /\ UNCHANGED io
Spdk_sent(t, r) ==
  \/ /\ op' = [op EXCEPT ![t] = [NoOp EXCEPT !.st = "flying", !.req = r]]
     /\ io' = [io EXCEPT !.q[r.q].pend = @ + 1, !.npend = @ + 1]
  \/ MayRefuse /\ Spdk_refused(t, r, ENOMEM)
submit_read(t, r) == IF io.q[r.q].st # "ready" THEN Abort ELSE Spdk_sent(t, r)
submit_write(t, r) ==
  IF io.q[r.q].st # "ready"
  THEN Spdk_refused(t, r, EINVAL) ELSE Spdk_sent(t, r)
Spdk_submit(t, r) == IF r.dir = "read" THEN submit_read(t, r) ELSE submit_write(t, r)

\* read_sync(), write_sync(), read_raw_sync(), write_raw_sync(): the thread
\* polls the queue pair until the request is done.  The state of the queue
\* pair is not looked at.
Spdk_sync(t, r) ==
  \/ /\ op' = [op EXCEPT ![t] = [NoOp EXCEPT !.st = "flying", !.req = r, !.sync = TRUE]]
     /\ io' = [io EXCEPT !.q[r.q].pend = @ + 1, !.busy = t]
  \/ MayRefuse /\ Spdk_refused(t, r, ENOMEM)

(***************************************************************************)
(* The kernel or the device.                                               *)
(***************************************************************************)
Valid(r) == r.at % Sector = 0 /\ Len(r.map) % Sector = 0 /\ r.at + Len(r.map) <= DevSize

Transferred(r, t, k) ==
  IF r.dir = "write"
  THEN /\ disk' = [disk EXCEPT ![r.q] =
             [x \in DOMAIN @ |-> IF x \in r.at .. r.at + k - 1
                                 THEN LET p == r.map[x - r.at + 1] IN IF p = 0 THEN Junk ELSE Byte(t, p)
                                 ELSE @[x]]]
       /\ UNCHANGED rbuf
  ELSE /\ rbuf' = [rbuf EXCEPT ![t] =
             [p \in DOMAIN @ |-> IF \E i \in 1 .. k : r.map[i] = p
                                 THEN disk[r.q][r.at + (CHOOSE i \in 1 .. k : r.map[i] = p) - 1]
                                 ELSE @[p]]]
       /\ UNCHANGED disk

\* A file read or write may transfer less than it was asked for; a command of
\* an NVMe device succeeds or fails as a whole.
Outcomes(r, whole) ==
  IF ~Valid(r) THEN {EINVAL}
  ELSE {Len(r.map)}
       \cup (IF "error" \in conf.faults THEN {EIO} ELSE {})
       \cup (IF "partial" \in conf.faults /\ ~whole THEN {k \in 1 .. Len(r.map) - 1 : k % Sector = 0} ELSE {})
       \cup (IF "eof" \in conf.faults /\ ~whole /\ r.dir = "read" THEN {0} ELSE {})
Moved(res) == IF res < 0 THEN 0 ELSE res

KernelCompletes(t) ==
  /\ ~io.dead /\ op[t].st = "flying"
  /\ \E res \in Outcomes(op[t].req, conf.kind \in {"spdk", "mgr"}) :
       /\ op' = [op EXCEPT ![t].st = "landed", ![t].res = res]
       /\ Transferred(op[t].req, t, Moved(res))
  /\ UNCHANGED <<conf, io>>

(***************************************************************************)
(* The poller tasks.                                                       *)
(***************************************************************************)
\* A batch of completions.
Batch == {D \in SUBSET In({"landed"}) :
            Cardinality(D) = IF Cardinality(In({"landed"})) < MaxEvents
                             THEN Cardinality(In({"landed"})) ELSE MaxEvents}
\* An event of a file carries the result of the call, a negative one included; that
\* of a device whether it failed.
Aio_val(res) == res
Spdk_val(res) == IF res < 0 THEN -1 ELSE 0
Iou_val(res) == res
Val(res) == CASE conf.kind = "spdk" -> Spdk_val(res) [] conf.kind = "uring" -> Iou_val(res) [] OTHER -> Aio_val(res)
\* complete(): the value is set and the waiting task is made runnable.
Completed(o, D) == [t \in Tasks |-> IF t \in D THEN [o[t] EXCEPT !.st = "ready", !.res = Val(@)] ELSE o[t]]
MayPoll(kind) == Ready(kind) /\ io.poller = "run" /\ io.busy = 0
PollerEnds == io' = [io EXCEPT !.poller = "ended"] /\ UNCHANGED op

\* getevents() has nothing to do when nothing is pending; else it submits what
\* is queued and takes what has completed.  The last completion of a state
\* that drains ends it.
Aio_getevents_unflushed(D, nq) ==
  /\ op' = Completed(op, D)
  /\ io' = [io EXCEPT !.npend = @ - Cardinality(D), !.q[0].pend = nq,
                      !.st = IF nq = 0 /\ @ = "draining" THEN "done" ELSE @]
Aio_getevents(D, nq) ==
  /\ op' = Completed(Flushed(op), D)
  /\ io' = [io EXCEPT !.ioq = 0, !.npend = @ - Cardinality(D), !.q[0].pend = nq,
                      !.st = IF nq = 0 /\ @ = "draining" THEN "done" ELSE @]
Aio_poller ==
  /\ MayPoll("aio")
  /\ \/ io.st = "done" /\ PollerEnds
     \/ /\ io.st # "done" /\ io.q[0].pend > 0
        /\ \/ \E D \in Batch : Aio_getevents(D, io.q[0].pend - Cardinality(D))
           \/ flush_ioq_fails(io.ioq)
  /\ UNCHANGED <<conf, disk, rbuf>>

\* The poller goes on while the thread has operations of any kind pending.
Iou_poller ==
  /\ MayPoll("uring")
  /\ \/ io.st = "done" /\ io.npend = 0 /\ PollerEnds
     \/ /\ (io.st # "done" \/ io.npend > 0) /\ io.q[0].pend > 0
        /\ \/ flush_ioq_fails(io.ioq)
           \/ \E D \in Batch :
                LET nq == io.q[0].pend - Cardinality(D)
                IN /\ op' = Completed(Iou_flushed(op), D)
                   /\ io' = [io EXCEPT !.ioq = 0, !.npend = @ - Cardinality(D), !.q[0].pend = nq,
                                       !.st = IF nq = 0 /\ @ = "draining" THEN "done" ELSE @]
  /\ UNCHANGED <<conf, disk, rbuf>>

\* npending_dec(): the last completion of a queue pair that drains ends it and
\* takes it out of the state; the last queue pair ends the state.
NpendingDec(s, q, n) ==
  LET left == s.q[q].pend - n
      over == left = 0 /\ s.q[q].st = "draining"
      s1   == [s EXCEPT !.q[q] = [st |-> IF over THEN "done" ELSE @.st, pend |-> left]]
  IN [s1 EXCEPT !.st = IF \A x \in Queues : s1.q[x].st = "done" THEN "done" ELSE @]
\* spdk_io_cb() of every completion of the queue pair; sync_cb() only sets the
\* flag its caller polls.
Landed(q) == {t \in In({"landed"}) : op[t].req.q = q}
Async(D) == {t \in D : ~op[t].sync}
Spdk_io_cb(s, q, D) ==
  [NpendingDec(s, q, Cardinality(Async(D))) EXCEPT !.npend = @ - Cardinality(Async(D))]
\* execute_completions() walks over the queue pairs; when one of them is taken
\* out by its last completion, the walk goes on from a freed entry.
Spdk_poller ==
  /\ MayPoll("spdk")
  /\ \/ io.st = "done" /\ PollerEnds
     \/ /\ io.st # "done"
        /\ \E q \in Queues :
             /\ Landed(q) # {}
             /\ op' = Completed(op, Landed(q))
             /\ LET s == Spdk_io_cb(io, q, Landed(q))
                IN \/ io' = s
                   \/ s.q[q].st = "done" /\ io' = [s EXCEPT !.dead = TRUE]
  /\ UNCHANGED <<conf, disk, rbuf>>

\* The thread spins: the completions of the queue pair are executed, the
\* callbacks of other tasks included, until its own has come.
Spdk_spin(t) ==
  /\ ~io.dead /\ io.busy = t /\ op[t].st = "landed"
  /\ LET q == op[t].req.q
         s == Spdk_io_cb(io, q, Landed(q))
     IN /\ op' = Completed(op, Landed(q))
        /\ io' = [NpendingDec(s, q, 1) EXCEPT !.busy = 0]
  /\ UNCHANGED <<conf, disk, rbuf>>

(***************************************************************************)
(* thread_exit(): the state stops accepting operations.                    *)
(***************************************************************************)
MayStop(kind) == Ready(kind) /\ conf.stop /\ io.st = "ready" /\ io.busy = 0
Aio_stop_early ==
  /\ MayStop("aio")
  /\ io' = [io EXCEPT !.st = "done"]
  /\ UNCHANGED <<conf, op, disk, rbuf>>
Aio_stop ==
  /\ MayStop("aio")
  /\ io' = [io EXCEPT !.st = IF io.q[0].pend = 0 THEN "done" ELSE "draining"]
  /\ UNCHANGED <<conf, op, disk, rbuf>>

Iou_stop ==
  /\ MayStop("uring")
  /\ \/ flush_ioq_fails(io.ioq)
     \/ /\ io' = [io EXCEPT !.st = IF io.q[0].pend = 0 THEN "done" ELSE "draining", !.ioq = 0]
        /\ op' = Iou_flushed(op)
  /\ UNCHANGED <<conf, disk, rbuf>>

Qpair_stop(p) == [p EXCEPT !.st = IF p.pend = 0 THEN "done" ELSE "draining"]
Spdk_stop ==
  /\ MayStop("spdk")
  /\ LET q == [x \in Queues |-> Qpair_stop(io.q[x])]
     IN io' = [io EXCEPT !.q = q, !.st = IF \A x \in Queues : q[x].st = "done" THEN "done" ELSE "draining"]
  /\ UNCHANGED <<conf, op, disk, rbuf>>

IoStep ==
  \/ \E t \in Tasks : KernelCompletes(t) \/ Spdk_spin(t)
  \/ Aio_poller \/ Iou_poller \/ Spdk_poller
  \/ Aio_stop \/ Iou_stop \/ Spdk_stop
=============================================================================
