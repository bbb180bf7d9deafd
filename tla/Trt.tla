-------------------------------- MODULE Trt --------------------------------
(***************************************************************************)
(* The TRT runtime: schedulers, one thread each, that run tasks to their   *)
(* next suspension; waitsets, futures and asynchronous objects, through    *)
(* which a task sleeps until another one, perhaps on another scheduler,    *)
(* has a value for it; the local variants of these; and objects with a     *)
(* single local waiter, which pollers complete.  What a thread does is     *)
(* atomic except where it meets another thread: the states of waitsets and *)
(* asynchronous objects, and the remote queues.  Those accesses are steps  *)
(* of their own.                                                           *)
(***************************************************************************)
EXTENDS Naturals, Sequences, FiniteSets, SequencesExt

CONSTANTS
  Scheds, Tasks, NoTask,
  MainTask,     \* the main task of each scheduler
  Pollers,      \* the tasks of type POLL; the others are of type TASK
  Spawners,     \* the tasks that create others
  Detached,     \* the tasks that nobody waits for
  Exiter,       \* the task that calls set_exit_all()
  SharedAos,    \* objects of AsyncObj::allocate()
  LocalAos,     \* objects of class LocalAsyncObj
  ManyAos,      \* objects of class LocalAsyncObjMany
  Spinners,     \* the tasks that wait for shared objects with ws.wait_(), not with
                \* co_await T::wait_(ws), in an application with "spin"
  Writer,       \* the task that sets each of these objects
  Waiters,      \* the tasks that wait for each of them
  IoTasks,      \* the tasks that wait for device operations
  Policies,     \* the NotifyPolicy arguments used for shared objects
  NtasksLow, NtasksHigh,  \* ntasks_low, ntasks_high: when pollers are run
  MaxNotifyArgs,          \* TRT_MAX_NOTIFY_ARGS
  MaxCalls,               \* bound: calls of a task that may be repeated
  Programs                \* sets of facilities an application uses together:
                          \* "shared", "local", "many", "io", "poll", "spin"

VARIABLES
  sched,        \* the schedulers and what their threads are doing
  task,         \* the tasks
  ws,           \* the waitsets
  ao,           \* the asynchronous objects
  lsao,         \* the LocalSingleAsyncObj of each task's device operation
  exit,         \* SchedCtl.exit_, set for all at once
  uses          \* the facilities this application uses

vars == <<sched, task, ws, ao, lsao, exit, uses>>

Objects == SharedAos \cup LocalAos \cup ManyAos
\* A task has an object for the value it returns.
Aos == Tasks \cup Objects

\* t_ws_ is for children; "ws" and "lws" are on the task's stack, for the one
\* shared and the one local object it waits for
Waitsets == Tasks \X {"t_ws_", "ws", "lws"}

\* A future is known by its object and its waitset.
Futures == Aos \X Waitsets
Owner(f) == f[2][1]
IsLocal(w) == w[2] = "lws"

ASSUME TrtAssumption ==
  /\ NoTask \notin Tasks
  /\ MainTask \in [Scheds -> Tasks]
  /\ \A s, u \in Scheds : MainTask[s] = MainTask[u] => s = u
  /\ Pollers \subseteq Tasks /\ Spawners \subseteq Tasks
  /\ Detached \subseteq Tasks /\ Exiter \in Tasks
  /\ IoTasks \subseteq Tasks \ Pollers /\ Spinners \subseteq Tasks
  /\ Objects \cap Tasks = {}
  /\ Writer \in [Objects -> Tasks] /\ Waiters \in [Objects -> SUBSET Tasks]
  /\ Policies \subseteq {"LastTaskScheduler", "LocalSched"}
  /\ NtasksLow \in Nat /\ NtasksHigh \in Nat /\ MaxCalls \in Nat
  /\ MaxNotifyArgs \in Nat \ {0}
  /\ Programs \subseteq SUBSET {"shared", "local", "many", "io", "poll", "spin"}

\* st: "none" - not allocated; "live"; "done" - has returned its value.
\* last is t_last_scheduler; coro tells whether t_current_coro_ is the
\* coroutine that was suspended last; at is where the task goes on when it is
\* resumed, w the waitset it sleeps in, n the number of its calls.  spun is for
\* the properties: the task has waited with ws.wait_().
FreshTask == [st |-> "none", detached |-> TRUE, last |-> NoTask, coro |-> TRUE,
              at |-> "exec", w |-> <<>>, n |-> 0, spun |-> FALSE]

FreshWs == [state |-> "INITIAL", unchecked |-> <<>>, registered |-> <<>>]

\* ver counts the values of a LocalAsyncObjMany, seen the last its waiters read
FreshAo == [state |-> "IN_PROGRESS", ref |-> 1, futures |-> <<>>, public |-> TRUE,
            ver |-> 0, seen |-> 0]
DeadAo == [state |-> "INVALID", ref |-> 0, futures |-> <<>>, public |-> FALSE,
           ver |-> 0, seen |-> 0]

\* The objects this application has
Used(a) ==
  (IF a \in SharedAos THEN "shared" ELSE IF a \in LocalAos THEN "local" ELSE "many") \in uses

\* pc of a scheduler's thread: "loop", "poll", "task" in start_(); "exec" in a
\* task's own code; "scan", "cas", "coro", "drop" in a wait, of kind "spin" or
\* not, with the futures left to look at; "set", "unsub", "wake" in notify_()
\* with the objects still to notify and the futures still to wake; "ret" back
\* in schedule_task_(); "done"; "null", "crash" where it goes wrong.
FreshSched(s) ==
  [pc |-> "loop", p |-> 0, cur |-> NoTask, polling |-> FALSE,
   tq |-> IF MainTask[s] \in Pollers THEN <<>> ELSE <<MainTask[s]>>,
   pq |-> IF MainTask[s] \in Pollers THEN <<MainTask[s]>> ELSE <<>>,
   rq |-> <<>>, rcnt |-> 0, kind |-> "await", left |-> <<>>, woken |-> FALSE,
   nao |-> <<>>, list |-> <<>>, policy |-> "LocalSched", nret |-> "exec"]

Init ==
  /\ sched = [s \in Scheds |-> FreshSched(s)]
  /\ task = [t \in Tasks |-> IF \E s \in Scheds : MainTask[s] = t
                               THEN [FreshTask EXCEPT !.st = "live"] ELSE FreshTask]
  /\ ws = [w \in Waitsets |-> FreshWs]
  /\ ao = [a \in Aos |-> IF a \in Objects THEN FreshAo ELSE DeadAo]
  /\ lsao = [t \in Tasks |-> [state |-> "IDLE", waiter |-> FALSE]]
  /\ exit = FALSE
  /\ uses \in Programs

-----------------------------------------------------------------------------
(* Queues.  A task goes into the queue of its type. *)

push_task_back(c, t) ==
  IF t \in Pollers THEN [c EXCEPT !.pq = Append(@, t)] ELSE [c EXCEPT !.tq = Append(@, t)]
push_task_front(c, t) ==
  IF t \in Pollers THEN [c EXCEPT !.pq = <<t>> \o @] ELSE [c EXCEPT !.tq = <<t>> \o @]

\* push_back_if_running(); nobody ever stops the remote queue
remote_push_task_front(c, t) == [c EXCEPT !.rq = Append(@, t), !.rcnt = @ + 1]

\* Defect: the remote tasks are counted off without being moved
push_to_queue_back_Lost(c) == [c EXCEPT !.rq = <<>>, !.rcnt = 0]

push_to_queue_back(c) ==
  IF c.rcnt = 0 THEN c ELSE [c EXCEPT !.tq = @ \o c.rq, !.rq = <<>>, !.rcnt = 0]

-----------------------------------------------------------------------------
(* start_(): the loop of a scheduler *)

At(s, pc) == sched[s].pc = pc
Self(s) == sched[s].cur
Goto(s, pc) == sched' = [sched EXCEPT ![s].pc = pc]

\* The remote tasks join the queue; pollers run only when it is short
DrainRemote(s) ==
  /\ At(s, "loop")
  /\ LET c == push_to_queue_back(sched[s])
     IN sched' = [sched EXCEPT ![s] = [c EXCEPT !.p = 0,
                     !.pc = IF Len(c.tq) < NtasksLow /\ c.pq # <<>> THEN "poll" ELSE "task"]]
  /\ UNCHANGED <<task, ws, ao, lsao, exit, uses>>

\* schedule_task_(): the task goes on where it was suspended
ScheduleTask(s, c, t) ==
  /\ sched' = [sched EXCEPT ![s] = [c EXCEPT !.cur = t, !.pc = task[t].at, !.kind = "await",
                  !.woken = task[t].at = "scan",
                  !.left = IF task[t].at = "scan" THEN ws[task[t].w].registered ELSE <<>>]]
  /\ task' = [task EXCEPT ![t].last = s, ![t].at = "exec"]
  /\ ws' = IF task[t].at = "scan" THEN [ws EXCEPT ![task[t].w].state = "SCANNING"] ELSE ws

RunPoller(s) ==
  LET c == sched[s]
  IN /\ At(s, "poll")
     /\ IF c.p < Len(c.pq)
          THEN ScheduleTask(s, [c EXCEPT !.pq = Tail(@), !.p = @ + 1, !.polling = TRUE], Head(c.pq))
          ELSE Goto(s, "task") /\ UNCHANGED <<task, ws>>
     /\ UNCHANGED <<ao, lsao, exit, uses>>

\* pop_front_or_stop() finds the list as empty as pop_front() did
RunTask(s) ==
  LET c == sched[s]
  IN /\ At(s, "task")
     /\ IF c.tq # <<>>
          THEN ScheduleTask(s, [c EXCEPT !.tq = Tail(@), !.polling = FALSE], Head(c.tq))
          ELSE /\ Goto(s, IF c.pq = <<>> /\ exit THEN "done" ELSE "loop")
               /\ UNCHANGED <<task, ws>>
     /\ UNCHANGED <<ao, lsao, exit, uses>>

\* The loop goes on where it called schedule_task_()
BackInLoop(c) ==
  [c EXCEPT !.cur = NoTask,
            !.pc = IF c.polling THEN IF Len(c.tq) >= NtasksHigh THEN "task" ELSE "poll" ELSE "loop"]

Return(s) ==
  /\ At(s, "ret")
  /\ sched' = [sched EXCEPT ![s] = BackInLoop(@)]
  /\ UNCHANGED <<task, ws, ao, lsao, exit, uses>>

\* The running task of s is suspended, to go on at "at"; c is the scheduler as
\* the task leaves it
Suspend(s, c, at) ==
  /\ sched' = [sched EXCEPT ![s] = [c EXCEPT !.pc = "ret"]]
  /\ task' = [task EXCEPT ![Self(s)].at = at, ![Self(s)].coro = TRUE, ![Self(s)].n = @ + 1]

-----------------------------------------------------------------------------
(* A task's own code: any of the calls of the API *)

Exec(s) == At(s, "exec")
MayCall(s) == Exec(s) /\ task[Self(s)].n < MaxCalls

\* A poller yields with its batch of completions
Yield(s) ==
  /\ MayCall(s) /\ Self(s) \notin Pollers
  /\ Suspend(s, push_task_back(sched[s], Self(s)), "exec")
  /\ UNCHANGED <<ws, ao, lsao, exit, uses>>

\* alloc_task(): the future of a child that is not detached joins its parent's
\* waitset; the object has a reference for the child and one for the future
Alloc(s, c, t) ==
  LET w == <<Self(s), "t_ws_">>
      detached == t \in Detached
  IN /\ task[t].st = "none" /\ (t \in Pollers => "poll" \in uses)
     /\ sched' = [sched EXCEPT ![s] = [c EXCEPT !.pc = "ret"]]
     /\ task' = [task EXCEPT ![t] = [FreshTask EXCEPT !.st = "live", !.detached = detached],
                             ![Self(s)].coro = TRUE]
     /\ IF detached THEN UNCHANGED <<ao, ws>>
        ELSE /\ ao' = [ao EXCEPT ![t] = [FreshAo EXCEPT !.ref = 2]]
             /\ ws' = [ws EXCEPT ![w].unchecked = Append(@, <<t, w>>)]
     /\ UNCHANGED <<lsao, exit, uses>>

Spawn(s, t) ==
  LET prev == Self(s)
      c == IF prev \in Pollers THEN push_task_back(sched[s], prev)
           ELSE push_task_front(sched[s], prev)
  IN Exec(s) /\ prev \in Spawners /\ Alloc(s, push_task_front(c, t), t)

\* spawn_many(), of one task here, uses the queue for TASK whatever the type
SpawnMany(s, t) ==
  LET c == [sched[s] EXCEPT !.tq = Append(@, t)]
  IN Exec(s) /\ Self(s) \in Spawners /\ Alloc(s, push_task_back(c, Self(s)), t)

\* A task waits for its children and sets its objects before it returns; a
\* poller stays while operations are under way.
Obliged(t) ==
  \/ \E w \in Waitsets : w[1] = t /\ (ws[w].unchecked # <<>> \/ ws[w].registered # <<>>)
  \/ lsao[t].state # "IDLE"
  \/ \E a \in Objects \ ManyAos : Used(a) /\ Writer[a] = t /\ ao[a].state = "IN_PROGRESS"
  \/ t \in Pollers /\ \E u \in IoTasks : lsao[u].state # "IDLE" /\ task[u].last = task[t].last

\* handle_task_done_(): a detached task is freed, another one notifies its
\* object
Finish(s) ==
  LET t == Self(s)
  IN /\ Exec(s)
     /\ ~Obliged(t)
     /\ IF task[t].detached
          THEN sched' = [sched EXCEPT ![s] = BackInLoop(@)]
          ELSE sched' = [sched EXCEPT ![s].pc = "set", ![s].nao = <<t>>,
                                      ![s].policy = "LocalSched", ![s].nret = "loop"]
     /\ task' = [task EXCEPT ![t].st = "done"]
     /\ UNCHANGED <<ws, ao, lsao, exit, uses>>

-----------------------------------------------------------------------------
(* Waiting *)

Ready(f) == IF f[1] \in ManyAos THEN ao[f[1]].seen < ao[f[1]].ver ELSE ao[f[1]].state = "READY"

BeginScan(s, w, kind) ==
  /\ sched' = [sched EXCEPT ![s].pc = "scan", ![s].left = ws[w].registered,
                            ![s].kind = kind, ![s].woken = FALSE]
  /\ task' = [task EXCEPT ![Self(s)].w = w, ![Self(s)].spun = @ \/ kind = "spin"]

\* task_wait(); with no future at all it would spin
TaskWait(s) ==
  LET w == <<Self(s), "t_ws_">>
  IN /\ Exec(s)
     /\ ws[w].unchecked \o ws[w].registered # <<>>
     /\ BeginScan(s, w, "await")
     /\ ws' = [ws EXCEPT ![w].state = "SCANNING"]
     /\ UNCHANGED <<ao, lsao, exit, uses>>

\* A future for a shared object, made while the object can be found, and the
\* wait for it
WaitShared(s, a, kind) ==
  LET w == <<Self(s), "ws">>
  IN /\ Exec(s)
     /\ Used(a) /\ Self(s) \in Waiters[a] /\ ao[a].public
     /\ kind = IF "spin" \in uses /\ Self(s) \in Spinners THEN "spin" ELSE "await"
     /\ ao' = [ao EXCEPT ![a].ref = @ + 1]
     /\ ws' = [ws EXCEPT ![w].unchecked = <<<<a, w>>>>, ![w].state = "SCANNING"]
     /\ BeginScan(s, w, kind)
     /\ UNCHANGED <<lsao, exit, uses>>

\* wait_completed(): the waitset forgets the future, and hands it to the task
Completed(s, f, w) ==
  /\ ws' = [ws EXCEPT ![w].state = "INITIAL",
                      ![w].unchecked = SelectSeq(@, LAMBDA x : x # f),
                      ![w].registered = SelectSeq(@, LAMBDA x : x # f)]
  /\ IF f[1] \in SharedAos
       THEN sched' = [sched EXCEPT ![s].pc = "drop", ![s].nao = <<f[1]>>, ![s].left = <<>>]
       ELSE sched' = [sched EXCEPT ![s].pc = "exec", ![s].left = <<>>]
  /\ task' = [task EXCEPT ![Self(s)].w = <<>>]
  /\ UNCHANGED <<ao, lsao, exit, uses>>

\* The object's lock makes test and registration one step
is_ready_or_register(f) == [ao EXCEPT ![f[1]].futures = Append(@, f)]

\* One step of try_wait_(): a registered future, else an unchecked one
ScanRegistered(s) ==
  LET f == Head(sched[s].left)
      w == task[Self(s)].w
  IN /\ At(s, "scan") /\ sched[s].left # <<>>
     /\ IF Ready(f) THEN Completed(s, f, w)
        ELSE /\ sched' = [sched EXCEPT ![s].left = Tail(@)]
             /\ UNCHANGED <<task, ws, ao, lsao, exit, uses>>

ScanUnchecked(s) ==
  LET w == task[Self(s)].w
      f == Head(ws[w].unchecked)
  IN /\ At(s, "scan") /\ sched[s].left = <<>>
     /\ ws[w].unchecked # <<>>
     /\ IF Ready(f) THEN Completed(s, f, w)
        ELSE /\ ws' = [ws EXCEPT ![w].unchecked = Tail(@), ![w].registered = Append(@, f)]
             /\ ao' = is_ready_or_register(f)
             /\ UNCHANGED <<sched, task, lsao, exit, uses>>

\* Defect: the task never sleeps, and scans until a future is ready
EndScan_Spin(s) ==
  LET w == task[Self(s)].w
  IN /\ At(s, "scan") /\ sched[s].left = <<>> /\ ws[w].unchecked = <<>>
     /\ ws' = [ws EXCEPT ![w].state = "SCANNING"]
     /\ sched' = [sched EXCEPT ![s].left = ws[w].registered]
     /\ UNCHANGED <<task, ao, lsao, exit, uses>>

\* Nothing was ready: scan again if told to, or if the caller spins.  A task
\* that was woken would return no future.
EndScan(s) ==
  LET w == task[Self(s)].w
      redo == ws[w].state # "SCANNING" \/ sched[s].kind = "spin"
  IN /\ At(s, "scan") /\ sched[s].left = <<>> /\ ws[w].unchecked = <<>>
     /\ IF redo
          THEN /\ ws' = [ws EXCEPT ![w].state = "SCANNING"]
               /\ sched' = [sched EXCEPT ![s].left = ws[w].registered]
          ELSE /\ Goto(s, IF sched[s].woken THEN "null" ELSE "cas")
               /\ UNCHANGED ws
     /\ UNCHANGED <<task, ao, lsao, exit, uses>>

\* Defect: the waitset goes to sleep whatever has happened since the scan
try_set_state_to_waiting_Blind(w) == TRUE

try_set_state_to_waiting(w) == ws[w].state = "SCANNING"

\* WaitAwaitable::await_suspend().  The coroutine to resume is stored only
\* after the task may be woken.
TrySleep(s) ==
  LET w == task[Self(s)].w
  IN /\ At(s, "cas")
     /\ IF try_set_state_to_waiting(w)
          THEN /\ ws' = [ws EXCEPT ![w].state = "WAITING"]
               /\ task' = [task EXCEPT ![Self(s)].at = "scan", ![Self(s)].coro = FALSE]
               /\ Goto(s, "coro")
          ELSE /\ ws' = [ws EXCEPT ![w].state = "SCANNING"]
               /\ sched' = [sched EXCEPT ![s].pc = "scan", ![s].left = ws[w].registered]
               /\ UNCHANGED task
     /\ UNCHANGED <<ao, lsao, exit, uses>>

SetCurrentCoro(s) ==
  /\ At(s, "coro")
  /\ task' = [task EXCEPT ![Self(s)].coro = TRUE]
  /\ Goto(s, "ret")
  /\ UNCHANGED <<ws, ao, lsao, exit, uses>>

\* unsubscribe_(): the last reference frees the object
Unsubscribed(a) == IF ao[a].ref = 1 THEN [ao EXCEPT ![a] = DeadAo] ELSE [ao EXCEPT ![a].ref = @ - 1]

\* The caller drops its future's reference.  task_wait() has no such step.
DropRef(s) ==
  /\ At(s, "drop")
  /\ ao' = Unsubscribed(Head(sched[s].nao))
  /\ sched' = [sched EXCEPT ![s].pc = "exec", ![s].nao = <<>>]
  /\ UNCHANGED <<task, ws, lsao, exit, uses>>

-----------------------------------------------------------------------------
(* Waiting for a local object.  Nothing else runs on the thread meanwhile. *)

\* A future for a local object in the waitset of the running task
LocalSubscribe(s, a) ==
  LET w == <<Self(s), "lws">>
  IN /\ MayCall(s)
     /\ Used(a) /\ Self(s) \in Waiters[a] /\ ao[a].public
     /\ ws[w] = FreshWs
     /\ ao' = [ao EXCEPT ![a].ref = @ + 1]
     /\ ws' = [ws EXCEPT ![w].unchecked = <<<<a, w>>>>]
     /\ task' = [task EXCEPT ![Self(s)].n = @ + 1]
     /\ UNCHANGED <<sched, lsao, exit, uses>>

\* The future is ready: one of a LocalAsyncObjMany goes back to the waitset, to
\* wait for the next value; another one is dropped
LocalDone(f) ==
  /\ ws' = [ws EXCEPT ![f[2]] = [FreshWs EXCEPT !.unchecked = IF f[1] \in ManyAos THEN <<f>> ELSE <<>>]]
  /\ ao' = IF f[1] \in ManyAos THEN [ao EXCEPT ![f[1]].seen = ao[f[1]].ver]
           ELSE Unsubscribed(f[1])

\* try_wait_() of a LocalWaitset, and its sleep; the object has values to come
LocalWait(s) ==
  LET w == <<Self(s), "lws">>
      f == Head(ws[w].unchecked)
  IN /\ Exec(s)
     /\ ws[w].unchecked # <<>>
     /\ Ready(f) \/ ao[f[1]].public
     /\ IF Ready(f)
          THEN LocalDone(f) /\ UNCHANGED <<sched, task>>
          ELSE /\ ws' = [ws EXCEPT ![w] = [state |-> "WAITING", unchecked |-> <<>>, registered |-> <<f>>]]
               /\ ao' = is_ready_or_register(f)
               /\ Suspend(s, sched[s], "local")
     /\ UNCHANGED <<lsao, exit, uses>>

LocalResume(s) ==
  LET f == Head(ws[<<Self(s), "lws">>].registered)
  IN /\ At(s, "local")
     /\ IF Ready(f) THEN LocalDone(f) /\ Goto(s, "exec")
        ELSE Goto(s, "null") /\ UNCHANGED <<ws, ao>>
     /\ UNCHANGED <<task, lsao, exit, uses>>

\* reset() of the future of a LocalAsyncObjMany that is not registered
LocalReset(s) ==
  LET w == <<Self(s), "lws">>
  IN /\ Exec(s)
     /\ ws[w].unchecked # <<>> /\ Head(ws[w].unchecked)[1] \in ManyAos
     /\ ao' = Unsubscribed(Head(ws[w].unchecked)[1])
     /\ ws' = [ws EXCEPT ![w] = FreshWs]
     /\ UNCHANGED <<sched, task, lsao, exit, uses>>

\* release(): the updater's reference to a LocalAsyncObjMany, which has no more
\* values
LocalRelease(s, a) ==
  /\ Exec(s)
  /\ Used(a) /\ Writer[a] = Self(s) /\ ao[a].public
  /\ ao[a].futures = <<>>
  /\ ao' = [Unsubscribed(a) EXCEPT ![a].public = FALSE]
  /\ UNCHANGED <<sched, task, ws, lsao, exit, uses>>

-----------------------------------------------------------------------------
(* Notifying *)

\* The objects of a call of notify(), or of a batch of notify_add() that
\* notify_submit() hands over; nobody finds them from now on
NotifyObjects(s, q) ==
  /\ \A i \in DOMAIN q : Used(q[i]) /\ Writer[q[i]] = Self(s) /\ ao[q[i]].public
  /\ ao' = [a \in Aos |-> IF a \in Range(q) \ ManyAos THEN [ao[a] EXCEPT !.public = FALSE] ELSE ao[a]]
  /\ UNCHANGED <<ws, lsao, exit, uses>>

Notify(s, a, p) ==
  /\ a \in ManyAos => ao[a].ver < MaxCalls
  /\ Exec(s)
  /\ a \notin SharedAos => p = "LocalSched"
  /\ NotifyObjects(s, <<a>>)
  /\ sched' = [sched EXCEPT ![s].pc = "set", ![s].nao = <<a>>, ![s].policy = p, ![s].nret = "exec"]
  /\ UNCHANGED task

\* notify_add() refuses what exceeds the batch.  The task queues itself before
\* those it wakes.
NotifySubmit(s, q, p) ==
  /\ MayCall(s)
  /\ Len(q) \in 1 .. MaxNotifyArgs
  /\ NotifyObjects(s, q)
  /\ sched' = [sched EXCEPT ![s] = [push_task_back(sched[s], Self(s)) EXCEPT
                 !.pc = "set", !.nao = q, !.policy = p, !.nret = "ret"]]
  /\ task' = [task EXCEPT ![Self(s)].coro = TRUE, ![Self(s)].n = @ + 1]

\* set_ready(), under the object's lock: the value, and the futures to wake
SetReady(s) ==
  LET a == Head(sched[s].nao)
  IN /\ At(s, "set")
     /\ sched' = [sched EXCEPT ![s].list = ao[a].futures,
                               ![s].pc = IF a \in ManyAos THEN "wake" ELSE "unsub"]
     /\ ao' = IF a \in ManyAos THEN [ao EXCEPT ![a].ver = @ + 1, ![a].futures = <<>>]
              ELSE [ao EXCEPT ![a].state = "READY", ![a].futures = <<>>]
     /\ UNCHANGED <<task, ws, lsao, exit, uses>>

\* The writer loses its reference; the memory of a task goes with its object
WriterUnsubscribe(s) ==
  /\ At(s, "unsub")
  /\ ao' = Unsubscribed(Head(sched[s].nao))
  /\ Goto(s, "wake")
  /\ UNCHANGED <<task, ws, lsao, exit, uses>>

\* A future that its waitset has handed out has no waitset any more
Attached(f) == f \in Range(ws[f[2]].unchecked) \cup Range(ws[f[2]].registered)

\* Defect: the task of another scheduler is queued here as well
Woken_Fallthrough(s, t, p) ==
  LET local == [sched EXCEPT ![s] = push_task_back([@ EXCEPT !.list = Tail(@)], t)]
  IN IF p = "LocalSched" \/ task[t].last = s THEN local
     ELSE [local EXCEPT ![task[t].last] = remote_push_task_front(@, t)]

\* notify_() queues the owner of a waitset that was asleep
Woken(s, t, p) ==
  IF p = "LocalSched" THEN [sched EXCEPT ![s] = push_task_back([@ EXCEPT !.list = Tail(@)], t)]
  ELSE IF task[t].last = s THEN [sched EXCEPT ![s] = push_task_front([@ EXCEPT !.list = Tail(@)], t)]
  ELSE [sched EXCEPT ![s].list = Tail(@), ![task[t].last] = remote_push_task_front(@, t)]

\* Waitset::set_ready() and LocalWaitset::set_ready()
set_ready_Waitset(f) ==
  [ws EXCEPT ![f[2]].state = IF @ = "WAITING" THEN "INITIAL" ELSE IF @ = "SCANNING" THEN "REDO" ELSE @]

WakeNext(s) ==
  LET f == Head(sched[s].list)
  IN /\ At(s, "wake") /\ sched[s].list # <<>>
     /\ IF ~Attached(f) THEN Goto(s, "crash") /\ UNCHANGED ws
        ELSE /\ ws' = set_ready_Waitset(f)
             /\ sched' = IF ws[f[2]].state = "WAITING" \/ IsLocal(f[2])
                           THEN Woken(s, Owner(f), sched[s].policy)
                           ELSE [sched EXCEPT ![s].list = Tail(@)]
     /\ UNCHANGED <<task, ao, lsao, exit, uses>>

\* The next object of the batch, or back to the caller
WakeEnd(s) ==
  LET c == [sched[s] EXCEPT !.nao = Tail(@)]
  IN /\ At(s, "wake") /\ sched[s].list = <<>>
     /\ sched' = [sched EXCEPT ![s] = IF c.nao # <<>> THEN [c EXCEPT !.pc = "set"]
                                      ELSE IF c.nret = "loop" THEN BackInLoop(c)
                                      ELSE [c EXCEPT !.pc = c.nret]]
     /\ UNCHANGED <<task, ws, ao, lsao, exit, uses>>

-----------------------------------------------------------------------------
(* Device operations: LocalSingleAsyncObj *)

IoSubmit(s) ==
  /\ MayCall(s) /\ "io" \in uses /\ Self(s) \in IoTasks
  /\ \E p \in Pollers : task[p].st = "live" /\ task[p].last = s
  /\ lsao[Self(s)].state = "IDLE"
  /\ lsao' = [lsao EXCEPT ![Self(s)].state = "PENDING"]
  /\ UNCHANGED <<sched, task, ws, ao, exit, uses>>

\* The device, outside of every thread
IoDone(t) ==
  /\ lsao[t].state = "PENDING"
  /\ lsao' = [lsao EXCEPT ![t].state = "COMPLETE"]
  /\ UNCHANGED <<sched, task, ws, ao, exit, uses>>

\* local_single_wait(): no suspension if the value is there
IoWait(s) ==
  LET t == Self(s)
  IN /\ Exec(s) /\ lsao[t].state # "IDLE"
     /\ IF lsao[t].state = "READY"
          THEN /\ lsao' = [lsao EXCEPT ![t].state = "IDLE"]
               /\ task' = [task EXCEPT ![t].n = @ + 1]
               /\ UNCHANGED sched
          ELSE /\ lsao' = [lsao EXCEPT ![t].waiter = TRUE]
               /\ Suspend(s, sched[s], "get_ret")
     /\ UNCHANGED <<ws, ao, exit, uses>>

IoResume(s) ==
  LET t == Self(s)
  IN /\ At(s, "get_ret")
     /\ IF lsao[t].state = "READY" THEN Goto(s, "exec") ELSE Goto(s, "null")
     /\ lsao' = [lsao EXCEPT ![t].state = "IDLE"]
     /\ UNCHANGED <<task, ws, ao, exit, uses>>

\* Operations of tasks of this thread that the device has completed
Complete(s) == {t \in IoTasks : lsao[t].state = "COMPLETE" /\ task[t].last = s}

\* set_val() and take_waiter() for the operations in q
SetVals(q) == [t \in Tasks |-> IF t \in Range(q) THEN [state |-> "READY", waiter |-> FALSE] ELSE lsao[t]]

WaitersOf(q) == SelectSeq(q, LAMBDA t : lsao[t].waiter)

\* local_single_notify_submit(): the poller goes to the back of its queue, the
\* waiters one by one to the front of theirs
LsnSubmit(s, q) ==
  LET c == push_task_back(sched[s], Self(s))
  IN /\ Exec(s) /\ Self(s) \in Pollers
     /\ Len(q) <= MaxNotifyArgs
     /\ lsao' = SetVals(q)
     /\ sched' = [sched EXCEPT ![s] = [c EXCEPT !.pc = "ret", !.tq = Reverse(WaitersOf(q)) \o @]]
     /\ UNCHANGED <<task, ws, ao, exit, uses>>

\* local_single_notify() does not suspend the poller
LocalSingleNotify(s, t) ==
  /\ Exec(s) /\ Self(s) \in Pollers
  /\ lsao' = SetVals(<<t>>)
  /\ sched' = [sched EXCEPT ![s].tq = WaitersOf(<<t>>) \o @]
  /\ UNCHANGED <<task, ws, ao, exit, uses>>

-----------------------------------------------------------------------------

SetExitAll(s) ==
  /\ Exec(s) /\ Self(s) = Exiter /\ ~exit
  /\ exit' = TRUE
  /\ UNCHANGED <<sched, task, ws, ao, lsao, uses>>

\* Controller::wait_for_all() joins the threads, but for one that went wrong
WaitForAll ==
  /\ \A s \in Scheds : At(s, "done") \/ At(s, "crash")
  /\ UNCHANGED vars

Call(s) ==
  \/ Yield(s) \/ Finish(s) \/ TaskWait(s)
  \/ \E t \in Tasks \ Range(MainTask) : Spawn(s, t) \/ SpawnMany(s, t)
  \/ \E a \in SharedAos, k \in {"await", "spin"} : WaitShared(s, a, k)
  \/ \E a \in LocalAos \cup ManyAos : LocalSubscribe(s, a)
  \/ \E a \in ManyAos : LocalRelease(s, a)
  \/ LocalWait(s) \/ LocalReset(s)
  \/ \E a \in Objects, p \in Policies \cup {"LocalSched"} : (a \in SharedAos => p \in Policies) /\ Notify(s, a, p)
  \/ \E q \in SetToSeqs(SharedAos), p \in Policies : NotifySubmit(s, q, p)
  \/ IoSubmit(s) \/ IoWait(s) \/ SetExitAll(s)
  \/ \E q \in SetToSeqs(Complete(s)) : LsnSubmit(s, q)
  \/ \E t \in Complete(s) : LocalSingleNotify(s, t)

SchedStep(s) ==
  \/ DrainRemote(s) \/ RunPoller(s) \/ RunTask(s) \/ Return(s)
  \/ ScanRegistered(s) \/ ScanUnchecked(s) \/ EndScan(s) \/ TrySleep(s) \/ SetCurrentCoro(s)
  \/ DropRef(s) \/ LocalResume(s) \/ IoResume(s)
  \/ SetReady(s) \/ WriterUnsubscribe(s) \/ WakeNext(s) \/ WakeEnd(s)

Next ==
  \/ \E s \in Scheds : SchedStep(s) \/ Call(s)
  \/ \E t \in IoTasks : IoDone(t)
  \/ WaitForAll

Spec == Init /\ [][Next]_vars

\* A thread that can go on does, and so does the device.  Calls are bounded.
FairSpec ==
  /\ Spec
  /\ \A s \in Scheds : WF_vars(SchedStep(s) \/ Call(s))
  /\ \A t \in IoTasks : WF_vars(IoDone(t))

-----------------------------------------------------------------------------
(* Properties *)

\* Every variable has its type.
TypeOK ==
  /\ \A s \in Scheds :
       /\ sched[s].cur \in Tasks \cup {NoTask}
       /\ Range(sched[s].tq) \cup Range(sched[s].pq) \cup Range(sched[s].rq) \subseteq Tasks
       /\ sched[s].rcnt \in Nat
       /\ Range(sched[s].left) \cup Range(sched[s].list) \subseteq Futures
       /\ Range(sched[s].nao) \subseteq Aos
  /\ \A t \in Tasks :
       /\ task[t].st \in {"none", "live", "done"}
       /\ task[t].last \in Scheds \cup {NoTask}
       /\ task[t].w \in Waitsets \cup {<<>>}
  /\ \A w \in Waitsets :
       /\ ws[w].state \in {"INITIAL", "SCANNING", "REDO", "WAITING"}
       /\ Range(ws[w].unchecked) \cup Range(ws[w].registered) \subseteq Futures
  /\ \A a \in Aos :
       /\ ao[a].state \in {"INVALID", "IN_PROGRESS", "READY"}
       /\ ao[a].ref \in Nat
  /\ \A t \in Tasks : lsao[t].state \in {"IDLE", "PENDING", "COMPLETE", "READY"}
  /\ exit \in BOOLEAN

Queued(s) == sched[s].tq \o sched[s].pq \o sched[s].rq
Inside(s) == sched[s].pc \in {"exec", "scan", "cas", "drop", "local", "get_ret"}

\* A task is linked into one queue at most (its list hook is a single one), and
\* never while it executes or on two threads at once: what wakes it wakes it
\* once.
QueuedOnce ==
  \A t \in Tasks :
    LET n(s) == Cardinality({i \in DOMAIN Queued(s) : Queued(s)[i] = t})
    IN /\ \A s \in Scheds : n(s) <= 1 /\ (Inside(s) /\ sched[s].cur = t => \A u \in Scheds : n(u) = 0)
       /\ \A s, u \in Scheds : s # u => (n(s) = 0 \/ n(u) = 0)
       /\ \A s, u \in Scheds : (s # u /\ sched[s].cur = t /\ sched[u].cur = t) => FALSE

Asleep(w) == ws[w].state = "WAITING"

\* A task that sleeps although one of its futures is ready is about to be
\* woken: the notification and the way to sleep cannot miss each other.
NoLostWakeup ==
  \A w \in Waitsets : Asleep(w) =>
    \A f \in Range(ws[w].registered) :
      Ready(f) => \E s \in Scheds : f \in Range(sched[s].list)

\* The task of the future left it by spinning
Spun(f) == task[Owner(f)].spun

\* A notifier goes through futures that still belong to a task that waits, as
\* long as the task waits with co_await.  One that spins in ws.wait_() sees the
\* value before the notifier reaches its future and leaves with it: the walk
\* then meets a future that is gone.  No other future is met so.
NotifiedFuturesLive ==
  \A s \in Scheds :
    /\ \A f \in Range(sched[s].list) : Attached(f) \/ Spun(f)
    /\ sched[s].pc = "crash" => Spun(Head(sched[s].list))

\* A task that is woken finds the value it was woken for, and a scheduler that
\* takes a task from its queue resumes the coroutine suspended last.
WokenInOrder ==
  \A s \in Scheds : sched[s].pc # "null" /\ \A t \in Range(sched[s].tq) : task[t].coro

\* Whoever is to be woken is, and finds what it was woken for.
WakeupsKept == NoLostWakeup /\ WokenInOrder

\* Who holds a reference to a: its writer, until the value is set and the
\* reference dropped; futures; and the future of a child that was waited for,
\* which task_wait() does not drop.
WriterHolds(a) ==
  \/ a \in ManyAos /\ ao[a].public
  \/ a \notin ManyAos /\ ao[a].state = "IN_PROGRESS"
  \/ \E s \in Scheds : sched[s].pc = "unsub" /\ Head(sched[s].nao) = a
Joined(a) == a \in Tasks /\ task[a].st = "done" /\ ~task[a].detached
             /\ \A w \in Waitsets : <<a, w>> \notin Range(ws[w].unchecked) \cup Range(ws[w].registered)

\* An object lives exactly as long as somebody refers to it.
RefsAccount ==
  \A a \in Aos : ao[a].ref =
      Cardinality({w \in Waitsets : <<a, w>> \in Range(ws[w].unchecked) \cup Range(ws[w].registered)})
    + Cardinality({s \in Scheds : sched[s].pc = "drop" /\ Head(sched[s].nao) = a})
    + (IF WriterHolds(a) THEN 1 ELSE 0) + (IF Joined(a) THEN 1 ELSE 0)

\* No queue entry and no reference is lost or doubled.
TasksAccounted == QueuedOnce /\ RefsAccount

\* Whoever waits for a shared object goes on once it is set, unless the
\* scheduler has been told to exit and has stopped without the task, or the
\* notifier has met a future that is gone.
SharedWaitersGoOn ==
  \A a \in SharedAos : \A t \in Waiters[a] :
    LET w == <<t, "ws">>
    IN (ao[a].state = "READY" /\ <<a, w>> \in Range(ws[w].registered))
         ~> \/ Range(ws[w].registered) = {}
            \/ \E s \in Scheds : (sched[s].pc = "done" /\ exit) \/ sched[s].pc = "crash"

\* A device operation is handed back to the task that waits for it.
IoReturns ==
  \A t \in IoTasks : (lsao[t].state = "PENDING" /\ lsao[t].waiter) ~> (lsao[t].state = "IDLE")

\* No task waits for ever for a value that has been set or a device that answered.
WaitersGoOn == SharedWaitersGoOn /\ IoReturns
=============================================================================
