------------------------------ MODULE TrtEpoll ------------------------------
(***************************************************************************)
(* Sockets of TRT scheduler threads: EpollState, EpollGlobalState and      *)
(* EpollOpAwaitable (trt_epoll), as the TRT server uses them: one thread   *)
(* accepts, connections are spread over the threads, and a task serves     *)
(* each of them.  A step is what a task does between two suspensions.      *)
(***************************************************************************)
EXTENDS Integers, Sequences, FiniteSets, SequencesExt

CONSTANTS
  Threads,   \* scheduler threads, positive integers; the first one accepts
  Clients,   \* file descriptors of the connections, positive integers
  MaxSends,  \* [client -> requests it makes]
  SockBuf    \* answers a socket holds before send() would block

ASSUME TrtEpollConstants ==
  /\ Threads \subseteq Nat \ {0} /\ 1 \in Threads
  /\ Clients \subseteq Nat \ {0}
  /\ MaxSends \in [Clients -> Nat] /\ SockBuf \in Nat \ {0}

VARIABLES
  ep,     \* [thread -> EpollState, the poller and the pool of arguments]
  reg,    \* EpollGlobalState__: [states, idx]
  tk,     \* [descriptor -> the task that works on it]; 0 is the listening one
  sk,     \* [descriptor -> socket]
  crash   \* "no", or the undefined behaviour that was met

epVars == <<ep, reg, tk, sk, crash>>

Listener == 0
ESHUTDOWN == 108
NewEpoll == [st |-> "uninit", poller |-> "none", fds |-> <<>>, pending |-> 0, deque |-> <<>>, pool |-> FALSE]
FdInfo == [in |-> FALSE, out |-> FALSE]
NoTask == [on |-> 1, pc |-> "none", op |-> "recv", val |-> 0]
NewSocket == [st |-> "none", in |-> 0, out |-> 0, sent |-> 0, peer |-> "open"]
Backlog == {c \in Clients : sk[c].st = "backlog"}

\* What the call would do now: go on, or EAGAIN.
Readable(c) == IF c = Listener THEN Backlog # {} ELSE sk[c].in > 0 \/ sk[c].peer = "closed"
Writable(c) == sk[c].out < SockBuf \/ sk[c].peer = "closed"
MayGoOn(c) == IF tk[c].op = "send" THEN Writable(c) ELSE Readable(c)

(***************************************************************************)
(* EpollState.                                                             *)
(***************************************************************************)
register_fd(e, fd) == [e EXCEPT !.fds = [x \in DOMAIN @ \cup {fd} |-> IF x = fd THEN FdInfo ELSE @[x]]]
deregister_fd(e, fd) == [e EXCEPT !.fds = [x \in DOMAIN @ \ {fd} |-> @[x]]]

\* thread_init(): Epoll::init(), the poller and the pool of arguments.
init(s) ==
  /\ crash = "no" /\ ep[s].st = "uninit"
  /\ ep' = [ep EXCEPT ![s] = [NewEpoll EXCEPT !.st = "ready", !.poller = "run", !.pool = TRUE]]
  /\ reg' = [reg EXCEPT !.states = Append(@, s)]
  /\ UNCHANGED <<tk, sk, crash>>

listen ==
  /\ crash = "no" /\ ep[1].st = "ready" /\ tk[Listener].pc = "none"
  /\ ep' = [ep EXCEPT ![1] = register_fd(@, Listener)]
  /\ tk' = [tk EXCEPT ![Listener] = [NoTask EXCEPT !.pc = "run", !.op = "accept"]]
  /\ UNCHANGED <<reg, sk, crash>>

\* thread_exit(): Epoll::stop() wakes whoever waits with ESHUTDOWN, and the
\* pool of arguments is released.
shutdown_all(s) ==
  [c \in DOMAIN tk |->
     IF tk[c].pc = "wait" /\ tk[c].on = s /\ c \in DOMAIN ep[s].fds THEN [tk[c] EXCEPT !.pc = "ready", !.val = ESHUTDOWN]
     ELSE tk[c]]
deregister_epoll_state(s) == [reg EXCEPT !.states = SelectSeq(@, LAMBDA x : x # s)]
stop(s) ==
  /\ crash = "no" /\ ep[s].st = "ready"
  /\ tk' = shutdown_all(s)
  /\ reg' = deregister_epoll_state(s)
  /\ ep' = [ep EXCEPT ![s].st = "done", ![s].fds = <<>>, ![s].pool = FALSE]
  /\ UNCHANGED <<sk, crash>>

\* es_get_rr(): the next of the registered states in turn.
es_get_mod(r) == r.states[(r.idx % Len(r.states)) + 1]
Spawned(k, c, s) == [k EXCEPT ![c] = [NoTask EXCEPT !.on = s, !.pc = "run"]]
\* register_and_spawn(): here, or in the deque of another thread.
Pending(e, c) == [e EXCEPT !.pending = @ - (IF tk[c].pc = "ready" THEN 1 ELSE 0)]
register_and_spawn(s, c) ==
  IF s = 1
  THEN /\ ep' = [ep EXCEPT ![1] = register_fd(Pending(@, Listener), c)]
       /\ tk' = Spawned([tk EXCEPT ![Listener].pc = "run"], c, 1)
  ELSE /\ ep' = [ep EXCEPT ![1] = Pending(@, Listener), ![s].deque = Append(@, c)]
       /\ tk' = [tk EXCEPT ![Listener].pc = "run"]
\* accept_ll() and what the accepting task does with the descriptor.
accept_ll(c) ==
  IF reg.states = <<>>
  THEN crash' = "no state to choose from" /\ UNCHANGED <<ep, reg, tk, sk>>
  ELSE /\ register_and_spawn(es_get_mod(reg), c)
       /\ sk' = [sk EXCEPT ![c].st = "open"]
       /\ reg' = [reg EXCEPT !.idx = (@ + 1) % Cardinality(Threads)]
       /\ UNCHANGED crash

\* notify_maybe() of every descriptor that is readable: they are registered
\* for EPOLLIN only.
notify_maybe(s) ==
  LET hit == {c \in DOMAIN ep[s].fds : Readable(c) /\ ep[s].fds[c].in}
  IN IF ep[s].pending > 0 THEN hit ELSE {}

\* poller_task(): the events, and one entry of the deque.
poller_task(s) ==
  /\ crash = "no" /\ ep[s].poller = "run"
  /\ IF ep[s].st = "done"
     THEN ep' = [ep EXCEPT ![s].poller = "ended"] /\ UNCHANGED tk
     ELSE LET N   == notify_maybe(s)
              new == ep[s].deque # <<>>
              c0  == IF new THEN Head(ep[s].deque) ELSE Listener
              e   == [ep[s] EXCEPT !.fds = [c \in DOMAIN @ |-> IF c \in N THEN FdInfo ELSE @[c]],
                                   !.deque = IF new THEN Tail(@) ELSE @]
              k   == [c \in DOMAIN tk |-> IF c \in N THEN [tk[c] EXCEPT !.pc = "ready", !.val = 0] ELSE tk[c]]
          IN /\ ep' = [ep EXCEPT ![s] = IF new THEN register_fd(e, c0) ELSE e]
             /\ tk' = IF new THEN Spawned(k, c0, s) ELSE k
  /\ UNCHANGED <<reg, sk, crash>>

(***************************************************************************)
(* A call: await_ready(), await_suspend(), await_resume().                 *)
(***************************************************************************)
\* The descriptor is looked up without a check: after stop() it is not there.
await_suspend(c) ==
  LET s == tk[c].on
  IN IF c \notin DOMAIN ep[s].fds
     THEN crash' = "suspended after stop" /\ UNCHANGED <<ep, reg, tk, sk>>
     ELSE /\ ep' = [ep EXCEPT ![s].fds[c] = IF tk[c].op = "send" THEN [@ EXCEPT !.out = TRUE] ELSE [@ EXCEPT !.in = TRUE],
                              ![s].pending = @ + 1]
          /\ tk' = [tk EXCEPT ![c].pc = "wait"]
          /\ UNCHANGED <<reg, sk, crash>>

\* The serving task ends: its argument goes back to the pool of the thread.  The
\* process aborts when somebody still waits for the descriptor, as the call
\* that gives up in run_sync() does (LateBody of Net, LateBlock of Memcache).
Awaited(s, c) == c \in DOMAIN ep[s].fds /\ (ep[s].fds[c].in \/ ep[s].fds[c].out)
close(c) ==
  LET s == tk[c].on
  IN IF Awaited(s, c)
     THEN crash' = "closed while awaited" /\ UNCHANGED <<ep, reg, tk, sk>>
     ELSE IF ~ep[s].pool
     THEN crash' = "argument pool is gone" /\ UNCHANGED <<ep, reg, tk, sk>>
     ELSE /\ ep' = [ep EXCEPT ![s] = deregister_fd(Pending(@, c), c)]
          /\ tk' = [tk EXCEPT ![c].pc = "end"]
          /\ sk' = [sk EXCEPT ![c].st = "closed"]
          /\ UNCHANGED <<reg, crash>>

\* recv() and send() that do not block: a request and its answer in turn, or
\* the end of the connection.
recv(c) ==
  IF sk[c].in = 0 THEN close(c)
  ELSE /\ sk' = [sk EXCEPT ![c].in = @ - 1]
       /\ ep' = [ep EXCEPT ![tk[c].on] = Pending(@, c)]
       /\ tk' = [tk EXCEPT ![c] = [@ EXCEPT !.pc = "run", !.op = "send"]]
       /\ UNCHANGED <<reg, crash>>
send(c) ==
  IF sk[c].peer = "closed" THEN close(c)
  ELSE /\ sk' = [sk EXCEPT ![c].out = @ + 1]
       /\ ep' = [ep EXCEPT ![tk[c].on] = Pending(@, c)]
       /\ tk' = [tk EXCEPT ![c] = [@ EXCEPT !.pc = "run", !.op = "recv"]]
       /\ UNCHANGED <<reg, crash>>
Syscall(c) == CASE tk[c].op = "accept" -> \E n \in Backlog : accept_ll(n)
                [] tk[c].op = "recv" -> recv(c)
                [] tk[c].op = "send" -> send(c)
\* accept() or a call of the serving task has failed.
Failed(c) ==
  IF c = Listener
  THEN /\ tk' = [tk EXCEPT ![c].pc = "end"]
       /\ ep' = [ep EXCEPT ![tk[c].on] = Pending(@, c)]
       /\ UNCHANGED <<reg, sk, crash>>
  ELSE close(c)

await_ready(c) ==
  /\ crash = "no" /\ tk[c].pc = "run"
  /\ IF MayGoOn(c) THEN Syscall(c) ELSE await_suspend(c)
await_resume(c) ==
  /\ crash = "no" /\ tk[c].pc = "ready"
  /\ IF tk[c].val = 0 /\ MayGoOn(c) THEN Syscall(c) ELSE Failed(c)

(***************************************************************************)
(* The clients.                                                            *)
(***************************************************************************)
ClientConnects(c) ==
  /\ sk[c].st = "none" /\ tk[Listener].pc # "none"
  /\ sk' = [sk EXCEPT ![c].st = "backlog"]
  /\ UNCHANGED <<ep, reg, tk, crash>>
ClientSends(c) ==
  /\ sk[c].st \in {"backlog", "open"} /\ sk[c].peer = "open" /\ sk[c].sent < MaxSends[c]
  /\ sk' = [sk EXCEPT ![c].in = @ + 1, ![c].sent = @ + 1]
  /\ UNCHANGED <<ep, reg, tk, crash>>
ClientReads(c) ==
  /\ sk[c].out > 0 /\ sk[c].peer = "open"
  /\ sk' = [sk EXCEPT ![c].out = @ - 1]
  /\ UNCHANGED <<ep, reg, tk, crash>>
ClientLeaves(c) ==
  /\ sk[c].st \in {"backlog", "open"} /\ sk[c].peer = "open"
  /\ sk' = [sk EXCEPT ![c].peer = "closed"]
  /\ UNCHANGED <<ep, reg, tk, crash>>

EpIdle ==
  /\ ep = [s \in Threads |-> NewEpoll] /\ reg = [states |-> <<>>, idx |-> 0]
  /\ tk = [c \in Clients \cup {Listener} |-> NoTask]
  /\ sk = [c \in Clients |-> NewSocket]
EpNext ==
  \/ \E s \in Threads : init(s) \/ stop(s) \/ poller_task(s)
  \/ listen
  \/ \E c \in Clients \cup {Listener} : await_ready(c) \/ await_resume(c)
  \/ \E c \in Clients : ClientConnects(c) \/ ClientSends(c) \/ ClientReads(c) \/ ClientLeaves(c)
\* Schedulers run their tasks in turn, the poller included.
EpFairness ==
  /\ \A s \in Threads : WF_epVars(init(s)) /\ WF_epVars(poller_task(s))
  /\ WF_epVars(listen)
  /\ \A c \in Clients \cup {Listener} : WF_epVars(await_ready(c)) /\ WF_epVars(await_resume(c))

(***************************************************************************)
(* Properties.                                                             *)
(***************************************************************************)
Stopped == \E s \in Threads : ep[s].st = "done"

\* No waiter is lost: a task that waits is registered for its descriptor and
\* direction with a state that is READY, so that the poller, or stop(), finds
\* it; pending_waits_ counts the tasks that wait or have not resumed yet.  A
\* task that was woken by an event finds its call ready ("level-triggered
\* epoll guarantees the fd is ready at this point", trt_epoll.hh:63).
WaitersRegistered ==
  crash = "no" =>
    /\ \A c \in DOMAIN tk :
         /\ tk[c].pc = "wait" => /\ ep[tk[c].on].st = "ready" /\ c \in DOMAIN ep[tk[c].on].fds
                                 /\ IF tk[c].op = "send" THEN ep[tk[c].on].fds[c].out ELSE ep[tk[c].on].fds[c].in
         /\ (tk[c].pc = "ready" /\ tk[c].val = 0) => MayGoOn(c)
    /\ \A s \in Threads :
         ep[s].pending = Cardinality({c \in DOMAIN tk : tk[c].on = s /\ tk[c].pc \in {"wait", "ready"}})

\* What a client has sent is received, on whatever thread its connection was
\* put, unless a thread stops or the answers of that client fill its socket.
RequestsServed ==
  \A c \in Clients : sk[c].in > 0 ~> (sk[c].in = 0 \/ Stopped \/ sk[c].peer = "closed" \/ tk[c].op = "send")
=============================================================================
