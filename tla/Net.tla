-------------------------------- MODULE Net --------------------------------
(***************************************************************************)
(* The remote key-value service: uDepotNet<Net> (net.cc) with its clients  *)
(* (socket.cc), its two servers (SocketServer, one thread that serves one  *)
(* request at a time; TrtEpollServer, one task per connection), the wire   *)
(* format (kv-wire.hh) and serve_kv_request().                             *)
(*                                                                         *)
(* A connection c = <<n, t, s>> is the one that slot t of node n keeps to  *)
(* server s.  A byte stream is a sequence of atoms: the two halves of a    *)
(* request header, the key and the value of its body; a response header, a *)
(* length and a value.  A receive takes any part of what has arrived.      *)
(***************************************************************************)
EXTENDS Integers, Sequences, FiniteSets, SequencesExt

CONSTANTS
  Nodes,       \* server ids, in the order of std::set
  Keys,        \* keys; a key is its own hash
  Topologies,  \* [servers, kind, threads, peers : [node -> server ids], prog, faults]
  MaxTries,    \* attempts of SocketClient::connect()
  PoolSize     \* TASK_ARG_POOL_SIZE

ASSUME NetConstants ==
  /\ Nodes \subseteq Nat \ {0}
  /\ Keys \subseteq Nat
  /\ MaxTries \in Nat \ {0}
  /\ PoolSize \in Nat \ {0}

VARIABLES
  topo,    \* the topology of this behaviour
  node,    \* [n -> [pc, todo, tries]]: start_net_all(), stop_net_all()
  chash,   \* consistent_hash_m: [n -> sequence of server ids, Null = local]
  srv,     \* [n -> [st, exit, cur, free]]: the server
  link,    \* [c -> [cfd, sfd, cut, up, down, ids]]: the connection
  call,    \* [actor -> the key-value operation the actor executes]
  work,    \* [c -> what the server does for the connection]
  store,   \* [n -> [key -> value]]: the local store, 0 when there is none
  prog,    \* [application thread -> the operations it has still to do]
  hist     \* [ok, doubt : [key -> values], seen : [app -> values]] (history)

vars == <<topo, node, chash, srv, link, call, work, store, prog, hist>>

Null == 0
Faults == topo.faults    \* of "reset", "split", "alloc", "put", "sigpipe"
Threads == topo.threads  \* thread_nr: slots of the connection table
Conns == {c \in Nodes \X (0 .. Threads - 1) \X topo.servers : c[3] \in topo.peers[c[1]]}
Apps == DOMAIN topo.prog

\* Threads that call the store: the application's, and the server's for a
\* connection.
Actors == Apps \cup Conns
NodeOf(a) == IF a \in Apps THEN a[1] ELSE a[3]
\* ThreadId::get() % thread_nr_m
Tid(a) == IF a \in Apps THEN a[2] % Threads ELSE (Threads + 1) % Threads
IsServer(n) == n \in topo.servers

Idle == [pc |-> "idle", op |-> "NOP", key |-> 0, val |-> 0, c |-> <<>>, id |-> 0,
         ret |-> "none", out |-> 0]
\* thread_init() fills the pool of task arguments.
NewServer == [st |-> "none", exit |-> FALSE, cur |-> <<>>, free |-> PoolSize]
NoWork == [pc |-> "idle", hdr |-> <<>>, got |-> 0, own |-> TRUE]

(***************************************************************************)
(* Wire format                                                             *)
(***************************************************************************)

ReqHdr(op, id, key, val) == [op |-> op, id |-> id, key |-> key, val |-> val]

\* ReqHdr::body_len()
body_len(hdr) ==
  CASE hdr.op = "GET" -> 1 [] hdr.op = "DEL" -> 1 [] hdr.op = "PUT" -> 2 [] OTHER -> 0

\* A first atom that is not the first half of a header is taken for one.
verify_magic(atom) == atom.kind = "hdr1" /\ atom.hdr.op # "BAD"

ResHdr(err, id) == [kind |-> "res", err |-> err, id |-> id]

\* ResGetHdr, and the value when there is one.
send_get_responose(err, id, val) ==
  <<ResHdr(err, id), [kind |-> "len", n |-> IF err = "OK" THEN 1 ELSE 0]>>
  \o (IF err = "OK" THEN <<[kind |-> "val", val |-> val]>> ELSE <<>>)

\* A request is sent by two calls: the header, and then the body.
SentHdr(hdr) == <<[kind |-> "hdr1", hdr |-> hdr], [kind |-> "hdr2", hdr |-> hdr]>>
SentBody(hdr) ==
  SubSeq(<<[kind |-> "key", hdr |-> hdr], [kind |-> "val", hdr |-> hdr]>>, 1, body_len(hdr))
\* Bytes taken for the body of hdr that are its own body.
Own(hdr, atoms) == \A i \in DOMAIN atoms : atoms[i].kind \in {"key", "val"} /\ atoms[i].hdr = hdr

ClientUp(c) == link[c].cfd = "open"
ServerUp(c) == link[c].sfd = "open"
\* What an end learns of the other one.
ServerGone(c) == link[c].sfd = "closed" \/ link[c].cut
ClientGone(c) == link[c].cfd = "closed" \/ link[c].cut

\* recv_full() returns when all n atoms have come, or with ECONNRESET when
\* the stream ends before.
recv_full(c, n) == Len(link[c].down) >= n \/ ServerGone(c)
Short(c, n) == Len(link[c].down) < n

Take(s, n) == SubSeq(s, n + 1, Len(s))

\* SocketClient::disconnect()
disconnect(l) == [l EXCEPT !.cfd = "closed", !.down = <<>>]

(***************************************************************************)
(* Start: the server, a client for each slot and peer, the routing table   *)
(***************************************************************************)

Ids(S) == SetToSortSeq(S, <)
Self(n) == IF IsServer(n) THEN {n} ELSE {}

\* consistent_hash_m[tid] has a place for each peer and one for the node, if
\* it is a server; the node's own id is skipped without being counted.
setup_consistent_hash_map(n) ==
  LET other == Ids((topo.peers[n] \cup Self(n)) \ Self(n))
  IN [i \in 1 .. Cardinality(topo.peers[n]) + Cardinality(Self(n)) |->
        IF i <= Len(other) THEN other[i] ELSE Null]

\* The clients in the order of init_socket_key_value_client().
ClientConfs(n) ==
  LET p == Cardinality(topo.peers[n])
  IN [i \in 1 .. Threads * p |-> <<n, (i - 1) \div p, Ids(topo.peers[n])[((i - 1) % p) + 1]>>]

\* An empty listen configuration is valid: there is no server.
start_socket(n) ==
  /\ node[n].pc = "off" /\ topo.kind[n] = "socket"
  /\ node' = [node EXCEPT ![n].pc = "clients"]
  /\ srv' = IF IsServer(n) THEN [srv EXCEPT ![n].st = "init"] ELSE srv
  /\ UNCHANGED <<topo, chash, link, call, work, store, prog, hist>>

\* The server's thread: bind_and_listen(), the epoll set; start() waits for
\* srv_thread_ready_m.
init_fds(n) ==
  /\ srv[n].st = "init"
  /\ srv' = [srv EXCEPT ![n].st = "run"]
  /\ UNCHANGED <<topo, node, chash, link, call, work, store, prog, hist>>

start_trt(n) ==
  /\ node[n].pc = "off" /\ topo.kind[n] = "trt"
  /\ node' = [node EXCEPT ![n].pc = "clients"]
  /\ srv' = IF IsServer(n) THEN [srv EXCEPT ![n].st = "run"] ELSE srv
  /\ UNCHANGED <<topo, chash, link, call, work, store, prog, hist>>

NextConf(n) == ClientConfs(n)[node[n].todo]
\* close_all() leaves the listening socket open: it takes connections as long
\* as the process lives.
Listens(s) == srv[s].st \in {"run", "closed"}

connect(n) ==
  /\ node[n].pc = "clients" /\ srv[n].st # "init"
  /\ node[n].todo <= Len(ClientConfs(n)) /\ node[n].tries < MaxTries
  /\ \/ /\ Listens(NextConf(n)[3])
        /\ link' = [link EXCEPT ![NextConf(n)].cfd = "open"]
        /\ node' = [node EXCEPT ![n].todo = @ + 1, ![n].tries = 0]
     \/ /\ ~Listens(NextConf(n)[3])
        /\ node' = [node EXCEPT ![n].tries = @ + 1]
        /\ link' = link
  /\ UNCHANGED <<topo, chash, srv, call, work, store, prog, hist>>

\* init_socket_key_value_client() returns at the first client that cannot be
\* started: those before it stay connected, and only the server is stopped.
init_socket_key_value_client(n) ==
  /\ node[n].pc = "clients" /\ node[n].tries = MaxTries
  /\ node' = [node EXCEPT ![n].pc = "join", ![n].tries = 0]
  /\ srv' = [srv EXCEPT ![n].exit = TRUE]
  /\ UNCHANGED <<topo, chash, link, call, work, store, prog, hist>>

start_net_all(n) ==
  /\ node[n].pc = "clients" /\ srv[n].st # "init"
  /\ node[n].todo > Len(ClientConfs(n))
  /\ node' = [node EXCEPT ![n].pc = "up"]
  /\ chash' = [chash EXCEPT ![n] = setup_consistent_hash_map(n)]
  /\ UNCHANGED <<topo, srv, link, call, work, store, prog, hist>>

(***************************************************************************)
(* Stop: the clients, the server's thread, the tables                      *)
(***************************************************************************)

\* stop_net_all(), when the application's threads have finished: each client
\* that is connected disconnects.
stop_clients(n) ==
  /\ node[n].pc = "up"
  /\ \A a \in Apps : a[1] = n => prog[a] = <<>> /\ call[a].pc = "idle"
  /\ link' = [c \in Conns |-> IF c[1] = n /\ ClientUp(c) THEN disconnect(link[c]) ELSE link[c]]
  /\ node' = [node EXCEPT ![n].pc = "stop"]
  /\ UNCHANGED <<topo, chash, srv, call, work, store, prog, hist>>

stop_server(n) ==
  /\ node[n].pc = "stop"
  /\ srv' = [srv EXCEPT ![n].exit = TRUE]
  /\ node' = [node EXCEPT ![n].pc = "join"]
  /\ UNCHANGED <<topo, chash, link, call, work, store, prog, hist>>

\* srv_thread_m.join(), clear(); TrtEpollServer::stop() waits for nothing.
stop_net_all(n) ==
  /\ node[n].pc = "join"
  /\ srv[n].st \in {"none", "closed"} \/ topo.kind[n] = "trt"
  /\ node' = [node EXCEPT ![n].pc = "down"]
  /\ chash' = [chash EXCEPT ![n] = <<>>]
  /\ UNCHANGED <<topo, srv, link, call, work, store, prog, hist>>

\* The process ends, by itself or by a signal; the system closes its sockets.
Gone(n) ==
  /\ node' = [node EXCEPT ![n].pc = "gone"]
  /\ srv' = [srv EXCEPT ![n].st = "none", ![n].cur = <<>>]
  /\ link' = [c \in Conns |->
                CASE c[3] = n                -> [link[c] EXCEPT !.sfd = "closed"]
                  [] c[1] = n /\ ClientUp(c) -> disconnect(link[c])
                  [] OTHER                   -> link[c]]
  /\ work' = [c \in Conns |-> IF c[3] = n THEN NoWork ELSE work[c]]
  /\ call' = [a \in Actors |-> IF NodeOf(a) = n THEN Idle ELSE call[a]]
  /\ prog' = [a \in Apps |-> IF a[1] = n THEN <<>> ELSE prog[a]]
  /\ UNCHANGED <<topo, chash, store, hist>>

ProcessExit(n) ==
  /\ node[n].pc = "down"
  /\ Gone(n)

\* The network cuts a connection; what is on the way is lost.
Reset(c) ==
  /\ "reset" \in Faults
  /\ ClientUp(c) /\ ServerUp(c) /\ ~link[c].cut
  /\ link' = [link EXCEPT ![c].cut = TRUE, ![c].up = <<>>, ![c].down = <<>>]
  /\ UNCHANGED <<topo, node, chash, srv, call, work, store, prog, hist>>

(***************************************************************************)
(* Operations of the store, called by an application thread or by a server *)
(***************************************************************************)

NetRest == <<topo, node, chash, srv, work, prog, hist>>

\* uDepotNet::get_client(): nullptr stands for the local store.
get_client(a) ==
  LET t == chash[NodeOf(a)]
  IN IF t = <<>> THEN Null ELSE t[(call[a].key % Len(t)) + 1]

At(a, pc, op) == call[a].pc = pc /\ call[a].op = op
Returns(a, ret, out) == call' = [call EXCEPT ![a].pc = "done", ![a].ret = ret, ![a].out = out]
Remote(a) ==
  /\ get_client(a) # Null
  /\ call' = [call EXCEPT ![a].pc = "send", ![a].c = <<NodeOf(a), Tid(a), get_client(a)>>]
  /\ UNCHANGED store
Here(a) == store[NodeOf(a)][call[a].key]

put(a) ==
  /\ At(a, "route", "PUT")
  /\ \/ Remote(a)
     \/ /\ get_client(a) = Null
        /\ store' = [store EXCEPT ![NodeOf(a)][call[a].key] = call[a].val]
        /\ Returns(a, "OK", 0)
     \/ /\ get_client(a) = Null /\ "put" \in Faults
        /\ Returns(a, "ENOSPC", 0) /\ UNCHANGED store
  /\ UNCHANGED link /\ UNCHANGED NetRest

get(a) ==
  /\ At(a, "route", "GET")
  /\ \/ Remote(a)
     \/ /\ get_client(a) = Null
        /\ Returns(a, IF Here(a) = 0 THEN "ENODATA" ELSE "OK", Here(a)) /\ UNCHANGED store
  /\ UNCHANGED link /\ UNCHANGED NetRest

\* The remote path is a get whose value is dropped.
exists(a) ==
  /\ At(a, "route", "EXISTS")
  /\ \/ Remote(a)
     \/ /\ get_client(a) = Null
        /\ Returns(a, IF Here(a) = 0 THEN "ENODATA" ELSE "OK", Here(a)) /\ UNCHANGED store
  /\ UNCHANGED link /\ UNCHANGED NetRest

\* remote_del() is not supported.
del(a) ==
  /\ At(a, "route", "DEL")
  /\ IF get_client(a) # Null
     THEN Returns(a, "ENOTSUP", 0) /\ UNCHANGED store
     ELSE /\ Returns(a, IF Here(a) = 0 THEN "ENODATA" ELSE "OK", 0)
          /\ store' = [store EXCEPT ![NodeOf(a)][call[a].key] = 0]
  /\ UNCHANGED link /\ UNCHANGED NetRest

(***************************************************************************)
(* SocketClient                                                            *)
(***************************************************************************)

CliRest == <<topo, node, chash, srv, work, store, prog, hist>>
Wire(op) == IF op = "EXISTS" THEN "GET" ELSE op

Fails(a, ret) ==
  /\ link' = [link EXCEPT ![call[a].c] = disconnect(@)]
  /\ Returns(a, ret, 0)

Request(a, id) == ReqHdr(Wire(call[a].op), id, call[a].key, call[a].val)

\* A send to a server that has closed: the system takes it and it is lost, or
\* it knows already and the send fails.
Sent(l, c, atoms) == [l EXCEPT ![c].up = IF ServerGone(c) THEN @ ELSE @ \o atoms]

\* sendReq(): the header, with MSG_MORE.  Another thread that shares the
\* connection may send between it and the body.
SendHdr(a) ==
  LET c == call[a].c
  IN /\ \/ /\ ~ClientUp(c)
           /\ Returns(a, "EBADF", 0) /\ UNCHANGED link
        \/ /\ ClientUp(c)
           /\ link' = Sent([link EXCEPT ![c].ids = @ + 1], c, SentHdr(Request(a, link[c].ids)))
           /\ call' = [call EXCEPT ![a].pc = "sendbody", ![a].id = link[c].ids]
        \/ /\ ClientUp(c) /\ ServerGone(c)
           /\ Fails(a, "EPIPE")
     /\ UNCHANGED CliRest

\* sendReq(): the body, which another thread's failure may find closed.
sendReq(a) ==
  LET c == call[a].c
  IN /\ call[a].pc = "sendbody"
     /\ \/ /\ ~ClientUp(c)
           /\ Returns(a, "EBADF", 0) /\ UNCHANGED link
        \/ /\ ClientUp(c)
           /\ link' = Sent(link, c, SentBody(Request(a, call[a].id)))
           /\ call' = [call EXCEPT ![a].pc = "recv"]
        \/ /\ ClientUp(c) /\ ServerGone(c)
           /\ Fails(a, "EPIPE")
     /\ UNCHANGED CliRest

remote_get(a) ==
  /\ At(a, "send", "GET") \/ At(a, "send", "EXISTS")
  /\ SendHdr(a)

remote_put(a) ==
  /\ At(a, "send", "PUT")
  /\ SendHdr(a)

\* Also stands for a client of another build, which sends a delete or
\* something that is no request.  A send that fails leaves it connected.
RawOps == {"NOP", "BAD", "RAWDEL"}
RawConn(a) == <<NodeOf(a), Tid(a), get_client(a)>>
nop(a) ==
  LET c == RawConn(a)
      h == ReqHdr(IF call[a].op = "RAWDEL" THEN "DEL" ELSE call[a].op, link[c].ids, call[a].key, 0)
  IN /\ call[a].pc = "route" /\ call[a].op \in RawOps
     /\ \/ /\ ~ClientUp(c)
           /\ Returns(a, "EBADF", 0) /\ UNCHANGED link
        \/ /\ ClientUp(c)
           /\ link' = Sent([link EXCEPT ![c].ids = @ + 1], c, SentHdr(h) \o SentBody(h))
           /\ call' = [call EXCEPT ![a].pc = "recv", ![a].c = c, ![a].id = h.id]
        \/ /\ ClientUp(c) /\ ServerGone(c)
           /\ link' = [link EXCEPT ![c].ids = @ + 1]
           /\ Returns(a, "EPIPE", 0)
     /\ UNCHANGED CliRest

\* The send of a header does not ask for MSG_NOSIGNAL, that of a body does: to
\* a server that has closed the connection it may end the client's process.
SignalledClient(a) ==
  LET c == IF call[a].pc = "send" THEN call[a].c ELSE RawConn(a)
  IN /\ "sigpipe" \in Faults
     /\ call[a].pc = "send" \/ (call[a].pc = "route" /\ call[a].op \in RawOps)
     /\ ClientUp(c) /\ ServerGone(c)
     /\ Gone(NodeOf(a))

Verified(a, atom) ==
  CASE atom.kind # "res"     -> "EBADMSG"
    [] atom.id # call[a].id  -> "EINVAL"
    [] OTHER                 -> "OK"

recvResHdr(a) ==
  LET c == call[a].c
      r == Head(link[c].down)
  IN /\ call[a].pc = "recv" /\ call[a].op \notin {"GET", "EXISTS"}
     /\ IF ~ClientUp(c) THEN Returns(a, "EBADF", 0) /\ UNCHANGED link
        ELSE /\ recv_full(c, 1)
             /\ CASE Short(c, 1)             -> Fails(a, "ECONNRESET")
                  [] OTHER ->
                     IF Verified(a, r) # "OK" THEN Fails(a, Verified(a, r))
                     ELSE /\ link' = [link EXCEPT ![c].down = Take(@, 1)]
                          /\ Returns(a, r.err, 0)
     /\ UNCHANGED CliRest

\* An error in the header ends the call; there is no value to receive.
recvGetResHdr(a) ==
  LET c == call[a].c
      r == Head(link[c].down)
  IN /\ call[a].pc = "recv" /\ call[a].op \in {"GET", "EXISTS"}
     /\ IF ~ClientUp(c) THEN Returns(a, "EBADF", 0) /\ UNCHANGED link
        ELSE /\ recv_full(c, 2)
             /\ CASE Short(c, 2)             -> Fails(a, "ECONNRESET")
                  [] OTHER ->
                     IF Verified(a, r) # "OK" THEN Fails(a, Verified(a, r))
                     ELSE /\ link' = [link EXCEPT ![c].down = Take(@, 2)]
                          /\ IF r.err # "OK" THEN Returns(a, r.err, 0)
                             ELSE call' = [call EXCEPT ![a].pc = "value"]
     /\ UNCHANGED CliRest

\* mbuff_add_buffers() and append_recv()
append_recv(a) ==
  LET c == call[a].c
  IN /\ call[a].pc = "value"
     /\ \/ /\ "alloc" \in Faults /\ ClientUp(c)
           /\ Fails(a, "ENOMEM")
        \/ /\ ~ClientUp(c)
           /\ Returns(a, "EBADF", 0) /\ UNCHANGED link
        \/ /\ ClientUp(c) /\ recv_full(c, 1)
           /\ IF Short(c, 1) THEN Fails(a, "ECONNRESET")
              ELSE /\ link' = [link EXCEPT ![c].down = Take(@, 1)]
                   /\ Returns(a, "OK", Head(link[c].down).val)
     /\ UNCHANGED CliRest

(***************************************************************************)
(* The servers                                                             *)
(***************************************************************************)

SrvRest == <<topo, node, chash, store, prog, hist>>
Socket(c) == topo.kind[c[3]] = "socket"

\* The one thread of SocketServer is free for the next event.
ThreadFree(c) == Socket(c) => srv[c[3]].cur = <<>>

accept_client(c) ==
  /\ Socket(c) /\ srv[c[3]].st = "run" /\ ThreadFree(c)
  /\ link[c].cfd # "none" /\ link[c].sfd = "none"
  /\ link' = [link EXCEPT ![c].sfd = "open"]
  /\ UNCHANGED <<srv, call, work>> /\ UNCHANGED SrvRest

\* task_accept(): a task for each connection.
task_accept(c) ==
  /\ ~Socket(c) /\ srv[c[3]].st = "run"
  /\ link[c].cfd # "none" /\ link[c].sfd = "none"
  /\ link' = [link EXCEPT ![c].sfd = "open"]
  /\ work' = [work EXCEPT ![c].pc = "arg"]
  /\ UNCHANGED <<srv, call>> /\ UNCHANGED SrvRest

\* task_serve() yields until there is an argument in the pool.
task_serve(c) ==
  /\ work[c].pc = "arg" /\ srv[c[3]].free > 0
  /\ srv' = [srv EXCEPT ![c[3]].free = @ - 1]
  /\ work' = [work EXCEPT ![c].pc = "idle"]
  /\ UNCHANGED <<link, call>> /\ UNCHANGED SrvRest

\* remove_client() of the socket server; put_arg() and close() of the task.
Removed(l, c) == [l EXCEPT ![c].sfd = "closed", ![c].up = <<>>]
Released(c) ==
  srv' = IF Socket(c) THEN [srv EXCEPT ![c[3]].cur = <<>>]
         ELSE [srv EXCEPT ![c[3]].free = @ + 1]
remove_client_kept(c, l) ==
  /\ link' = l
  /\ work' = [work EXCEPT ![c] = NoWork]
  /\ Released(c)
remove_client(c, l) ==
  /\ link' = Removed(l, c)
  /\ work' = [work EXCEPT ![c] = NoWork]
  /\ Released(c)

\* Header and what there is of the body in one recvmsg(): any n atoms of
\* those that have come; a header comes in one piece unless it was split.
recv_request(c) ==
  LET up == link[c].up
      h  == up[1].hdr
  IN /\ work[c].pc = "idle" /\ ServerUp(c) /\ ThreadFree(c)
     /\ \/ /\ up = <<>> /\ ClientGone(c)
           /\ remove_client(c, link) /\ UNCHANGED call
        \/ \E n \in 1 .. Len(up) :
             LET rest == [link EXCEPT ![c].up = Take(@, n)]
             IN /\ n = 1 /\ up[1].kind = "hdr1" => "split" \in Faults
                /\ \/ /\ n = 1
                      /\ remove_client(c, rest) /\ UNCHANGED call
                   \/ /\ n > 1 /\ ~verify_magic(up[1])
                      /\ remove_client(c, [rest EXCEPT ![c].down = @ \o <<ResHdr("EBADMSG", 0)>>])
                      /\ UNCHANGED call
                   \/ /\ n > 1 /\ verify_magic(up[1]) /\ n - 2 > body_len(h)
                      /\ remove_client(c, rest) /\ UNCHANGED call
                   \/ /\ n > 1 /\ verify_magic(up[1]) /\ n - 2 <= body_len(h)
                      /\ link' = rest
                      /\ work' = [work EXCEPT ![c] = [pc |-> IF n - 2 < body_len(h) THEN "body" ELSE "exec",
                                                      hdr |-> h, got |-> n - 2,
                                                      own |-> Own(h, SubSeq(up, 3, n))]]
                      /\ srv' = IF Socket(c) THEN [srv EXCEPT ![c[3]].cur = c] ELSE srv
                      /\ UNCHANGED call
     /\ UNCHANGED SrvRest

\* The rest of the body: the thread waits for it.
recv_append_to_mbuff(c) ==
  LET n == body_len(work[c].hdr) - work[c].got
  IN /\ work[c].pc = "body"
     /\ \/ /\ "alloc" \in Faults
           /\ remove_client(c, link)
        \/ /\ Len(link[c].up) >= n
           /\ link' = [link EXCEPT ![c].up = Take(@, n)]
           /\ work' = [work EXCEPT ![c].pc = "exec",
                                   ![c].own = @ /\ Own(work[c].hdr, SubSeq(link[c].up, 1, n))]
           /\ UNCHANGED srv
        \/ /\ Len(link[c].up) < n /\ ClientGone(c)
           /\ remove_client(c, link)
     /\ UNCHANGED call /\ UNCHANGED SrvRest

\* A task does not wait: recv_full() drives the receive with run_sync(), which
\* resumes it before it is ready.  It fails while it is still registered, and
\* closing the connection then aborts the process.
LateBody(c) ==
  /\ work[c].pc = "body" /\ ~Socket(c) /\ ~ClientGone(c)
  /\ Len(link[c].up) < body_len(work[c].hdr) - work[c].got
  /\ Gone(c[3])

\* The reply is sent; the client may have gone.
Answer(c, atoms) ==
  \/ /\ ~ClientGone(c)
     /\ link' = [link EXCEPT ![c].down = @ \o atoms]
     /\ work' = [work EXCEPT ![c] = NoWork]
     /\ srv' = IF Socket(c) THEN [srv EXCEPT ![c[3]].cur = <<>>] ELSE srv
  \/ /\ ClientGone(c)
     /\ remove_client(c, link)

\* Bytes of another request in the place of the body are some key that nobody
\* reads or writes otherwise.
serve_kv_request(c) ==
  LET h == work[c].hdr
  IN /\ work[c].pc = "exec"
     /\ \/ /\ h.op = "NOP"
           /\ Answer(c, <<ResHdr("OK", h.id)>>) /\ UNCHANGED call
        \/ /\ h.op \in {"PUT", "GET"} /\ ~work[c].own
           /\ Answer(c, IF h.op = "PUT" THEN <<ResHdr("OK", h.id)>>
                        ELSE send_get_responose("ENODATA", h.id, 0))
           /\ UNCHANGED call
        \/ /\ h.op \in {"PUT", "GET"} /\ work[c].own
           /\ call' = [call EXCEPT ![c] = [Idle EXCEPT !.pc = "route", !.op = h.op,
                                             !.key = h.key, !.val = h.val]]
           /\ work' = [work EXCEPT ![c].pc = "wait"]
           /\ UNCHANGED <<srv, link>>
        \/ /\ h.op = "DEL"
           /\ remove_client(c, link) /\ UNCHANGED call
     /\ UNCHANGED SrvRest

ServePut_early(c) ==
  /\ work[c].pc = "wait" /\ work[c].hdr.op = "PUT"
  /\ call[c].pc \in {"route", "done"} /\ link[c].down = <<>>
  /\ Answer(c, <<ResHdr("OK", work[c].hdr.id)>>)
  /\ call' = [call EXCEPT ![c] = Idle]
  /\ UNCHANGED SrvRest
ServePut(c) ==
  /\ work[c].pc = "wait" /\ work[c].hdr.op = "PUT" /\ call[c].pc = "done"
  /\ Answer(c, <<ResHdr(call[c].ret, work[c].hdr.id)>>)
  /\ call' = [call EXCEPT ![c] = Idle]
  /\ UNCHANGED SrvRest

ServeGet(c) ==
  /\ work[c].pc = "wait" /\ work[c].hdr.op = "GET" /\ call[c].pc = "done"
  /\ Answer(c, send_get_responose(call[c].ret, work[c].hdr.id, call[c].out))
  /\ call' = [call EXCEPT ![c] = Idle]
  /\ UNCHANGED SrvRest

\* None of the servers' sends asks for MSG_NOSIGNAL: to a client that has
\* closed the connection they may end the process.
BrokenPipe(c) ==
  /\ "sigpipe" \in Faults
  /\ ClientGone(c)
  /\ \/ work[c].pc = "wait" /\ call[c].pc = "done"
     \/ work[c].pc = "exec" /\ work[c].hdr.op = "NOP"
  /\ Gone(c[3])

\* The loop of the server's thread ends when it has no clients any more.
socket_key_value_server(n) ==
  /\ topo.kind[n] = "socket" /\ srv[n].st = "run" /\ srv[n].exit /\ srv[n].cur = <<>>
  /\ \A c \in Conns : c[3] = n => ~ServerUp(c)
  /\ srv' = [srv EXCEPT ![n].st = "closed"]
  /\ UNCHANGED <<topo, node, chash, link, call, work, store, prog, hist>>

(***************************************************************************)
(* The application's threads                                               *)
(***************************************************************************)

\* op = <<operation, key, value>>
Begin(a) ==
  LET op == Head(prog[a])
  IN /\ call[a].pc = "idle" /\ prog[a] # <<>> /\ node[a[1]].pc = "up"
     /\ call' = [call EXCEPT ![a] = [Idle EXCEPT !.pc = "route", !.op = op[1],
                                       !.key = op[2], !.val = op[3]]]
     /\ prog' = [prog EXCEPT ![a] = Tail(@)]
     /\ hist' = IF op[1] = "PUT"
                THEN [hist EXCEPT !.doubt[op[2]] = @ \cup {op[3]},
                        !.seen = [b \in Apps |-> IF call[b].key = op[2]
                                                 THEN @[b] \cup {op[3]} ELSE @[b]]]
                ELSE [hist EXCEPT !.seen[a] = hist.ok[op[2]] \cup hist.doubt[op[2]]]
     /\ UNCHANGED <<topo, node, chash, srv, link, work, store>>

\* A put that returned no error is the last one; one that failed may still
\* be applied.
Return(a) ==
  /\ call[a].pc = "done"
  /\ call' = [call EXCEPT ![a] = Idle]
  /\ hist' = IF call[a].op = "PUT" /\ call[a].ret = "OK"
             THEN [hist EXCEPT !.ok[call[a].key] = {call[a].val},
                               !.doubt[call[a].key] = @ \ {call[a].val}]
             ELSE hist
  /\ UNCHANGED <<topo, node, chash, srv, link, work, store, prog>>

(***************************************************************************)
(* Specification                                                           *)
(***************************************************************************)

Init ==
  /\ topo \in Topologies
  /\ node = [n \in Nodes |-> [pc |-> IF n \in topo.servers \cup {a[1] : a \in Apps}
                                    THEN "off" ELSE "gone", todo |-> 1, tries |-> 0]]
  /\ chash = [n \in Nodes |-> <<>>]
  /\ srv = [n \in Nodes |-> NewServer]
  /\ link = [c \in Conns |-> [cfd |-> "none", sfd |-> "none", cut |-> FALSE,
                              up |-> <<>>, down |-> <<>>, ids |-> 0]]
  /\ call = [a \in Actors |-> Idle]
  /\ work = [c \in Conns |-> NoWork]
  /\ store = [n \in Nodes |-> [k \in Keys |-> 0]]
  /\ prog = topo.prog
  /\ hist = [ok |-> [k \in Keys |-> {0}], doubt |-> [k \in Keys |-> {}],
             seen |-> [a \in Apps |-> {}]]

Start(n) ==
  \/ start_socket(n) \/ start_trt(n) \/ init_fds(n) \/ connect(n)
  \/ init_socket_key_value_client(n) \/ start_net_all(n)

Stop(n) ==
  \/ stop_clients(n) \/ stop_server(n) \/ stop_net_all(n) \/ ProcessExit(n)
  \/ socket_key_value_server(n)

Kv(a) == put(a) \/ get(a) \/ exists(a) \/ del(a)

Client(a) ==
  \/ remote_get(a) \/ remote_put(a) \/ sendReq(a) \/ nop(a)
  \/ recvResHdr(a) \/ recvGetResHdr(a) \/ append_recv(a)

Serve(c) ==
  \/ accept_client(c) \/ task_accept(c) \/ task_serve(c)
  \/ recv_request(c) \/ recv_append_to_mbuff(c) \/ LateBody(c)
  \/ serve_kv_request(c) \/ ServePut(c) \/ ServeGet(c)

Progress ==
  \/ \E n \in Nodes : Start(n) \/ Stop(n)
  \/ \E a \in Actors : Kv(a) \/ Client(a)
  \/ \E a \in Apps : Begin(a) \/ Return(a)
  \/ \E c \in Conns : Serve(c)

Next ==
  \/ Progress
  \/ \E c \in Conns : Reset(c) \/ BrokenPipe(c)
  \/ \E a \in Actors : SignalledClient(a)

\* Some thread or task that can go on does; an application goes on with its
\* operations and, when it has done them, shuts its store down and exits.  No
\* behaviour repeats a state, so fairness for each thread would say no more.
Fairness == WF_vars(Progress)

Spec == Init /\ [][Next]_vars /\ Fairness

(***************************************************************************)
(* Properties                                                              *)
(***************************************************************************)

\* A server takes requests before its own routing table is set up, and keeps
\* what it should have passed on.
Misplaced(k) ==
  \E n \in topo.servers :
    LET t == setup_consistent_hash_map(n)
    IN store[n][k] # 0 /\ t[(k % Len(t)) + 1] # Null

\* Where node n looks for a key, once its table is set up.
Routed(n, k) ==
  LET t == setup_consistent_hash_map(n)
  IN IF t = <<>> THEN Null ELSE t[(k % Len(t)) + 1]

\* The node whose store holds the key for node n; Null if the servers pass the
\* key round.
Home(n, k) ==
  LET path[i \in 0 .. Cardinality(Nodes)] ==
        IF i = 0 THEN n
        ELSE LET m == path[i - 1] IN IF Routed(m, k) = Null THEN m ELSE Routed(m, k)
      last == path[Cardinality(Nodes)]
  IN IF Routed(last, k) = Null THEN last ELSE Null

\* The nodes with an application look for the key at one place.  Servers that
\* are each other's peers do not: each table leaves out its own node without
\* counting it, so each keeps some keys of its own and passes others round.
PlacesAgree(k) == \E n \in Nodes : \A a \in Apps : Home(a[1], k) = n

\* The threads whose slot of the connection table is that of c: the node's
\* applications and, in a server, the one that serves.
Shared(c) ==
  LET own == {a \in Apps : a[1] = c[1] /\ Tid(a) = c[2]}
      srvs == {n \in Self(c[1]) : (Threads + 1) % Threads = c[2]}
  IN Cardinality(own) + Cardinality(srvs) > 1
SharedBy(a) == \E c \in Conns : c[1] = NodeOf(a) /\ c[2] = Tid(a) /\ Shared(c)

\* A get that succeeds returns the value of the last put of the key that
\* succeeded, or of one that failed and may have been applied; one that finds
\* nothing had nothing to find.  Whatever connections are cut, whatever
\* headers and bodies are split or run out of memory on the way.  Not claimed
\* for a key stored while the server was starting, for a key that two nodes
\* look for in two places, and for threads that share a connection.
GetReadsLastPut ==
  \A a \in Apps :
    call[a].pc = "done" /\ call[a].op \in {"GET", "EXISTS"} /\ ~Misplaced(call[a].key)
    /\ PlacesAgree(call[a].key) /\ ~SharedBy(a) =>
      /\ call[a].ret = "OK" => call[a].out \in hist.seen[a]
      /\ call[a].ret = "ENODATA" => 0 \in hist.seen[a]

\* A connection that threads do not share, that no operation is using and that
\* its client still takes for connected, is in step: neither side has bytes
\* that belong to an operation that is over.
ConnectionsInStep ==
  \A c \in Conns :
    ClientUp(c) /\ ~Shared(c) /\ (\A a \in Actors : call[a].c = c => call[a].pc \in {"idle", "done", "send"})
      => link[c].up = <<>> /\ link[c].down = <<>>

\* A client whose start failed half way, and that still holds a connection.
Leaked(n) == \E c \in Conns : c[3] = n /\ ClientUp(c) /\ node[c[1]].pc \in {"join", "down"}

\* What holds in the end, when the clients go on to theirs: every call of the
\* application has returned, and stop_net_all() has, although it waits for the
\* clients of other nodes, and those for answers of the server that is to
\* stop.  Not claimed when an application uses a key that servers
\* pass round: their threads then wait for each other.
PassedRound == \E a \in Apps : \E i \in DOMAIN topo.prog[a] : Home(a[1], topo.prog[a][i][2]) = Null
AllReturned ==
  PassedRound \/ /\ \A a \in Apps : call[a].pc = "idle"
                 /\ \A n \in Nodes : node[n].pc = "join" => Leaked(n)
=============================================================================
