------------------------------ MODULE Memcache ------------------------------
(***************************************************************************)
(* The memcache server (net/memcache.cc, net/trt-memcache.cc) and the text *)
(* protocol it speaks (net/mc-helpers.cc).                                 *)
(*                                                                         *)
(* A connection carries atoms: the first part of a command line ("part"),  *)
(* the rest of it with its newline ("line"), the bytes of a data block     *)
(* ("byte") and the delimiter that ends the block ("crlf").  recv() hands  *)
(* over any non-empty prefix of what has arrived.  A value is a sequence   *)
(* of characters: the digits 0..9 and X, which is not a digit; the store   *)
(* keeps it with the expiry time and the flags the code appends to it.     *)
(* Every co_await of a store operation is a step of its own.               *)
(***************************************************************************)
EXTENDS Integers, Sequences, FiniteSets, SequencesExt

CONSTANTS
  Clients,        \* connections
  McKeys,           \* keys
  Scripts,        \* the requests the clients may send: [client -> sequence]
  Stores,         \* the contents the store may start with
  MaxTime,        \* bound on the clock
  RealtimeMaxDelta, \* REALTIME_MAXDELTA: larger expiry times are absolute
  MaxDigits,      \* MAX_VAL_CHAR: digits of the largest 64-bit number
  WordSize,       \* 2^64
  McPoolSize,       \* TASK_ARG_POOL_SIZE
  McMaxTries,       \* attempts to connect while the server is not listening
  McFaults          \* which of the failures below may happen

VARIABLES
  mode,    \* "threads" (MemcacheServer) or "trt" (MemcacheTrtServer)
  script,  \* what the clients are going to send
  mc_srv,     \* [st, exit, active, pool]: the server
  cli,     \* [c -> [st, reqs, piped, tries]]: the client's end of the connection
  wire,    \* [c -> atoms the server has not received yet]
  h,       \* [c -> the server's thread or task for the connection]
  items,   \* [key -> item or NoItem]: the key-value store
  clock,   \* time()
  replies, \* [c -> replies sent], each with the request it answers
  strayed  \* [c -> requests whose data block was parsed as a command line]

mc_vars == <<mode, script, mc_srv, cli, wire, h, items, clock, replies, strayed>>

\* A character that is not a digit.
X == 10

NoItem == [data |-> <<>>, exp |-> -1, flags |-> -1]

ASSUME MemcacheConstants ==
  /\ McPoolSize \in Nat \ {0}
  /\ MaxTime \in Nat
  /\ RealtimeMaxDelta \in Nat
  /\ McFaults \subseteq {"alloc", "put", "intr", "uninit", "cap"}

(***************************************************************************)
(* Conversions                                                             *)
(***************************************************************************)

\* safe_strtoull(): the number a string of digits denotes.
safe_strtoull(s) == FoldLeft(LAMBDA n, d : 10 * n + d, 0, s)

IsNumeric(s) == s # <<>> /\ \A i \in DOMAIN s : s[i] # X

\* snprintf("%lu"): the digits of n, without leading zeros.
Digits(n) ==
  LET k == CHOOSE k \in 1..MaxDigits + 1 :
             n < 10^k /\ (k = 1 \/ n >= 10^(k - 1))
  IN [i \in 1..k |-> (n \div 10^(k - i)) % 10]

\* cmd::sanitize_exp_time(): negative means expired, small means a delay.
sanitize_exp_time(exp) ==
  CASE exp < 0                               -> clock - 1
    [] exp > 0 /\ exp <= RealtimeMaxDelta    -> exp + clock
    [] OTHER                                 -> exp

(***************************************************************************)
(* The parser                                                              *)
(***************************************************************************)

Command(name, lo, hi, req) == [name |-> name, lo |-> lo, hi |-> hi, req |-> req]

\* parse(): the commands, the number of tokens each admits (the terminal
\* token included) and the request it becomes.
CommandTable ==
  { Command("get", 3, 512, "GET"), Command("gets", 3, 512, "GETS"),
    Command("bget", 3, 512, "GET"), Command("add", 6, 7, "ADD"),
    Command("set", 6, 7, "SET"), Command("replace", 6, 7, "REPLACE"),
    Command("prepend", 6, 7, "PREPEND"), Command("append", 6, 7, "APPEND"),
    Command("cas", 7, 8, "CAS"), Command("incr", 4, 5, "INCR"),
    Command("decr", 4, 5, "DECR"), Command("delete", 3, 5, "DEL"),
    Command("touch", 4, 5, "TOUCH"), Command("stats", 2, 512, "STATS"),
    Command("flush_all", 2, 4, "FLUSH_ALL"), Command("version", 2, 2, "VERSION"),
    Command("quit", 2, 2, "QUIT"), Command("shutdown", 2, 2, "QUIT"),
    Command("slabs", 2, 512, "SLABS"), Command("watch", 2, 512, "WATCH"),
    Command("lru_crawler", 2, 512, "LRU_CRAWLER"),
    Command("cache_memlimit", 3, 4, "CACHE_MEMLIMIT"),
    Command("verbosity", 3, 4, "VERBOSITY") }

StorageReqs    == {"ADD", "SET", "REPLACE", "PREPEND", "APPEND"}
MergeReqs      == {"PREPEND", "APPEND"}
ArithmeticReqs == {"INCR", "DECR"}

\* parse_storage_arguments() and parse_arithmetic_arguments(): a key that is
\* too long or an argument that is no number makes the request invalid;
\* noreply has been noted by then, and the expiry time is made absolute.
Invalid(p, rsp) == [p EXCEPT !.req = "INVAL", !.rsp = rsp]

parse_storage_arguments_verify(p, r) ==
  LET q == [p EXCEPT !.noreply = r.noreply]
  IN IF r.args /\ r.exp >= 0 THEN [q EXCEPT !.exp = sanitize_exp_time(r.exp)]
                             ELSE Invalid(q, "CLIENT_ERROR_FORMAT")

parse_storage_arguments(p, r) ==
  LET q == [p EXCEPT !.noreply = r.noreply]
  IN IF r.args THEN [q EXCEPT !.exp = sanitize_exp_time(r.exp)]
               ELSE Invalid(q, "CLIENT_ERROR_FORMAT")

parse_arithmetic_arguments(p, r) ==
  LET q == [p EXCEPT !.noreply = r.noreply]
  IN IF r.args THEN q ELSE Invalid(q, "CLIENT_ERROR_FORMAT")

\* parse(): the command a line holds; p is the cleared command.
parse(p, r) ==
  LET fits == {e \in CommandTable : e.name = r.name /\ r.ntok \in e.lo..e.hi}
      q    == [p EXCEPT !.req = (CHOOSE e \in fits : TRUE).req]
  IN CASE fits = {}                   -> Invalid(p, "ERROR")
       [] fits # {} /\ q.req \in StorageReqs    -> parse_storage_arguments(q, r)
       [] fits # {} /\ q.req \in ArithmeticReqs -> parse_arithmetic_arguments(q, r)
       [] OTHER                       -> q

\* tokenize_command(): what the buffer holds up to the newline at position
\* n is a line of the client only if it starts with one; otherwise it is
\* what is left of a data block, and no command.
tokenize_command(buf, n) ==
  IF buf[1].t \in {"part", "line"} THEN buf[n].r
  ELSE [name |-> "", ntok |-> 2]

\* try_parse_command(): the position of the first newline, 0 for none.
try_parse_command(buf) ==
  LET ends == {i \in DOMAIN buf : buf[i].t \in {"line", "crlf"}}
  IN IF ends = {} THEN 0 ELSE CHOOSE i \in ends : \A j \in ends : i <= j

\* More than 1024 bytes without a newline have to be a large get.
Overlong(buf) ==
  /\ \E i \in DOMAIN buf : buf[i].t = "part" /\ buf[i].r.long
  /\ buf[1].r.name \notin {"get", "gets"}

(***************************************************************************)
(* The server's side of a connection                                       *)
(***************************************************************************)

\* A cleared command (cmd::cmd) and a cleared message buffer.  room says
\* that the connection's value buffer has been given memory.
Fresh(pc, room) ==
  [pc |-> pc, buf |-> <<>>, pos |-> 0, req |-> "INVAL", rsp |-> "INVAL", id |-> 0,
   noreply |-> FALSE, exp |-> 0, err |-> 0, old |-> NoItem, found |-> <<>>,
   next |-> 1, block |-> <<>>, room |-> room]

McIdle == Fresh("none", FALSE)

\* The line the handler works on.
Line(c) == cli[c].reqs[h[c].id]
Key(c)  == Line(c).keys[1]

Connected(c) == cli[c].st = "open"

\* send(): a reply reaches a client that has not closed the connection.
Reply(c, rsp, vals) ==
  replies' = [replies EXCEPT ![c] = IF Connected(c)
    THEN Append(@, [id |-> h[c].id, rsp |-> rsp, vals |-> vals]) ELSE @]

\* The loops of the two servers after a command: go on after success or
\* lack of memory, else close.  A thread also leaves when the server stops;
\* a task does not look at the flag, but closes a connection over which more
\* than its network cap has gone.
LoopHead(room) ==
  Fresh(IF mode = "threads" /\ mc_srv.exit THEN "close" ELSE "read", room)
Goto(c, pc) == h' = [h EXCEPT ![c].pc = pc]
GoOn(c, room) ==
  \/ h' = [h EXCEPT ![c] = LoopHead(room)]
  \/ mode = "trt" /\ "cap" \in McFaults /\ Goto(c, "close")
AfterCommand(c, err) == IF err \in {"0", "ENOMEM"} THEN GoOn(c, h[c].room) ELSE Goto(c, "close")

\* handle_rsp(): the errors of the client keep the connection, those of the
\* server and everything not implemented end it.
ClientErrors == {"ERROR", "CLIENT_ERROR_FORMAT", "CLIENT_ERROR_NON_NUMERIC",
                 "CLIENT_ERROR_BAD_DATA_CHUNK"}
handle_rsp(c, rsp) ==
  /\ Reply(c, rsp, <<>>)
  /\ AfterCommand(c, IF ~Connected(c) \/ rsp \notin ClientErrors \cup
                        {"STORED", "NOT_STORED", "NOT_FOUND"}
                     THEN "ECONNRESET" ELSE "0")

\* handle(): the answer to a storage command is left out after noreply; what
\* handle_store() left in err_ then decides about the connection.
StoreRspQuiet(c, rsp, err) ==
  IF h[c].noreply \/ rsp = "NOT_STORED" THEN AfterCommand(c, err) /\ UNCHANGED replies
                  ELSE handle_rsp(c, rsp)
StoreRsp(c, rsp, err) ==
  IF h[c].noreply THEN AfterCommand(c, err) /\ UNCHANGED replies
                  ELSE handle_rsp(c, rsp)

\* MemcacheServer: accept() starts a thread for the connection, which runs
\* handle_request_thread().
handle_request_thread(c) ==
  /\ mode = "threads" /\ mc_srv.st = "running" /\ cli[c].st = "backlog"
  /\ mc_srv' = [mc_srv EXCEPT !.active = @ + 1]
  /\ cli' = [cli EXCEPT ![c].st = "open"]
  /\ h' = [h EXCEPT ![c] = LoopHead(FALSE)]
  /\ UNCHANGED <<mode, script, wire, items, clock, replies, strayed>>

\* task_mc_accept(): accept and spawn a task for the connection.
task_mc_accept(c) ==
  /\ mode = "trt" /\ mc_srv.st = "running" /\ cli[c].st = "backlog"
  /\ cli' = [cli EXCEPT ![c].st = "open"]
  /\ h' = [h EXCEPT ![c] = Fresh("arg", FALSE)]
  /\ UNCHANGED <<mode, script, mc_srv, wire, items, clock, replies, strayed>>

\* task_serve_mc_request(): take an argument from the pool, or yield.
task_serve_mc_request(c) ==
  /\ h[c].pc = "arg" /\ mc_srv.pool > 0
  /\ mc_srv' = [mc_srv EXCEPT !.pool = @ - 1]
  /\ h' = [h EXCEPT ![c] = LoopHead(FALSE)]
  /\ UNCHANGED <<mode, script, cli, wire, items, clock, replies, strayed>>

\* Both end by closing the socket and freeing the buffers; the thread then
\* counts itself out, the task returns its argument.
Closed(c) ==
  /\ h[c].pc = "close"
  /\ h' = [h EXCEPT ![c] = McIdle]
  /\ cli' = [cli EXCEPT ![c].st = "closed"]
  /\ UNCHANGED <<mode, script, wire, items, clock, replies, strayed>>
CloseThread(c) ==
  mode = "threads" /\ Closed(c) /\ mc_srv' = [mc_srv EXCEPT !.active = @ - 1]
CloseTask(c) ==
  mode = "trt" /\ Closed(c) /\ mc_srv' = [mc_srv EXCEPT !.pool = @ + 1]

\* read_cmd(): receive until a newline has come, then parse the line.
read_cmd(c) ==
  /\ h[c].pc = "read"
  /\ \E n \in 1..Len(wire[c]) :
       LET buf == h[c].buf \o SubSeq(wire[c], 1, n)
           nl  == try_parse_command(buf)
           g   == [h[c] EXCEPT !.buf = buf]
       IN /\ wire' = [wire EXCEPT ![c] = SubSeq(@, n + 1, Len(@))]
          /\ IF nl = 0
             THEN /\ h' = [h EXCEPT ![c] =
                            IF Overlong(buf) THEN [g EXCEPT !.pc = "handle", !.id = buf[1].id]
                            ELSE g]
                  /\ UNCHANGED strayed
             ELSE LET r == tokenize_command(buf, nl)
                  IN /\ h' = [h EXCEPT ![c] = parse([g EXCEPT !.pc = "handle", !.pos = nl,
                                                     !.id = buf[nl].id], r)]
                     /\ strayed' = [strayed EXCEPT ![c] =
                          IF r.name = "" THEN @ \cup {buf[nl].id} ELSE @]
  /\ UNCHANGED <<mode, script, mc_srv, cli, items, clock, replies>>

\* read_cmd(): the client has closed.
ReadEnds(c) ==
  /\ h[c].pc = "read" /\ wire[c] = <<>> /\ ~Connected(c)
  /\ Goto(c, "close")
  /\ UNCHANGED <<mode, script, mc_srv, cli, wire, items, clock, replies, strayed>>

\* read_cmd(): a signal interrupts recv(): the loop ends with no error and no
\* command.
ReadInterrupted(c) ==
  /\ "intr" \in McFaults
  /\ h[c].pc = "read" /\ wire[c] = <<>> /\ Connected(c)
  /\ Goto(c, "handle")
  /\ UNCHANGED <<mode, script, mc_srv, cli, wire, items, clock, replies, strayed>>

(***************************************************************************)
(* get                                                                     *)
(***************************************************************************)

\* kv_get_for_mc(): an item whose time has passed is not there.
kv_get_any(k) == items[k]
kv_get_for_mc(k) ==
  IF items[k] # NoItem /\ items[k].exp # 0 /\ items[k].exp < clock THEN NoItem
  ELSE items[k]

\* prepare_kvmbuff_for_send(): what is sent of an item.
prepare_kvmbuff_for_send(k, item) ==
  [key |-> k, data |-> item.data, flags |-> item.flags, exp |-> item.exp, at |-> clock]

\* handle_get() with one key: the value and END, or END alone.
handle_get(c) ==
  /\ h[c].pc = "handle" /\ h[c].req \in {"GET", "GETS"} /\ Line(c).ntok = 3
  /\ LET item == kv_get_for_mc(Key(c))
     IN /\ Reply(c, "END", IF item = NoItem THEN <<>>
                           ELSE <<prepare_kvmbuff_for_send(Key(c), item)>>)
        /\ IF Connected(c) THEN GoOn(c, h[c].room \/ items[Key(c)] # NoItem)
                           ELSE Goto(c, "close")
  /\ UNCHANGED <<mode, script, mc_srv, cli, wire, items, clock, strayed>>

\* handle_multiget(), one key: handle_single_kv_get() reads it into the
\* next pair of buffers; a missing key is left out.  When no further pair
\* can be had, the rest of the keys is left out.
handle_single_kv_get(c) ==
  /\ h[c].pc = "handle" /\ h[c].req \in {"GET", "GETS"} /\ Line(c).ntok > 3
  /\ h[c].next <= Len(Line(c).keys)
  /\ LET k    == Line(c).keys[h[c].next]
         item == kv_get_for_mc(k)
         g    == [h[c] EXCEPT !.next = @ + 1,
                    !.room = @ \/ (items[k] # NoItem /\ h[c].found = <<>>)]
         took == [g EXCEPT !.found = Append(@, prepare_kvmbuff_for_send(k, item))]
     IN \/ h' = [h EXCEPT ![c] = IF item = NoItem THEN g ELSE took]
        \/ /\ "alloc" \in McFaults /\ item # NoItem
           /\ h' = [h EXCEPT ![c] = [took EXCEPT !.next = Len(Line(c).keys) + 1]]
  /\ UNCHANGED <<mode, script, mc_srv, cli, wire, items, clock, replies, strayed>>

\* handle_multiget(), the answer: END is appended to the last value.  With
\* no key found it goes to the connection's own value buffer, and nothing
\* at all is sent if that has no memory yet.
handle_multiget(c) ==
  /\ h[c].pc = "handle" /\ h[c].req \in {"GET", "GETS"} /\ Line(c).ntok > 3
  /\ h[c].next > Len(Line(c).keys)
  /\ IF h[c].found = <<>> /\ ~h[c].room
     THEN AfterCommand(c, "0") /\ UNCHANGED replies
     ELSE /\ Reply(c, "END", h[c].found)
          /\ AfterCommand(c, IF Connected(c) THEN "0" ELSE "ECONNRESET")
  /\ UNCHANGED <<mode, script, mc_srv, cli, wire, items, clock, strayed>>

(***************************************************************************)
(* Storage commands                                                        *)
(***************************************************************************)

\* handle_store(): the data block and its delimiter.
msg_size(c) == Line(c).vlen + 1

\* handle_store(), up to the receive: allocate, copy what came with the
\* line.  More bytes than the block has make the size to receive negative,
\* which no buffer holds.
handle_store(c) ==
  /\ h[c].pc = "handle" /\ h[c].req \in StorageReqs
  /\ LET rest == SubSeq(h[c].buf, h[c].pos + 1, Len(h[c].buf))
     IN \/ "alloc" \in McFaults /\ StoreRsp(c, "SERVER_ERROR", "ENOMEM")
        \/ Len(rest) > msg_size(c) /\ StoreRsp(c, "SERVER_ERROR", "ENOSPC")
        \/ /\ Len(rest) <= msg_size(c)
           /\ h' = [h EXCEPT ![c].pc = "body", ![c].block = rest, ![c].room = TRUE]
           /\ UNCHANGED replies
  /\ UNCHANGED <<mode, script, mc_srv, cli, wire, items, clock, strayed>>

\* recv_append_to_mbuff(): receive the rest of the block.
RecvBlock(c) ==
  /\ h[c].pc = "body" /\ Len(h[c].block) < msg_size(c)
  /\ \/ LET more == Min({msg_size(c) - Len(h[c].block), Len(wire[c])})
        IN /\ wire[c] # <<>>
           /\ wire' = [wire EXCEPT ![c] = SubSeq(@, more + 1, Len(@))]
           /\ h' = [h EXCEPT ![c].block = @ \o SubSeq(wire[c], 1, more)]
           /\ UNCHANGED replies
     \/ /\ wire[c] = <<>> /\ ~Connected(c)
        /\ StoreRsp(c, "SERVER_ERROR", "ECONNRESET")
        /\ UNCHANGED wire
  /\ UNCHANGED <<mode, script, mc_srv, cli, items, clock, strayed>>

\* The same in a task, when the rest has not come yet: recv_full() resumes the
\* receive before it is ready, and it fails while it is still registered.  The
\* error is answered; closing the connection then aborts the process.
LateBlock(c) ==
  /\ mode = "trt"
  /\ h[c].pc = "body" /\ Len(h[c].block) < msg_size(c)
  /\ wire[c] = <<>> /\ Connected(c)
  /\ \/ ~h[c].noreply /\ Reply(c, "SERVER_ERROR", <<>>)
     \/ UNCHANGED replies
  /\ mc_srv' = [mc_srv EXCEPT !.st = "gone"]
  /\ cli' = [d \in Clients |-> IF cli[d].st = "new" THEN cli[d] ELSE [cli[d] EXCEPT !.st = "closed"]]
  /\ h' = [d \in Clients |-> McIdle]
  /\ wire' = [d \in Clients |-> <<>>]
  /\ UNCHANGED <<mode, script, items, clock, strayed>>

\* The block is complete: it has to end with the delimiter.  When all of it
\* came with the line, recv_append_to_mbuff() returns by a variable that
\* was never set.
CheckBlock(c) ==
  /\ h[c].pc = "body" /\ Len(h[c].block) = msg_size(c)
  /\ \/ /\ "uninit" \in McFaults
        /\ Len(h[c].buf) - h[c].pos = msg_size(c)
        /\ StoreRsp(c, "SERVER_ERROR", "errno")
     \/ /\ h[c].block[msg_size(c)].t # "crlf"
        /\ StoreRsp(c, "CLIENT_ERROR_BAD_DATA_CHUNK", "0")
     \/ /\ h[c].block[msg_size(c)].t = "crlf"
        /\ Goto(c, IF h[c].req \in MergeReqs THEN "old" ELSE "put")
        /\ UNCHANGED replies
  /\ UNCHANGED <<mode, script, mc_srv, cli, wire, items, clock, strayed>>

\* The bytes received.
Data(c) == [i \in 1..Line(c).vlen |-> h[c].block[i].b]

\* kv.put(): set always, add only an absent key, replace only a present
\* one; an item whose time has passed counts as present.
PutOp(c) ==
  CASE h[c].req = "ADD"     -> items[Key(c)] = NoItem
    [] h[c].req = "REPLACE" -> items[Key(c)] # NoItem
    [] OTHER                -> TRUE

mc_put(c) ==
  /\ h[c].pc = "put"
  /\ \/ /\ PutOp(c)
        /\ items' = [items EXCEPT ![Key(c)] =
             [data |-> Data(c), exp |-> h[c].exp, flags |-> Line(c).flags]]
        /\ StoreRsp(c, "STORED", "0")
     \/ /\ ~PutOp(c) \/ "put" \in McFaults
        /\ StoreRsp(c, "NOT_STORED", "0")
        /\ UNCHANGED items
  /\ UNCHANGED <<mode, script, mc_srv, cli, wire, clock, strayed>>

\* append and prepend first read the item.
GetForMerge(c) ==
  /\ h[c].pc = "old" /\ h[c].req \in MergeReqs
  /\ LET item == kv_get_for_mc(Key(c))
     IN IF item = NoItem
        THEN StoreRsp(c, "SERVER_ERROR", "0")
        ELSE h' = [h EXCEPT ![c].pc = "merge", ![c].old = item] /\ UNCHANGED replies
  /\ UNCHANGED <<mode, script, mc_srv, cli, wire, items, clock, strayed>>

\* Then they write the merged data with the expiry time and the flags read.
Merged(c) ==
  [h[c].old EXCEPT !.data = IF h[c].req = "PREPEND" THEN Data(c) \o @ ELSE @ \o Data(c)]

PutMerged(c) ==
  /\ h[c].pc = "merge" /\ h[c].req \in MergeReqs
  /\ \/ /\ items' = [items EXCEPT ![Key(c)] = Merged(c)]
        /\ StoreRsp(c, "STORED", "0")
     \/ /\ "put" \in McFaults
        /\ StoreRsp(c, "SERVER_ERROR", "0")
        /\ UNCHANGED items
  /\ UNCHANGED <<mode, script, mc_srv, cli, wire, clock, strayed>>

(***************************************************************************)
(* incr and decr                                                           *)
(***************************************************************************)

\* handle_arithmetic_cmd() sends its own answer, by handle_rsp() unless
\* noreply was given; err_ is still 0.
ArithmeticRsp(c, rsp) ==
  IF h[c].noreply THEN AfterCommand(c, "0") /\ UNCHANGED replies
                  ELSE handle_rsp(c, rsp)

\* The buffer; without one there is no answer.
AllocArithmetic(c) ==
  /\ h[c].pc = "handle" /\ h[c].req \in ArithmeticReqs
  /\ \/ h' = [h EXCEPT ![c].pc = "old", ![c].room = TRUE]
     \/ "alloc" \in McFaults /\ AfterCommand(c, "ENOMEM")
  /\ UNCHANGED <<mode, script, mc_srv, cli, wire, items, clock, replies, strayed>>

\* The read: the value has to be a number of three characters at least.
GetForArithmetic(c) ==
  /\ h[c].pc = "old" /\ h[c].req \in ArithmeticReqs
  /\ LET item == kv_get_for_mc(Key(c))
         size == Len(item.data)
     IN \/ /\ item = NoItem
           /\ ArithmeticRsp(c, "NOT_FOUND")
        \/ /\ item # NoItem
           /\ size <= 2 \/ MaxDigits < size \/ ~IsNumeric(item.data)
           /\ ArithmeticRsp(c, "CLIENT_ERROR_NON_NUMERIC")
        \/ /\ item # NoItem
           /\ ~(size <= 2 \/ MaxDigits < size \/ ~IsNumeric(item.data))
           /\ h' = [h EXCEPT ![c].pc = "merge", ![c].old = item]
           /\ UNCHANGED replies
  /\ UNCHANGED <<mode, script, mc_srv, cli, wire, items, clock, strayed>>

\* incr wraps around, decr stops at zero.
Sum(c) ==
  LET old == safe_strtoull(h[c].old.data)
      num == Line(c).num
  IN IF h[c].req = "INCR" THEN (num + old) % WordSize
     ELSE IF old < num THEN 0 ELSE old - num

\* handle_arithmetic_cmd(), the write and the answer.
handle_arithmetic_cmd(c) ==
  /\ h[c].pc = "merge" /\ h[c].req \in ArithmeticReqs
  /\ \/ /\ items' = [items EXCEPT ![Key(c)] = [h[c].old EXCEPT !.data = Digits(Sum(c))]]
        /\ IF h[c].noreply THEN AfterCommand(c, "0") /\ UNCHANGED replies
           ELSE /\ Reply(c, "NUMBER", <<[key |-> Key(c), num |-> Sum(c)]>>)
                /\ AfterCommand(c, IF Connected(c) THEN "0" ELSE "ECONNRESET")
     \/ /\ "put" \in McFaults
        /\ ArithmeticRsp(c, "SERVER_ERROR")
        /\ UNCHANGED items
  /\ UNCHANGED <<mode, script, mc_srv, cli, wire, clock, strayed>>

(***************************************************************************)
(* The other commands                                                      *)
(***************************************************************************)

\* handle_stats_cmd(): also what cas and delete are answered with.
handle_stats_cmd(c) ==
  /\ h[c].pc = "handle" /\ h[c].req \in {"CAS", "DEL", "STATS"}
  /\ Reply(c, "STAT", <<>>)
  /\ AfterCommand(c, "0")
  /\ UNCHANGED <<mode, script, mc_srv, cli, wire, items, clock, strayed>>

\* handle(): quit ends the connection without an answer.
Quit(c) ==
  /\ h[c].pc = "handle" /\ h[c].req = "QUIT"
  /\ AfterCommand(c, "ECONNRESET")
  /\ UNCHANGED <<mode, script, mc_srv, cli, wire, items, clock, replies, strayed>>

\* handle(): commands that are not implemented, or no commands at all.
handle(c) ==
  /\ h[c].pc = "handle"
  /\ h[c].req \in {"VERSION", "FLUSH_ALL", "WATCH", "VERBOSITY", "LRU_CRAWLER",
                   "TOUCH", "SLABS", "CACHE_MEMLIMIT", "INVAL"}
  /\ handle_rsp(c, IF h[c].req \in {"TOUCH", "SLABS", "CACHE_MEMLIMIT"}
                   THEN "SERVER_ERROR" ELSE h[c].rsp)
  /\ UNCHANGED <<mode, script, mc_srv, cli, wire, items, clock, strayed>>

(***************************************************************************)
(* Starting and stopping                                                   *)
(***************************************************************************)

ServerTo(st) ==
  /\ mc_srv' = [mc_srv EXCEPT !.st = st]
  /\ UNCHANGED <<mode, script, cli, wire, h, items, clock, replies, strayed>>

\* MemcacheServer::start(): start the server's thread and wait for it.
start == mode = "threads" /\ mc_srv.st = "off" /\ ServerTo("starting")

\* init_fds() in that thread: bind, listen and register the socket.
bind_and_listen == ServerTo("running")
mc_init_fds == mc_srv.st = "starting" /\ bind_and_listen

\* MemcacheTrtServer::start(): listen and spawn the accepting task.
mc_start_trt == mode = "trt" /\ mc_srv.st = "off" /\ ServerTo("running")

\* MemcacheServer::stop() and MemcacheTrtServer::stop(): raise the flag.
RaiseFlag ==
  /\ mc_srv.st = "running" /\ ~mc_srv.exit
  /\ mc_srv' = [mc_srv EXCEPT !.exit = TRUE]
  /\ UNCHANGED <<mode, script, cli, wire, h, items, clock, replies, strayed>>

stop     == mode = "threads" /\ RaiseFlag
stop_trt == mode = "trt" /\ RaiseFlag

\* socket_key_value_server(): its loop ends with the flag set and no
\* connection active, and stop() has joined it.
mc_key_value_server ==
  /\ mode = "threads" /\ mc_srv.st = "running" /\ mc_srv.exit /\ mc_srv.active = 0
  /\ ServerTo("stopped")

\* MemcacheTrtServer::stop(): joins the statistics thread only.
mc_stats ==
  /\ mode = "trt" /\ mc_srv.st = "running" /\ mc_srv.exit
  /\ ServerTo("stopped")

(***************************************************************************)
(* The clients and the clock (external)                                    *)
(***************************************************************************)

\* MemcacheClient::connect() and MemcacheTrtClient::connect(): try again
\* while nobody listens, a number of times.
TryConnect(c) ==
  /\ cli[c].st = "new"
  /\ cli' = [cli EXCEPT ![c] =
       IF mc_srv.st = "running" THEN [@ EXCEPT !.st = "backlog", !.tries = 0]
       ELSE IF @.tries < McMaxTries /\ mc_srv.st \notin {"stopped", "gone"} THEN [@ EXCEPT !.tries = @ + 1]
       ELSE [@ EXCEPT !.st = "closed", !.tries = 0]]
  /\ UNCHANGED <<mode, script, mc_srv, wire, h, items, clock, replies, strayed>>

mc_connect(c) == mode = "threads" /\ TryConnect(c)
connect_trt(c) == mode = "trt" /\ TryConnect(c)

\* The atoms of a request: the line in two parts, the block, its delimiter.
Atom(t, id, r, b) == [t |-> t, id |-> id, r |-> r, b |-> b]
Atoms(r, id) ==
  <<Atom("part", id, r, 0), Atom("line", id, r, 0)>>
    \o (IF r.block THEN [i \in 1..Len(r.data) |-> Atom("byte", id, [name |-> ""], r.data[i])]
                         \o <<Atom("crlf", id, [name |-> ""], 0)>>
        ELSE <<>>)

\* The server has taken in all the client sent.
Waiting(c) == wire[c] = <<>> /\ h[c].pc \in {"arg", "read"} /\ h[c].buf = <<>>

\* A client sends its next request; piped notes that it did not wait for
\* the server to be done with the one before.  (What is sent while the
\* server works on the request before might as well be sent later.)
SendRequest(c) ==
  /\ Connected(c) /\ Len(cli[c].reqs) < Len(script[c])
  /\ wire[c] # <<>> \/ Waiting(c) \/ h[c].pc = "body"
  /\ LET id == Len(cli[c].reqs) + 1
     IN /\ cli' = [cli EXCEPT ![c].reqs = Append(@, script[c][id]),
                              ![c].piped = @ \/ (id > 1 /\ ~Waiting(c))]
        /\ wire' = [wire EXCEPT ![c] = @ \o Atoms(script[c][id], id)]
  /\ UNCHANGED <<mode, script, mc_srv, h, items, clock, replies, strayed>>

\* A client that has sent all its requests closes its end.
Disconnect(c) ==
  /\ Connected(c) /\ cli[c].reqs = script[c]
  /\ cli' = [cli EXCEPT ![c].st = "closed"]
  /\ UNCHANGED <<mode, script, mc_srv, wire, h, items, clock, replies, strayed>>

Tick ==
  /\ clock < MaxTime
  /\ clock' = clock + 1
  /\ UNCHANGED <<mode, script, mc_srv, cli, wire, h, items, replies, strayed>>

McInit ==
  /\ mode \in {"threads", "trt"}
  /\ script \in Scripts
  /\ mc_srv = [st |-> "off", exit |-> FALSE, active |-> 0, pool |-> McPoolSize]
  /\ cli = [c \in Clients |-> [st |-> IF script[c] = <<>> THEN "closed" ELSE "new",
                               reqs |-> <<>>, piped |-> FALSE, tries |-> 0]]
  /\ wire = [c \in Clients |-> <<>>]
  /\ h = [c \in Clients |-> McIdle]
  /\ items \in Stores
  /\ clock = RealtimeMaxDelta + 1
  /\ replies = [c \in Clients |-> <<>>]
  /\ strayed = [c \in Clients |-> {}]

Handler(c) ==
  \/ task_serve_mc_request(c) \/ read_cmd(c) \/ ReadEnds(c) \/ CloseThread(c) \/ CloseTask(c)
  \/ handle_get(c) \/ handle_single_kv_get(c) \/ handle_multiget(c)
  \/ handle_store(c) \/ RecvBlock(c) \/ LateBlock(c) \/ CheckBlock(c) \/ mc_put(c)
  \/ GetForMerge(c) \/ PutMerged(c)
  \/ AllocArithmetic(c) \/ GetForArithmetic(c) \/ handle_arithmetic_cmd(c)
  \/ handle_stats_cmd(c) \/ Quit(c) \/ handle(c)

Server ==
  \/ start \/ mc_init_fds \/ mc_start_trt \/ mc_key_value_server \/ mc_stats
  \/ \E c \in Clients : handle_request_thread(c) \/ task_mc_accept(c)

McNext ==
  \/ \E c \in Clients : Handler(c)
  \/ Server \/ stop \/ stop_trt \/ Tick
  \/ \E c \in Clients :
       mc_connect(c) \/ connect_trt(c) \/ SendRequest(c) \/ Disconnect(c) \/ ReadInterrupted(c)

\* Threads and tasks run.  Nothing is assumed of the clients, nor of signals.
McFairness == WF_mc_vars(Server) /\ \A c \in Clients : WF_mc_vars(Handler(c))

McSpec == McInit /\ [][McNext]_mc_vars /\ McFairness

(***************************************************************************)
(* Properties                                                              *)
(***************************************************************************)

\* Framing: a data block is taken for a command line only when the client
\* pipelines, when its line was refused (the block stays in the socket), when
\* cas is answered without reading its block, when the block is not the one
\* the line announced, or when memory ran out under noreply.
FramingKept ==
  \A c \in Clients : \A i \in strayed[c] :
    LET r == cli[c].reqs[i]
    IN \/ cli[c].piped
       \/ ~r.args \/ r.name = "cas" \/ r.vlen # Len(r.data)
       \/ "alloc" \in McFaults /\ r.noreply

\* The expiry time an item may have that was stored with the time e.
ExpiryOf(e) ==
  CASE e < 0                              -> {}
    [] e > 0 /\ e <= RealtimeMaxDelta     -> {t + e : t \in RealtimeMaxDelta + 1 .. clock}
    [] OTHER                              -> {e}

\* The protocol's promise on expiry times, with the flags: an item handed to
\* a client had not expired when it was read, and its flags and its expiry
\* time are those of one and the same command that stored the key; append,
\* prepend, incr and decr keep them, and an item stored with a negative time
\* is never seen.
ItemsServedIntact ==
  \A c \in Clients : \A i \in DOMAIN replies[c] : \A j \in DOMAIN replies[c][i].vals :
    LET v == replies[c][i].vals[j]
    IN replies[c][i].rsp = "END" =>
         /\ v.exp = 0 \/ v.exp >= v.at
         /\ \/ \E s \in Stores : s[v.key].exp = v.exp /\ s[v.key].flags = v.flags
            \/ \E d \in Clients : \E n \in DOMAIN cli[d].reqs :
                 LET r == cli[d].reqs[n]
                 IN /\ r.name \in {"set", "add", "replace"} /\ r.keys[1] = v.key
                    /\ r.flags = v.flags /\ v.exp \in ExpiryOf(r.exp)

\* A client that waits for its answers gets one for each request, in order,
\* before the server waits for the next one.  A noreply request is answered
\* only by an error of its line, which is found before noreply counts.  An
\* interrupted read is answered too, although there was no request (number 0):
\* that answer is the last one.  Two kinds may go without: incr and decr when
\* memory runs out, and a get of several keys when no key is found and the
\* value buffer is empty.  Nothing is owed when the server closes, at its
\* network cap or because a block came late and the process ended.
AnsweredOnce ==
  \A c \in Clients :
    LET ids == [i \in DOMAIN replies[c] |-> replies[c][i].id]
    IN ~cli[c].piped /\ strayed[c] = {} =>
         /\ \A i, j \in DOMAIN ids : i < j => ids[i] # 0 /\ (ids[i] < ids[j] \/ ids[j] = 0)
         /\ \A i \in DOMAIN ids : ids[i] # 0 /\ cli[c].reqs[ids[i]].noreply =>
              replies[c][i].rsp \in {"ERROR", "CLIENT_ERROR_FORMAT"}
         /\ (Connected(c) /\ Waiting(c)) => \A i \in DOMAIN cli[c].reqs :
              \/ cli[c].reqs[i].noreply
              \/ "alloc" \in McFaults /\ cli[c].reqs[i].name \in {"incr", "decr"}
              \/ cli[c].reqs[i].name \in {"get", "gets"} /\ cli[c].reqs[i].ntok > 3
              \/ i \in Range(ids)

\* The server waits for a client that is connected and silent.
Silent(c) == Connected(c) /\ wire[c] = <<>> /\ h[c].pc \in {"read", "body"}

\* What holds in the end: stop() has returned, or a thread waits for ever for a client that stays connected
\* and sends nothing: the flag does not wake it.
StopReturned ==
  mc_srv.exit => mc_srv.st \in {"stopped", "gone"} \/ \E c \in Clients : Silent(c)
=============================================================================
