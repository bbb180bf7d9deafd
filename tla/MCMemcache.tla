----------------------------- MODULE MCMemcache -----------------------------
(***************************************************************************)
(* A small instance of Memcache.                                           *)
(***************************************************************************)
EXTENDS Memcache

Req(name, ntok, keys) ==
  [name |-> name, ntok |-> ntok, keys |-> keys, args |-> TRUE, long |-> FALSE, flags |-> 0,
   exp |-> 0, vlen |-> 0, data |-> <<>>, block |-> FALSE, num |-> 0, noreply |-> FALSE]

Store(name, flags, exp, data) ==
  [Req(name, 6, <<1>>) EXCEPT !.flags = flags, !.exp = exp, !.data = data,
     !.vlen = Len(data), !.block = TRUE]

NoReply(r) == [r EXCEPT !.ntok = @ + 1, !.noreply = TRUE]

One == <<1, 0, 0>>

First ==
  { Req("get", 3, <<1>>), Req("get", 4, <<1, 2>>),
    Store("set", 1, -1, <<X>>), Store("add", 2, 1, One), Store("replace", 3, 0, <<>>),
    Store("append", 4, 0, <<5>>), Store("prepend", 5, 0, <<X>>),
    [Req("incr", 4, <<1>>) EXCEPT !.num = 150],
    NoReply([Req("decr", 4, <<1>>) EXCEPT !.num = 101]), NoReply(Store("set", 6, 3, <<X>>)),
    [Store("set", 7, 0, <<X>>) EXCEPT !.args = FALSE],
    [Store("set", 8, 0, <<X, X>>) EXCEPT !.vlen = 1],
    [Store("set", 9, 0, <<>>) EXCEPT !.vlen = 1],
    [Store("cas", 10, 0, <<X>>) EXCEPT !.ntok = 7],
    [Req("x", 2, <<1>>) EXCEPT !.long = TRUE], Req("bogus", 2, <<1>>),
    Req("quit", 2, <<1>>), Req("touch", 4, <<1>>) }

Pair(a, b) == [c \in {1, 2} |-> IF c = 1 THEN a ELSE b]

\* One connection that sends a request of any kind and then a get of two
\* keys; and two connections that work on the same key.
MCScripts ==
  {Pair(<<a, Req("get", 4, <<1, 2>>)>>, <<>>) : a \in First}
  \cup
  {Pair(<<a>>, <<Store("set", 11, 3, <<X>>)>>) :
     a \in {r \in First : r.name \in {"append", "incr"}}}
  \cup
  {Pair(<<NoReply(Store("set", 6, 3, <<X>>)), Req("get", 3, <<1>>)>>, <<>>)}

Absent == [k \in {1, 2} |-> NoItem]

MCStores == {Absent, [Absent EXCEPT ![1] = [data |-> One, exp |-> 3, flags |-> 20]]}
=============================================================================
