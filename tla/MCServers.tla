----------------------------- MODULE MCServers -----------------------------
(***************************************************************************)
(* The two services of a store, each in behaviours of its own: the         *)
(* key-value service of other uDepot nodes, and memcache.                  *)
(***************************************************************************)
EXTENDS MCNet, MCMemcache
VARIABLE service

ServersInit ==
  /\ Init /\ McInit /\ service \in {"net", "memcache"}
  /\ service # "net" => topo = CHOOSE t \in Topologies : TRUE
  /\ service # "memcache" => /\ script = CHOOSE s \in Scripts : TRUE
                             /\ items = CHOOSE s \in Stores : TRUE
                             /\ mode = "threads"
ServersNext ==
  \/ service = "net" /\ Next /\ UNCHANGED <<mc_vars, service>>
  \/ service = "memcache" /\ McNext /\ UNCHANGED <<vars, service>>
\* The fairness of the two, each where its service runs.
ServersSpec ==
  /\ ServersInit /\ [][ServersNext]_<<vars, mc_vars, service>>
  /\ WF_vars(service = "net" /\ Progress)
  /\ WF_mc_vars(service = "memcache" /\ Server)
  /\ \A c \in Clients : WF_mc_vars(service = "memcache" /\ Handler(c))

\* Clients of the key-value service read the answers to their own requests, with
\* the values that were stored, whatever is cut or split on the way: where the
\* nodes agree on the place of a key and threads do not share a connection.
AnswersMatch == GetReadsLastPut /\ ConnectionsInStep

\* Both services come to their ends.  Key-value: when the applications go on to
\* theirs, their calls return and so does stop_net_all(), unless servers that
\* are each other's peers pass a key round.  Memcache: stop() returns, unless a
\* client stays connected and silent for ever.
ServersReturn == <>[](AllReturned /\ StopReturned)
=============================================================================
