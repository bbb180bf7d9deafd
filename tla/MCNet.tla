------------------------------- MODULE MCNet -------------------------------
(***************************************************************************)
(* Small instances of Net.                                                 *)
(***************************************************************************)
EXTENDS Net

Peers(f) == [n \in Nodes |-> IF n \in DOMAIN f THEN f[n] ELSE {}]
Kinds(trt) == [n \in Nodes |-> IF n \in trt THEN "trt" ELSE "socket"]

\* Two application threads of one client node, one writer for each key.
MCProgs ==
  { << <<"PUT", 0, 1>>, <<"GET", 0, 0>> >>, << <<"EXISTS", 0, 0>> >>,
    << <<"GET", 0, 0>>, <<"PUT", 0, 1>>, <<"GET", 0, 0>> >>,
    << <<"NOP", 0, 0>>, <<"GET", 0, 0>> >>, << <<"BAD", 0, 0>>, <<"GET", 0, 0>> >>,
    << <<"RAWDEL", 0, 0>>, <<"PUT", 0, 1>> >>, << <<"DEL", 0, 0>> >> }

\* A client of one server, a client of a server that has a peer of its own,
\* a client of two servers, two servers that are each other's peers.
AllFaults == {"reset", "split", "alloc", "put", "sigpipe"}

OneServer(trt, t, f, p) ==
  [servers |-> {1}, kind |-> Kinds(trt), threads |-> t, peers |-> Peers(3 :> {1}), prog |-> p, faults |-> f]
Chain(t, f, p) ==
  [servers |-> {1, 2}, kind |-> Kinds({}), threads |-> t, peers |-> Peers(3 :> {1} @@ 1 :> {2}),
   prog |-> p, faults |-> f]
Two(f, p) ==
  [servers |-> {1, 2}, kind |-> Kinds({1}), threads |-> 1, peers |-> Peers(3 :> {1, 2}), prog |-> p, faults |-> f]

Mutual(f, p) ==
  [servers |-> {1, 2}, kind |-> Kinds({}), threads |-> 2, peers |-> Peers(1 :> {2} @@ 2 :> {1}),
   prog |-> p, faults |-> f]

\* More threads than connections: requests of two threads on one of them.
Crowd ==
  {OneServer(t, 1, {}, <<3, 0>> :> << <<"PUT", 0, 1>>, <<"NOP", 0, 0>> >> @@ <<3, 1>> :> << <<"GET", 0, 0>> >>) :
     t \in {{}, {1}}}

TwoThreads == <<3, 0>> :> << <<"PUT", 0, 1>> >> @@ <<3, 1>> :> << <<"GET", 0, 0>> >>

MCTopologies ==
  Crowd \cup {OneServer(t, 1, AllFaults, <<3, 0>> :> p) : t \in {{}, {1}}, p \in MCProgs}
  \cup {OneServer({}, 2, AllFaults, TwoThreads), OneServer({1}, 2, AllFaults \ {"reset"}, TwoThreads)}
  \cup {Chain(1, {"reset"}, <<3, 0>> :> << <<"GET", 0, 0>> >>),
        Chain(2, {}, <<3, 0>> :> << <<"PUT", 0, 1>> >> @@ <<1, 0>> :> << <<"GET", 0, 0>> >>)}
  \cup {Mutual({}, <<1, 0>> :> << <<"PUT", k, 1>> >> @@ <<2, 0>> :> << <<"GET", k, 0>> >>) : k \in Keys}
  \cup {Two({"sigpipe"}, <<3, 0>> :> << <<"PUT", 1, 1>>, <<"GET", 1, 0>> >>)}
  \cup {OneServer({}, 1, AllFaults, <<1, 0>> :> << <<"PUT", 0, 1>>, <<"EXISTS", 0, 0>>, <<"DEL", 0, 0>> >>)}
=============================================================================
