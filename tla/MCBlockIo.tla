----------------------------- MODULE MCBlockIo -----------------------------
(***************************************************************************)
(* Small instances of the backends of the scheduler threads: block IO, or  *)
(* sockets, or the devices of SPDK.                                        *)
(***************************************************************************)
EXTENDS BlockIo, TrtEpoll

Kind(cls) == CASE cls = "direct" -> "none" [] cls \in {"aio", "uring"} -> cls
               [] cls = "sockets" -> "epoll" [] cls = "devices" -> cls
               [] cls \in {"trtspdk", "array"} -> "spdk" [] OTHER -> "mgr"
Conf(cls, f, s, p) == [cls |-> cls, kind |-> Kind(cls), faults |-> f, stop |-> s, prog |-> p]
Faults == {"error", "partial", "eof", "submit"}
Trt == {"aio", "uring", "trtspdk", "array"}
Helpers(o) == << <<"io_pwrite_mbuff_full", o, <<2, 2>>>>, <<"io_pread_mbuff_append_full", o, <<2, 2>>>> >>

\* Both tasks write and read back, through the helpers and the native calls,
\* with faults; and one stops the backend while they run.
Pairs(a, b) == [t \in Tasks |-> IF t = 1 THEN a ELSE b]
MCConfs ==
  {Conf("sockets", {}, FALSE, <<>>), Conf("devices", {}, FALSE, <<>>)} \cup
  {Conf(c, Faults, s, Pairs(Helpers(0), Helpers(4))) : c \in {"aio", "uring", "trtspdk"}, s \in BOOLEAN}
  \cup {Conf("array", {"error"}, s,
             Pairs(<< <<"pwritev", 0, <<2, 2>>>>, <<"pread", 1, <<2>>>> >>,
                   << <<"pwrite", 6, <<6>>>>, <<"pread_native", 6, <<6>>>> >>)) : s \in BOOLEAN}
  \cup {Conf("spdk", {"error"}, FALSE,
             Pairs(<< <<"pwrite", 0, <<8>>>>, <<"pread", 2, <<6>>>> >>,
                   << <<"mmap", 8, <<8>>>>, <<"msync", 8, <<8>>>>, <<"munmap", 8, <<8>>>>, <<"pwrite", 8, <<5>>>> >>))}
  \cup {Conf(c, Faults, FALSE,
             Pairs(<< <<"pwrite", 0, <<2, 2>>>>, <<"pread", 0, <<3>>>> >>,
                   << <<"pwritev", 4, <<2, 2>>>>, <<"preadv", 4, <<2, 2>>>> >>)) : c \in {"direct"} \cup Trt}
  \cup {Conf(c, {"error"}, TRUE,
             Pairs(<< <<"mmap", 0, <<4, 4>>>>, <<"msync", 0, <<4, 4>>>>, <<"munmap", 0, <<4, 4>>>>, <<"msync", 0, <<4, 4>>>> >>,
                   << <<"pread_native", 0, <<2>>>>, <<"pwrite_native", IF c = "array" THEN 12 ELSE 1, <<2>>>> >>)) : c \in Trt \ {"uring"}}
  \* Vectors over the blocks of an array; calls that are not of whole sectors.
  \cup {Conf("array", {}, FALSE,
             Pairs(<< <<w, 0, <<4, 4>>>>, <<r, 0, <<4, 4>>>>, <<"pread", 0, <<8>>>> >>,
                   << <<"pwrite", 8, <<4>>>>, <<"pread_native", 9, <<2>>>>, <<"pread", 9, <<2>>>> >>)) :
           w \in {"pwrite", "pwritev", "io_pwrite_mbuff_full"}, r \in {"preadv", "io_pread_mbuff_append_full"}}
  \cup {Conf("trtspdk", {"submit"}, FALSE,
             Pairs(<< <<"pwrite", 0, <<4>>>>, <<"preadv_native", 1, <<2>>>>, <<"pread", 1, <<2>>>> >>,
                   << <<"pwrite", 5, <<2>>>>, <<"pread", 4, <<2>>>> >>)),
        Conf("spdk", {}, FALSE,
             Pairs(<< <<"pwrite", 0, <<8>>>>, <<"pread", 1, <<4>>>> >>, << <<"pwrite", 9, <<3>>>>, <<"pread", 8, <<4>>>> >>))}
  \cup {Conf("trtspdk", {"error"}, TRUE,
             Pairs(<< <<"pwritev_native", 0, <<2, 2>>>>, <<"preadv_native", 0, <<2, 2>>>> >>,
                   << <<"pwrite_native", 4, <<2>>>>, <<"pread_native", 4, <<2>>>> >>))}

\* Devices: three controllers, one with a namespace that is not active, and
\* targets of the network.
Ns(d, name, size) == [dev |-> d, name |-> name, size |-> size, active |-> TRUE]
Off(ns) == [ns EXCEPT !.active = FALSE]
Local == << <<Ns(1, 30, 8)>>, <<Off(Ns(2, 10, 8)), Ns(3, 10, 12)>>, <<Ns(4, 20, 8)>> >>
Target(ok, d, name) == [wellformed |-> ok, at |-> d, ctrlr |-> <<Ns(d, name, 8)>>]
World(cls, local, targets, user) ==
  [cls |-> cls, env |-> TRUE, local |-> local, targets |-> targets, user |-> user,
   has |-> [u \in 1 .. 5 |-> CASE u = 1 -> {20} [] u = 2 -> {30} [] u = 3 -> {10} [] u = 5 -> {60} [] OTHER -> {}]]
MCWorlds ==
  {World("array", Local, <<>>, u) : u \in {<<>>, <<3, 1>>, <<1, 1>>, <<2, 4>>}}
  \cup {World("spdk", Local, <<>>, <<>>), [World("spdk", Local, <<>>, <<>>) EXCEPT !.env = FALSE],
        World("trtspdk", Local, <<>>, <<1>>)}
  \cup {World("trtspdk", << <<Ns(1, 30, 8)>> >>, <<Target(FALSE, 5, 40), Target(TRUE, 6, 50), Target(TRUE, 7, 60)>>, u) :
           u \in {<<2>>, <<4>>, <<5>>}}

MCMaxSends == [c \in Clients |-> IF c = 1 THEN 2 ELSE 0]

\* Requests and waiting tasks are accounted for: by the counters of the queues, when
\* a backend is done, and by the registrations of sockets.
IoAccounted == CountersAccount /\ DrainedWhenDone /\ WaitersRegistered
\* Every call and every request on a connection comes to its end.
EveryCallReturns == CallsReturn /\ RequestsServed

BackendsInit ==
  /\ Init /\ EpIdle /\ crash = (IF conf.kind = "epoll" THEN "no" ELSE "off")
  /\ IF conf.kind = "devices" THEN SdInit ELSE SdIdle
BackendsNext == \/ Next /\ UNCHANGED <<epVars, sdVars>>
                \/ EpNext /\ UNCHANGED <<vars, sdVars>>
                \/ conf.kind = "devices" /\ SdNext /\ UNCHANGED <<vars, epVars>>
BackendsSpec == /\ BackendsInit /\ [][BackendsNext]_<<vars, epVars, sdVars>>
                /\ WF_vars(Next) /\ EpFairness
=============================================================================
