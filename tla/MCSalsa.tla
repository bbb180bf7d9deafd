------------------------------ MODULE MCSalsa ------------------------------
(***************************************************************************)
(* SALSA, each part in behaviours of its own: a capacity manager that is   *)
(* started and shared by controllers, and the segments of a running one.   *)
(***************************************************************************)
EXTENDS MCSalsaGc, MCScm
VARIABLE phase

SalsaInit ==
  /\ phase \in {"start", "collect"} /\ Init /\ ScmInit
  /\ phase = "start" => type = CHOOSE t \in Types : TRUE
  /\ phase = "collect" => conf = CHOOSE c \in Confs : ~c.kv
SalsaNext ==
  \/ phase = "start" /\ ScmNext /\ UNCHANGED <<vars, phase>>
  \/ phase = "collect" /\ Next /\ UNCHANGED <<scm_vars, phase>>
SalsaSpec ==
  SalsaInit /\ [][SalsaNext]_<<vars, scm_vars, phase>> /\ StartsGoOn
=============================================================================
