CONSTANTS
  sA = sA
  sB = sB
  mA = mA
  mB = mB
  c1 = c1
  p1 = p1
  sh = sh
  lo = lo
  my = my
  Scheds = {sA, sB}
  Tasks = {mA, mB, c1, p1}
  NoTask = NoTask
  MainTask <- MCMain
  Pollers = {p1}
  Spawners = {mA}
  Detached = {mA, mB, p1}
  Exiter = mB
  SharedAos = {sh}
  LocalAos = {lo}
  ManyAos = {my}
  Writer <- MCWriter
  Waiters <- MCWaiters
  IoTasks = {c1}
  Spinners = {c1}
  Policies = {"LastTaskScheduler"}
  NtasksLow = 2
  NtasksHigh = 2
  MaxNotifyArgs = 2
  MaxCalls = 1
  Programs = {{"shared", "poll"}, {"shared", "spin"}, {"local"}, {"many"}, {"io", "poll"}}
SPECIFICATION FairSpec
INVARIANTS TasksAccounted WakeupsKept NotifiedFuturesLive
PROPERTIES WaitersGoOn
