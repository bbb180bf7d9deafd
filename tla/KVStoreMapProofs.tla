-------------------------- MODULE KVStoreMapProofs --------------------------
(***************************************************************************)
(* The store is a map: the table leads to the last value put of every key, *)
(* by one entry, and a get returns a value its key had during the get, for *)
(* any number of clients, keys, segments and streams.                      *)
(*                                                                         *)
(* The argument: while no entry has an unused slot between its home and    *)
(* itself, a lookup that finds no entry to read has visited every entry of *)
(* its key's fingerprint.  What it has visited is a record of another key, *)
(* or one that an entry named once and none names any more: such a grain   *)
(* was handed out and left the put that wrote it, and it stays so until    *)
(* its segment is taken again.  The code does not keep a segment from      *)
(* being taken while a lookup remembers a grain of it; everything here is  *)
(* proved up to the first time that happens (the ghost reused).  A put     *)
(* that inserts therefore inserts a key that is absent, and a get that     *)
(* reports a miss saw the key absent.                                      *)
(*                                                                         *)
(* The second part shows when buckets stay packed: the slot that a         *)
(* displacement frees is the only one that may lie before an entry, and an *)
(* insertion fills it.                                                     *)
(***************************************************************************)
EXTENDS KVStoreProofs

-----------------------------------------------------------------------------
(* The table as a map *)

\* A search comes to every entry of its key.
Packed == PackedTable(table)

\* The entries lead to the current versions and to nothing else: T are the
\* grains they name, r the log and cu the current versions.
MapIs(T, r, cu) ==
  /\ \A g \in T : cu[r[g].key] = g
  /\ \A k \in Keys : cu[k] # NoPba => cu[k] \in T /\ r[cu[k]].key = k

\* The grains that call x remembers
Rem(x) == x.visited \cup (IF x.pc \in {"read", "recheck"} THEN {x.cpy.pba} ELSE {})

\* Grain v was handed out, and no put of those that hold H has it any more.
Past(v, sg, H) == v \in Grains /\ v[2] < sg[v[1]].nr3 /\ v \notin H

\* What a lookup has visited is no entry of its key: a record of another key,
\* or one that no entry names and none will.
LookOK(x, T, H, r, sg) ==
  /\ \A v \in Rem(x) : Past(v, sg, H)
  /\ \A v \in x.visited : r[v].key = x.key => v \notin T
  /\ x.pc = "recheck" /\ r[x.cpy.pba].key = x.key => x.md.key = x.key
  /\ x.pc \in {"idle", "drain", "write"} => x.visited = {}

\* A get has seen the current version of its key, and what it reads or returns
\* was current when it was looked up.
GetOK(x, r, cu) ==
  x.op \in GetOps =>
    /\ x.pc # "done" => cu[x.key] \in x.seen
    /\ \A v \in x.visited : r[v].key # x.key
    /\ x.pc = "read" /\ r[x.cpy.pba].key = x.key => x.cpy.pba \in x.seen
    /\ x.pc = "done" => (IF x.res = "ENOSPC" THEN NoPba ELSE x.res) \in x.seen

MInv ==
  /\ MapIs(GrainsOf(table), rec, cur)
  /\ \A c \in Clients : /\ LookOK(cl[c], GrainsOf(table), GrainsHeld(cl), rec, seg)
                        /\ GetOK(cl[c], rec, cur)

\* A fingerprint is the tag and the home of its hash.
LEMMA KeyfpIs ==
  ASSUME NEW h \in Nat, NEW H \in Nat, H > 0, NEW T \in Nat, T > 0
  PROVE  h % (H * T) = ((h \div H) % T) * H + (h % H)
<1> DEFINE q == h \div H
           b == h % H
           a == q \div T
           c == q % T
<1>1. q \in Nat /\ b \in 0 .. H - 1 /\ h = H * q + b
  OBVIOUS
<1> HIDE DEF q, b
<1>2. a \in Nat /\ c \in 0 .. T - 1 /\ q = T * a + c
  BY <1>1
<1> HIDE DEF a, c
<1> DEFINE M == H * T
           d == c * H + b
<1>3. h = a * M + d
  <2>1. H * q = H * (T * a) + H * c
    BY <1>1, <1>2
  <2>2. H * (T * a) = a * M
    BY <1>2
  <2>3. H * c = c * H
    BY <1>2
  <2> QED
    BY <1>1, <1>2, <2>1, <2>2, <2>3
<1>4. M \in Nat /\ M > 0 /\ d \in 0 .. M - 1
  <2>1. c * H <= (T - 1) * H /\ c * H >= 0 /\ c * H \in Int
    BY <1>2
  <2>2. (T - 1) * H = M - H
    OBVIOUS
  <2>3. M \in Nat /\ M > 0
    OBVIOUS
  <2> QED
    BY <1>1, <2>1, <2>2, <2>3
<1> HIDE DEF M, d
<1>5. h % M = d
  BY <1>2, <1>3, <1>4, ModHome
<1>6. M = H * T /\ d = c * H + b /\ c = (h \div H) % T /\ b = h % H
  BY Zenon DEF M, d, q, b, c
<1> QED
  BY <1>5, <1>6

\* A lookup that offers no entry it has not visited has visited every entry of
\* the key.
LEMMA AllVisited ==
  ASSUME GoodTable(table, rec), Packed, NEW k \in Keys, NEW visited,
         \/ lookup_common(k, visited)[1] \in {"ENODATA", "ENOSPC"}
         \/ lookup_common(k, visited) = <<"0", NoSlot>>,
         NEW s \in Slots, Used(table[s]), rec[table[s].pba].key = k
  PROVE  table[s].pba \in visited
<1> DEFINE h == Hash[k]
           holes == {x \in Bucket(h) : ~Used(table[x])}
           tombs == {x \in Bucket(h) : Used(table[x]) /\ Deleted(table[x])}
           found == Matches(table, h, {x \in Bucket(h) : \A o \in holes : x < o})
           off == offered(table, h)
           new == {x \in off : table[x].pba \notin visited}
<1>1. h \in Nat /\ Bucket(h) \subseteq Slots /\ Bucket(h) \subseteq Nat /\ HomesNr \in Nat /\ HomesNr > 0
      /\ TagsNr \in Nat /\ TagsNr > 0
  BY Homes, KVAssumption, HopscotchAssumption DEF Slots, EntryNr
<1>2. AtHome(table[s], s, k) /\ table \in Tables
  BY DEF GoodTable
<1>3. s \in Bucket(h) /\ Live(table[s]) /\ s - table[s].bucket_offset = hash_to_hb(h)
  <2>1. s \in Nat /\ hash_to_hb(h) \in Nat
    BY <1>1, Homes, HopscotchAssumption DEF Slots, EntryNr
  <2> QED
    BY <1>2, <2>1 DEF AtHome, Live
<1>4. entry_keyfp(table, s) = hash_to_keyfp(h)
  <2>1. entry_keyfp(table, s) = hash_to_keytag(h) * HomesNr + hash_to_hb(h)
    BY <1>2, <1>3 DEF entry_keyfp, AtHome
  <2> QED
    <3>1. h % (HomesNr * TagsNr) = ((h \div HomesNr) % TagsNr) * HomesNr + (h % HomesNr)
      <4> HIDE DEF h
      <4> QED
        BY <1>1, KeyfpIs
    <3> QED
      BY <2>1, <3>1, Zenon DEF hash_to_keytag, hash_to_hb, hash_to_keyfp
<1>5. \A o \in holes : s < o
  <2> SUFFICES ASSUME NEW o \in holes, ~(s < o) PROVE FALSE
    OBVIOUS
  <2>1. o \in Bucket(h) /\ ~Used(table[o]) /\ o # s
    OBVIOUS
  <2>2. hash_to_hb(h) \in Nat /\ o >= hash_to_hb(h) /\ s \in Nat /\ o \in Nat /\ o < s
    <3>1. hash_to_hb(h) \in Nat
      BY <1>1, Homes
    <3>2. s \in Nat /\ o \in Nat
      BY <1>1, <1>3, <2>1
    <3> QED
      BY <2>1, <3>1, <3>2, HopscotchAssumption DEF Bucket
  <2>3. o \in s - table[s].bucket_offset .. s - 1
    BY <1>3, <2>2
  <2> QED
    BY <2>1, <2>3 DEF Packed, PackedTable
<1>6. s \in found
  BY <1>3, <1>4, <1>5 DEF Matches
<1>7. lookup(table, h) = <<"0", Min(found)>>
  BY <1>6 DEF lookup
<1>8. found \subseteq Nat /\ Min(found) \in found /\ Min(found) <= s
  <2>1. found \subseteq Nat
    BY <1>1 DEF Matches
  <2> HIDE DEF found
  <2> QED
    BY <1>6, <2>1, MinOfNat
<1>9. s \in off
  <2>1. off = {Min(found)} \cup Matches(table, h, {x \in Bucket(h) : x > Min(found)})
    BY <1>7 DEF offered
  <2>2. s = Min(found) \/ s > Min(found)
    BY <1>1, <1>3, <1>8
  <2> HIDE DEF found, off
  <2> QED
    BY <1>3, <1>4, <2>1, <2>2 DEF Matches
<1>10. lookup_common(k, visited) = <<"0", MinOr(new)>> /\ MinOr(new) = NoSlot
  <2>1. lookup_common(k, visited) \in {<<"assert_visited", NoSlot>>, <<"0", MinOr(new)>>}
    BY <1>7 DEF lookup_common
  <2> QED
    BY <2>1
<1>11. off \subseteq Slots
  BY <1>1, <1>7, <1>8 DEF offered, Matches
<1>12. new = {}
  <2>1. new \subseteq Slots
    BY <1>11
  <2> HIDE DEF new
  <2> QED
    BY <1>10, <2>1, MinOrSlot, SlotType
<1> QED
  BY <1>9, <1>12

\* A call as a step of another leaves it: a get may have seen more.
SawMore(x, y) ==
  /\ y.op = x.op /\ y.pc = x.pc /\ y.key = x.key /\ y.cpy = x.cpy /\ y.md = x.md
  /\ y.visited = x.visited /\ y.res = x.res /\ x.seen \subseteq y.seen

\* What a lookup remembers survives steps of others: a grain enters the table
\* from a put that holds it or when it is handed out.
LEMMA LookKept ==
  ASSUME NEW x, NEW y, NEW T, NEW H, NEW r, NEW sg, LookOK(x, T, H, r, sg), SawMore(x, y),
         NEW T2, NEW H2, NEW r2, NEW sg2, KeepsLog(r, sg, r2, sg2),
         \A g \in T2 : g \in T \cup H \/ ~(g[2] < sg[g[1]].nr3),
         \A g \in H2 : g \in H \/ ~(g[2] < sg[g[1]].nr3)
  PROVE  LookOK(y, T2, H2, r2, sg2)
<1>1. Rem(y) = Rem(x) /\ y.visited = x.visited /\ x.visited \subseteq Rem(x)
  BY DEF Rem, SawMore
<1>2. \A v \in Rem(x) : Past(v, sg, H)
  BY DEF LookOK
<1>3. \A v \in Rem(x) : Past(v, sg2, H2) /\ r2[v] = r[v]
  BY <1>2 DEF Past, KeepsLog
<1>4. ASSUME NEW v \in x.visited, r2[v].key = x.key PROVE v \notin T2
  <2>1. Past(v, sg, H) /\ r2[v] = r[v]
    BY <1>1, <1>2, <1>3
  <2>2. v \notin T
    BY <1>4, <2>1 DEF LookOK
  <2> QED
    BY <2>1, <2>2 DEF Past
<1>5. ASSUME x.pc = "recheck", r2[x.cpy.pba].key = x.key PROVE x.md.key = x.key
  <2>1. x.cpy.pba \in Rem(x)
    BY <1>5 DEF Rem
  <2>2. r2[x.cpy.pba] = r[x.cpy.pba]
    BY <1>3, <2>1
  <2> QED
    BY <1>5, <2>2 DEF LookOK
<1>6. y.pc = x.pc /\ y.key = x.key /\ y.cpy = x.cpy /\ y.md = x.md
  BY DEF SawMore
<1> QED
  BY <1>1, <1>3, <1>4, <1>5, <1>6 DEF LookOK

\* What a get has seen stays good while it takes note of new versions.
LEMMA GetKept ==
  ASSUME NEW x, NEW y, NEW H, NEW r, NEW sg, NEW cu, GetOK(x, r, cu), SawMore(x, y),
         \A v \in Rem(x) : Past(v, sg, H),
         NEW r2, NEW sg2, NEW cu2, KeepsLog(r, sg, r2, sg2),
         x.op \in GetOps /\ x.pc # "done" => cu2[x.key] \in y.seen
  PROVE  GetOK(y, r2, cu2)
<1> SUFFICES ASSUME x.op \in GetOps PROVE GetOK(y, r2, cu2)
  BY DEF GetOK, SawMore
<1>1. x.visited \subseteq Rem(x) /\ (x.pc = "read" => x.cpy.pba \in Rem(x))
  BY DEF Rem
<1>2. \A v \in Rem(x) : r2[v] = r[v]
  BY DEF Past, KeepsLog
<1>3. \A v \in x.visited : r2[v].key # x.key
  BY <1>1, <1>2 DEF GetOK
<1>4. x.pc = "read" /\ r2[x.cpy.pba].key = x.key => x.cpy.pba \in y.seen
  BY <1>1, <1>2 DEF GetOK, SawMore
<1>5. x.pc = "done" => (IF x.res = "ENOSPC" THEN NoPba ELSE x.res) \in y.seen
  BY DEF GetOK, SawMore
<1>6. y.pc = x.pc /\ y.key = x.key /\ y.cpy = x.cpy /\ y.visited = x.visited /\ y.res = x.res
  BY DEF SawMore
<1> QED
  BY <1>3, <1>4, <1>5, <1>6 DEF GetOK

\* A step keeps the map if the entries lead to the current versions after it
\* and every call is either as before or still good.
LEMMA MapStep ==
  ASSUME MInv, KeepsLog(rec, seg, rec', seg'), MapIs(GrainsOf(table'), rec', cur'),
         \A g \in GrainsOf(table') : g \in GrainsOf(table) \cup GrainsHeld(cl) \/ ~(g[2] < seg[g[1]].nr3),
         \A g \in GrainsHeld(cl') : g \in GrainsHeld(cl) \/ ~(g[2] < seg[g[1]].nr3),
         \A c \in Clients :
           \/ /\ SawMore(cl[c], cl'[c])
              /\ cl[c].op \in GetOps /\ cl[c].pc # "done" => cur'[cl[c].key] \in cl'[c].seen
           \/ /\ LookOK(cl'[c], GrainsOf(table'), GrainsHeld(cl'), rec', seg')
              /\ GetOK(cl'[c], rec', cur')
  PROVE  MInv'
<1> SUFFICES ASSUME NEW c \in Clients, SawMore(cl[c], cl'[c]),
                    cl[c].op \in GetOps /\ cl[c].pc # "done" => cur'[cl[c].key] \in cl'[c].seen
             PROVE  /\ LookOK(cl'[c], GrainsOf(table'), GrainsHeld(cl'), rec', seg')
                    /\ GetOK(cl'[c], rec', cur')
  BY DEF MInv
<1>1. LookOK(cl[c], GrainsOf(table), GrainsHeld(cl), rec, seg) /\ GetOK(cl[c], rec, cur)
  BY DEF MInv
<1>2. \A v \in Rem(cl[c]) : Past(v, seg, GrainsHeld(cl))
  BY <1>1 DEF LookOK
<1> DEFINE y == cl'[c]
           T == GrainsOf(table)
           H == GrainsHeld(cl)
           T2 == GrainsOf(table')
           H2 == GrainsHeld(cl')
           r2 == rec'
           sg2 == seg'
           cu2 == cur'
<1>3. LookOK(y, T2, H2, r2, sg2)
  <2>1. /\ \A g \in T2 : g \in T \cup H \/ ~(g[2] < seg[g[1]].nr3)
        /\ \A g \in H2 : g \in H \/ ~(g[2] < seg[g[1]].nr3)
        /\ KeepsLog(rec, seg, r2, sg2) /\ SawMore(cl[c], y) /\ LookOK(cl[c], T, H, rec, seg)
    BY <1>1
  <2> HIDE DEF y, T, H, T2, H2, r2, sg2
  <2> QED
    BY <2>1, LookKept
<1>4. GetOK(y, r2, cu2)
  <2>1. /\ KeepsLog(rec, seg, r2, sg2) /\ SawMore(cl[c], y)
        /\ cl[c].op \in GetOps /\ cl[c].pc # "done" => cu2[cl[c].key] \in y.seen
    OBVIOUS
  <2> HIDE DEF y, r2, sg2, cu2
  <2> QED
    BY <1>1, <1>2, <2>1, GetKept
<1> QED
  BY <1>3, <1>4

\* The log is as before while no segment hands out a grain or is taken.
LEMMA SameLog ==
  ASSUME NEW r, NEW sg
  PROVE  KeepsLog(r, sg, r, sg)
BY DEF KeepsLog

\* A call that nobody touched is as before.
LEMMA SawSame ==
  ASSUME NEW x
  PROVE  SawMore(x, x)
BY DEF SawMore

\* Nothing is asked of a client without an operation.
LEMMA IdleLooks ==
  /\ \A T, H, r, sg : LookOK(Idle, T, H, r, sg)
  /\ \A r, cu : GetOK(Idle, r, cu)
<1>1. Idle.op = "IDLE" /\ Idle.pc = "idle" /\ Idle.visited = {}
  BY DEF Idle
<1> HIDE DEF Idle
<1>2. Rem(Idle) = {}
  BY <1>1 DEF Rem
<1> QED
  BY <1>1, <1>2, Ops DEF LookOK, GetOK

\* A step that changes one call alone
LEMMA MapClientStep ==
  ASSUME KInv, MInv, NEW c \in Clients, NEW x, x.grain = cl[c].grain,
         LookOK(x, GrainsOf(table), GrainsHeld(cl), rec, seg), GetOK(x, rec, cur),
         cl' = [cl EXCEPT ![c] = x], UNCHANGED <<table, rec, gc, cur, segVars>>
  PROVE  MInv'
<1>1. cl \in [Clients -> Call] /\ Apart(table, cl)
  BY DEF KInv
<1>2. cl'[c] = x /\ \A d \in Clients : d # c => cl'[d] = cl[d]
  BY <1>1
<1>3. GrainsHeld(cl') = GrainsHeld(cl)
  BY <1>2 DEF GrainsHeld
<1>4. ASSUME NEW d \in Clients
      PROVE  LookOK(cl'[d], GrainsOf(table), GrainsHeld(cl), rec, seg) /\ GetOK(cl'[d], rec, cur)
  BY <1>2 DEF MInv
<1>5. MapIs(GrainsOf(table), rec, cur)
  BY DEF MInv
<1> QED
  BY <1>3, <1>4, <1>5 DEF MInv, segVars

\* An entry of the table is one of a record handed out, and no put's.
LEMMA EntryPast ==
  ASSUME KInv, NEW s \in Slots, Used(table[s])
  PROVE  table[s].pba \in GrainsOf(table) /\ Past(table[s].pba, seg, GrainsHeld(cl))
<1>1. table[s].pba \in GrainsOf(table)
  BY DEF GrainsOf
<1>2. table[s].pba \in GrainsOf(table) \cup GrainsHeld(cl) /\ table[s].pba \notin GrainsHeld(cl)
  BY <1>1 DEF KInv, Apart
<1> QED
  BY <1>1, <1>2 DEF KInv, SegInv, Past

\* The grains visited are past and no entries of key k.
Visited(visited, k) ==
  \A v \in visited : /\ Past(v, seg, GrainsHeld(cl))
                     /\ rec[v].key = k => v \notin GrainsOf(table)

\* A lookup goes on to read an entry: one of its key is the current version.
LEMMA MapReadEntryStep ==
  ASSUME KInv, MInv, NEW c \in Clients, cl[c].pc # "done", NEW s \in Slots, Used(table[s]),
         NEW visited, Visited(visited, cl[c].key), cl[c].op \in GetOps => visited = cl[c].visited,
         ReadEntry(c, s, visited), UNCHANGED <<table, rec, gc, cur, segVars>>
  PROVE  MInv'
<1> DEFINE x == [cl[c] EXCEPT !.pc = "read", !.slot = s, !.cpy = table[s], !.visited = visited]
<1>1. cl[c] \in Call /\ cl' = [cl EXCEPT ![c] = x]
  BY DEF KInv, ReadEntry
<1>2. /\ x.op = cl[c].op /\ x.pc = "read" /\ x.key = cl[c].key /\ x.grain = cl[c].grain
      /\ x.cpy = table[s] /\ x.visited = visited /\ x.seen = cl[c].seen
  BY <1>1 DEF Call
<1> HIDE DEF x
<1> DEFINE p == table[s].pba
<1>3. p \in GrainsOf(table) /\ Past(p, seg, GrainsHeld(cl))
  BY EntryPast
<1>4. LookOK(x, GrainsOf(table), GrainsHeld(cl), rec, seg)
  <2>1. Rem(x) = visited \cup {p}
    BY <1>2 DEF Rem
  <2> QED
    BY <1>2, <1>3, <2>1 DEF LookOK, Visited
<1>5. GetOK(x, rec, cur)
  <2> SUFFICES ASSUME cl[c].op \in GetOps PROVE GetOK(x, rec, cur)
    BY <1>2 DEF GetOK
  <2>1. cur[cl[c].key] \in cl[c].seen /\ \A v \in visited : rec[v].key # cl[c].key
    BY DEF MInv, GetOK
  <2>2. cur[rec[p].key] = p
    BY <1>3 DEF MInv, MapIs
  <2> QED
    BY <1>2, <2>1, <2>2 DEF GetOK
<1> QED
  BY <1>1, <1>2, <1>4, <1>5, MapClientStep

\* A call that stops where its list is full keeps what it has.
LEMMA MapOverflowStep ==
  ASSUME KInv, MInv, NEW c \in Clients, cl[c].pc # "done",
         Goto(c, "assert_visited"), UNCHANGED <<table, rec, gc, cur, segVars>>
  PROVE  MInv'
<1> DEFINE x == [cl[c] EXCEPT !.pc = "assert_visited"]
<1>1. cl[c] \in Call /\ cl' = [cl EXCEPT ![c] = x]
  BY DEF KInv, Goto
<1>2. /\ x.op = cl[c].op /\ x.pc = "assert_visited" /\ x.key = cl[c].key /\ x.grain = cl[c].grain
      /\ x.visited = cl[c].visited /\ x.seen = cl[c].seen
  BY <1>1 DEF Call
<1> HIDE DEF x
<1>3. LookOK(cl[c], GrainsOf(table), GrainsHeld(cl), rec, seg) /\ GetOK(cl[c], rec, cur)
  BY DEF MInv
<1>4. LookOK(x, GrainsOf(table), GrainsHeld(cl), rec, seg)
  BY <1>2, <1>3 DEF LookOK, Rem
<1>5. GetOK(x, rec, cur)
  BY <1>2, <1>3 DEF GetOK
<1> QED
  BY <1>1, <1>2, <1>4, <1>5, MapClientStep

\* A header that is read tells whether the record has the key.
LEMMA MapHeaderReadStep ==
  ASSUME KInv, MInv, NEW c \in Clients, HeaderRead(c)
  PROVE  MInv'
<1> DEFINE r == rec[cl[c].cpy.pba]
           m == IF IsKey(c, r) THEN r ELSE NoRec
           x == [cl[c] EXCEPT !.pc = "recheck", !.md = m]
<1>1. cl[c] \in Call /\ cl[c].pc = "read" /\ cl[c].op \notin GetOps
  BY Ops DEF KInv, HeaderRead
<1>2. cl' = [cl EXCEPT ![c] = x] /\ UNCHANGED <<table, rec, gc, cur, segVars>>
  BY DEF HeaderRead
<1>3. rec[cl[c].cpy.pba].key = cl[c].key => m.key = cl[c].key
  BY DEF IsKey
<1> HIDE DEF m
<1>4. /\ x.op = cl[c].op /\ x.pc = "recheck" /\ x.key = cl[c].key /\ x.grain = cl[c].grain
      /\ x.cpy = cl[c].cpy /\ x.md = m /\ x.visited = cl[c].visited
  BY <1>1 DEF Call
<1> HIDE DEF x
<1>5. LookOK(cl[c], GrainsOf(table), GrainsHeld(cl), rec, seg)
  BY DEF MInv
<1>6. LookOK(x, GrainsOf(table), GrainsHeld(cl), rec, seg)
  <2>1. Rem(x) = Rem(cl[c])
    BY <1>1, <1>4 DEF Rem
  <2> QED
    BY <1>3, <1>4, <1>5, <2>1 DEF LookOK
<1>7. GetOK(x, rec, cur)
  BY <1>1, <1>4 DEF GetOK
<1> QED
  BY <1>2, <1>4, <1>6, <1>7, MapClientStep

\* A get that begins has seen the version of its key that is current.
LEMMA MapReadStartStep ==
  ASSUME KInv, MInv, NEW c \in Clients, NEW k \in GetKeys, NEW op \in GetOps, ReadStart(c, k, op)
  PROVE  MInv'
<1> DEFINE x == [Idle EXCEPT !.op = op, !.pc = "lock", !.key = k, !.seen = {cur[k]}]
<1>1. cl[c].grain = NoPbaYet
  BY Ops DEF KInv, ReadStart, CallOK
<1>2. cl' = [cl EXCEPT ![c] = x] /\ UNCHANGED <<table, rec, gc, cur, segVars>>
  BY DEF ReadStart
<1>3. Idle \in Call /\ Idle.grain = NoPbaYet /\ Idle.visited = {}
  BY IdleCall DEF Idle
<1>4. /\ x.op = op /\ x.pc = "lock" /\ x.key = k /\ x.grain = NoPbaYet /\ x.visited = {}
      /\ x.seen = {cur[k]}
  BY <1>3 DEF Call
<1> HIDE DEF x
<1>5. LookOK(x, GrainsOf(table), GrainsHeld(cl), rec, seg)
  <2>1. Rem(x) = {}
    BY <1>4 DEF Rem
  <2> QED
    BY <1>4, <2>1 DEF LookOK
<1>6. GetOK(x, rec, cur)
  BY <1>4 DEF GetOK
<1> QED
  BY <1>1, <1>2, <1>4, <1>5, <1>6, MapClientStep

\* A get returns a version it has seen.
LEMMA MapGetResultStep ==
  ASSUME KInv, MInv, NEW c \in Clients, cl[c].op \in GetOps, NEW res,
         (IF res = "ENOSPC" THEN NoPba ELSE res) \in cl[c].seen,
         GetResult(c, res), UNCHANGED <<table, rec, gc, cur, segVars>>
  PROVE  MInv'
<1> DEFINE x == [Idle EXCEPT !.op = cl[c].op, !.pc = "done", !.seen = cl[c].seen, !.res = res]
<1>1. cl[c].grain = NoPbaYet
  BY Ops DEF KInv, CallOK
<1>2. cl' = [cl EXCEPT ![c] = x]
  BY DEF GetResult
<1>3. Idle \in Call /\ Idle.grain = NoPbaYet /\ Idle.visited = {}
  BY IdleCall DEF Idle
<1>4. /\ x.op = cl[c].op /\ x.pc = "done" /\ x.grain = NoPbaYet /\ x.visited = {}
      /\ x.seen = cl[c].seen /\ x.res = res
  BY <1>3 DEF Call
<1> HIDE DEF x
<1>5. LookOK(x, GrainsOf(table), GrainsHeld(cl), rec, seg)
  <2>1. Rem(x) = {}
    BY <1>4 DEF Rem
  <2> QED
    BY <1>4, <2>1 DEF LookOK
<1>6. GetOK(x, rec, cur)
  BY <1>4 DEF GetOK
<1> QED
  BY <1>1, <1>2, <1>4, <1>5, <1>6, MapClientStep

\* A get goes on from a record that is not of its key.
LEMMA MapNextRoundStep ==
  ASSUME KInv, MInv, NEW c \in Clients, cl[c].op \in GetOps, cl[c].pc = "read",
         rec[cl[c].cpy.pba].key # cl[c].key, NextRound(c), UNCHANGED <<table, rec, gc, cur, segVars>>
  PROVE  MInv'
<1> DEFINE v == cl[c].visited \cup {cl[c].cpy.pba}
           x == [cl[c] EXCEPT !.pc = "lock", !.visited = v, !.slot = NoSlot, !.cpy = Unused]
<1>1. cl[c] \in Call /\ cl' = [cl EXCEPT ![c] = x]
  BY DEF KInv, NextRound
<1>2. v = Rem(cl[c])
  BY DEF Rem
<1>3. LookOK(cl[c], GrainsOf(table), GrainsHeld(cl), rec, seg) /\ GetOK(cl[c], rec, cur)
  BY DEF MInv
<1>4. \A g \in v : Past(g, seg, GrainsHeld(cl)) /\ rec[g].key # cl[c].key
  BY <1>2, <1>3 DEF LookOK, GetOK
<1> HIDE DEF v
<1>5. /\ x.op = cl[c].op /\ x.pc = "lock" /\ x.key = cl[c].key /\ x.grain = cl[c].grain
      /\ x.visited = v /\ x.seen = cl[c].seen
  BY <1>1 DEF Call
<1> HIDE DEF x
<1>6. LookOK(x, GrainsOf(table), GrainsHeld(cl), rec, seg)
  <2>1. Rem(x) = v
    BY <1>5 DEF Rem
  <2> QED
    BY <1>4, <1>5, <2>1 DEF LookOK
<1>7. GetOK(x, rec, cur)
  BY <1>3, <1>4, <1>5 DEF GetOK
<1> QED
  BY <1>1, <1>5, <1>6, <1>7, MapClientStep

\* A lookup that ends without an entry to read: the key is absent.
LEMMA Absent ==
  ASSUME KInv, MInv, Packed, NEW k \in Keys, NEW visited, Visited(visited, k),
         \/ lookup_common(k, visited)[1] \in {"ENODATA", "ENOSPC"}
         \/ lookup_common(k, visited) = <<"0", NoSlot>>
  PROVE  cur[k] = NoPba
<1> SUFFICES ASSUME cur[k] # NoPba PROVE FALSE
  OBVIOUS
<1>1. cur[k] \in GrainsOf(table) /\ rec[cur[k]].key = k
  BY DEF MInv, MapIs
<1>2. PICK s \in Slots : Used(table[s]) /\ cur[k] = table[s].pba
  BY <1>1 DEF GrainsOf
<1>3. GoodTable(table, rec) /\ rec[table[s].pba].key = k
  BY <1>1, <1>2 DEF KInv
<1>4. table[s].pba \in visited
  BY <1>2, <1>3, AllVisited
<1> QED
  BY <1>1, <1>2, <1>4 DEF Visited

\* What a call that remembers nothing else has visited
LEMMA CallVisited ==
  ASSUME MInv, NEW c \in Clients
  PROVE  Visited(cl[c].visited, cl[c].key)
<1>1. LookOK(cl[c], GrainsOf(table), GrainsHeld(cl), rec, seg)
  BY DEF MInv
<1>2. cl[c].visited \subseteq Rem(cl[c])
  BY DEF Rem
<1> QED
  BY <1>1, <1>2 DEF LookOK, Visited

\* A round of a get's lookup: it reads on, or the key is absent.
LEMMA MapLookupRoundStep ==
  ASSUME KInv, MInv, Packed, NEW c \in Clients, cl[c].op \in GetOps, cl[c].pc = "lock", LookupRound(c),
         UNCHANGED <<table, rec, gc, cur, segVars>>
  PROVE  MInv'
<1> DEFINE k == cl[c].key
           r == lookup_common(k, cl[c].visited)
<1>1. k \in Keys /\ GoodTable(table, rec) /\ cur[k] \in cl[c].seen /\ Visited(cl[c].visited, k)
  BY Ops, CallVisited DEF KInv, CallOK, MInv, GetOK
<1>2. CASE r[1] = "0" /\ r[2] # NoSlot /\ ReadEntry(c, r[2], cl[c].visited)
  <2>1. r = <<"0", r[2]>>
    BY <1>2 DEF lookup_common, lookup
  <2> HIDE DEF r
  <2>2. r[2] \in Slots /\ Used(table[r[2]])
    BY <1>1, <1>2, <2>1, ReadSlot DEF r
  <2> QED
    BY <1>1, <1>2, <2>2, MapReadEntryStep
<1>3. CASE (r[1] = "ENODATA" \/ r = <<"0", NoSlot>>) /\ GetResult(c, NoPba)
  <2>1. cur[k] = NoPba /\ NoPba \in cl[c].seen
    <3> HIDE DEF k
    <3> QED
      BY <1>1, <1>3, Absent
  <2>2. (IF NoPba = "ENOSPC" THEN NoPba ELSE NoPba) \in cl[c].seen
    BY <2>1
  <2> HIDE DEF r
  <2> QED
    BY <1>3, <2>2, MapGetResultStep
<1>4. CASE r[1] = "ENOSPC" /\ GetResult(c, "ENOSPC")
  <2>1. cur[k] = NoPba /\ NoPba \in cl[c].seen
    <3> HIDE DEF k
    <3> QED
      BY <1>1, <1>4, Absent
  <2> HIDE DEF r
  <2> QED
    BY <1>4, <2>1, MapGetResultStep
<1>5. CASE Goto(c, "assert_visited")
  BY <1>5, MapOverflowStep
<1> QED
  BY <1>2, <1>3, <1>4, <1>5 DEF LookupRound

\* Every step of a get or exists keeps the map.
LEMMA MapGetSteps ==
  ASSUME KInv, MInv, Packed, NEW c \in Clients, GetStep(c)
  PROVE  MInv'
<1>1. CASE \E k \in GetKeys : GetStart(c, k) \/ ExistsStart(c, k)
  BY <1>1, MapReadStartStep DEF GetStart, ExistsStart, GetOps
<1>2. CASE GetLookup(c) \/ ExistsLookup(c)
  BY <1>2, MapLookupRoundStep DEF GetLookup, ExistsLookup, GetOps
<1>3. CASE GetRead(c) \/ ExistsRead(c)
  <2>1. cl[c].op \in GetOps /\ cl[c].pc = "read" /\ UNCHANGED <<table, rec, gc, cur, segVars>>
    BY <1>3 DEF GetRead, ExistsRead, GetOps
  <2>2. CASE rec[cl[c].cpy.pba].key = cl[c].key /\ GetResult(c, cl[c].cpy.pba)
    <3> DEFINE p == cl[c].cpy.pba
    <3>1. p \in cl[c].seen /\ p \in Grains
      BY <2>1, <2>2 DEF MInv, GetOK, KInv, CallOK
    <3>2. p # "ENOSPC"
      BY <3>1, KVAssumption
    <3>3. (IF p = "ENOSPC" THEN NoPba ELSE p) \in cl[c].seen
      BY <3>1, <3>2
    <3> HIDE DEF p
    <3> QED
      BY <2>1, <2>2, <3>3, MapGetResultStep DEF p
  <2>3. CASE rec[cl[c].cpy.pba].key # cl[c].key /\ NextRound(c)
    BY <2>1, <2>3, MapNextRoundStep
  <2> QED
    BY <1>3, <2>2, <2>3 DEF GetRead, ExistsRead, IsKey
<1>4. CASE GetReturn(c)
  <2>1. cl' = [cl EXCEPT ![c] = Idle] /\ UNCHANGED <<table, rec, gc, cur, segVars>> /\ cl[c].pc = "done"
    BY <1>4 DEF GetReturn, Done
  <2>2. cl[c].grain = NoPbaYet
    BY <2>1 DEF KInv, CallOK
  <2>3. Idle.grain = NoPbaYet
    BY DEF Idle
  <2> HIDE DEF Idle
  <2> QED
    BY <2>1, <2>2, <2>3, IdleLooks, MapClientStep
<1> QED
  BY <1>1, <1>2, <1>3, <1>4 DEF GetStep

-----------------------------------------------------------------------------
(* Changes of the map *)

\* The entries are of records with a key.
LEMMA TableKeys ==
  ASSUME KInv
  PROVE  \A g \in GrainsOf(table) : g \in Grains /\ rec[g].key \in Keys
<1> SUFFICES ASSUME NEW g \in GrainsOf(table) PROVE g \in Grains /\ rec[g].key \in Keys
  OBVIOUS
<1>1. PICK s \in Slots : Used(table[s]) /\ g = table[s].pba
  BY DEF GrainsOf
<1> QED
  BY <1>1 DEF KInv, GoodTable, AtHome, SegInv

\* A key that is absent gets an entry.
LEMMA MapAdd ==
  ASSUME NEW T, NEW r, NEW cu \in [Keys -> Grains \cup {NoPba}], MapIs(T, r, cu),
         \A x \in T : x \in Grains /\ r[x].key \in Keys,
         NEW k \in Keys, cu[k] = NoPba, NEW g \in Grains, r[g].key = k
  PROVE  MapIs(T \cup {g}, r, [cu EXCEPT ![k] = g])
<1>1. \A x \in T : r[x].key # k
  BY Ops DEF MapIs
<1> QED
  BY <1>1 DEF MapIs

\* The entry of a key gets another grain.
LEMMA MapReplace ==
  ASSUME NEW T, NEW r, NEW cu \in [Keys -> Grains \cup {NoPba}], MapIs(T, r, cu),
         \A x \in T : x \in Grains /\ r[x].key \in Keys,
         NEW k \in Keys, NEW p \in T, r[p].key = k, NEW g \in Grains, r[g].key = k
  PROVE  MapIs((T \ {p}) \cup {g}, r, [cu EXCEPT ![k] = g])
<1>1. \A x \in T \ {p} : r[x].key # k
  BY DEF MapIs
<1>2. \A j \in Keys : j # k /\ cu[j] # NoPba => cu[j] \in T \ {p}
  BY DEF MapIs
<1> QED
  BY <1>1, <1>2 DEF MapIs

\* A key loses its entry.
LEMMA MapDrop ==
  ASSUME NEW T, NEW r, NEW cu \in [Keys -> Grains \cup {NoPba}], MapIs(T, r, cu),
         \A x \in T : x \in Grains /\ r[x].key \in Keys,
         NEW k \in Keys, NEW p \in T, r[p].key = k
  PROVE  MapIs(T \ {p}, r, [cu EXCEPT ![k] = NoPba])
<1>1. \A x \in T \ {p} : r[x].key # k
  BY DEF MapIs
<1>2. \A j \in Keys : j # k /\ cu[j] # NoPba => cu[j] \in T \ {p}
  BY DEF MapIs
<1> QED
  BY <1>1, <1>2 DEF MapIs

\* Records that no entry names do not matter to the map.
LEMMA MapLog ==
  ASSUME NEW T, NEW r, NEW cu, MapIs(T, r, cu), NEW r2, \A x \in T : r2[x] = r[x]
  PROVE  MapIs(T, r2, cu)
BY DEF MapIs

\* A segment whose counts may be anything
AnyCounts == [state : SegStates, ts : Nat, nr3 : 0 .. SegSize, nr4 : Int, valid : Int]

\* Segments that have handed out the same grains
SameHanded(new, old) == new \in [Segs -> AnyCounts] /\ \A s \in Segs : new[s].nr3 = old[s].nr3

\* One segment changes in its counts and its state.
LEMMA OneHanded ==
  ASSUME NEW sg \in [Segs -> AnyCounts], NEW s \in Segs, NEW u \in AnyCounts, u.nr3 = sg[s].nr3
  PROVE  SameHanded([sg EXCEPT ![s] = u], sg)
BY DEF SameHanded

\* Releasing or invalidating a grain hands out nothing.
LEMMA CountsOnly ==
  ASSUME NEW sg \in [Segs -> AnyCounts], NEW s \in Segs, NEW n \in Int, NEW g, g[1] = s
  PROVE  /\ SameHanded(Put4(sg, s, n), sg)
         /\ SameHanded(Released(sg, g), sg)
         /\ SameHanded(Invalidated(sg, g), sg)
         /\ SameHanded(RelocInvalidated(sg, g), sg)
         /\ SameHanded([sg EXCEPT ![s].valid = @ - n], sg)
<1>1. /\ sg[s] \in AnyCounts /\ sg[s].nr4 \in Int /\ sg[s].valid \in Int /\ sg[s].state \in SegStates
      /\ "done" \in SegStates /\ "free" \in SegStates
  BY DEF AnyCounts, SegStates
<1>2. ASSUME NEW m \in Int PROVE SameHanded(Put4(sg, s, m), sg)
  <2> DEFINE k == sg[s].nr4 - m
             q == IF sg[s].nr4 = m THEN "done" ELSE sg[s].state
             u == [sg[s] EXCEPT !.nr4 = k, !.state = q]
  <2>1. Put4(sg, s, m) = [sg EXCEPT ![s] = u]
    BY DEF Put4
  <2>2. k \in Int /\ q \in SegStates
    BY <1>1
  <2> HIDE DEF k, q
  <2>3. u \in AnyCounts /\ u.nr3 = sg[s].nr3
    BY <1>1, <2>2 DEF AnyCounts
  <2> HIDE DEF u
  <2>4. SameHanded([sg EXCEPT ![s] = u], sg)
    BY <2>3, OneHanded
  <2> QED
    BY <2>1, <2>4
<1>3. SameHanded(Released(sg, g), sg)
  BY <1>2 DEF Released
<1>4. SameHanded(Invalidated(sg, g), sg)
  <2> DEFINE k == sg[s].valid - 1
             q == IF sg[s].state = "gc" /\ sg[s].valid = 1 THEN "free" ELSE sg[s].state
             u == [sg[s] EXCEPT !.valid = k, !.state = q]
  <2>1. Invalidated(sg, g) = [sg EXCEPT ![s] = u]
    BY DEF Invalidated
  <2>2. k \in Int /\ q \in SegStates
    BY <1>1
  <2> HIDE DEF k, q
  <2>3. u \in AnyCounts /\ u.nr3 = sg[s].nr3
    BY <1>1, <2>2 DEF AnyCounts
  <2> HIDE DEF u
  <2>4. SameHanded([sg EXCEPT ![s] = u], sg)
    BY <2>3, OneHanded
  <2> QED
    BY <2>1, <2>4
<1>5. ASSUME NEW w \in Int PROVE SameHanded([sg EXCEPT ![s].valid = w], sg)
  <2> DEFINE u == [sg[s] EXCEPT !.valid = w]
  <2>1. u \in AnyCounts /\ u.nr3 = sg[s].nr3
    BY <1>1 DEF AnyCounts
  <2>2. [sg EXCEPT ![s].valid = w] = [sg EXCEPT ![s] = u]
    OBVIOUS
  <2> HIDE DEF u
  <2> QED
    BY <2>1, <2>2, OneHanded
<1>6. SameHanded(RelocInvalidated(sg, g), sg) /\ SameHanded([sg EXCEPT ![s].valid = @ - n], sg)
  <2> DEFINE a == sg[s].valid - 1
             b == sg[s].valid - n
  <2>1. /\ RelocInvalidated(sg, g) = [sg EXCEPT ![s].valid = a]
        /\ [sg EXCEPT ![s].valid = @ - n] = [sg EXCEPT ![s].valid = b]
    BY DEF RelocInvalidated
  <2>2. a \in Int /\ b \in Int
    BY <1>1
  <2> HIDE DEF a, b
  <2>3. SameHanded([sg EXCEPT ![s].valid = a], sg) /\ SameHanded([sg EXCEPT ![s].valid = b], sg)
    BY <1>5, <2>2
  <2> QED
    BY <2>1, <2>3
<1> QED
  BY <1>2, <1>3, <1>4, <1>6

\* What becomes of the segments when one grain is released or invalidated
LEMMA GrainHands ==
  ASSUME NEW sg \in [Segs -> AnyCounts], NEW g, g[1] \in Segs
  PROVE  /\ SameHanded(Released(sg, g), sg)
         /\ SameHanded(Invalidated(sg, g), sg)
         /\ SameHanded(RelocInvalidated(sg, g), sg)
<1> DEFINE s == g[1]
           n == 1
<1>1. s \in Segs /\ g[1] = s /\ n \in Int
  OBVIOUS
<1> HIDE DEF s, n
<1> QED
  BY <1>1, CountsOnly

\* Two changes that hand out nothing
LEMMA HandedTrans ==
  ASSUME NEW a, NEW b, NEW c, SameHanded(b, a), SameHanded(c, b)
  PROVE  SameHanded(c, a)
BY DEF SameHanded

\* The segments of the invariant are such segments.
LEMMA SegCounts ==
  ASSUME KInv
  PROVE  seg \in [Segs -> AnyCounts] /\ SameHanded(seg, seg)
<1>1. seg \in [Segs -> SegRec]
  BY DEF KInv, SegInv
<1>2. SegRec \subseteq AnyCounts
  BY DEF SegRec, AnyCounts
<1> QED
  BY <1>1, <1>2 DEF SameHanded

\* A segment that is given up by its stream hands out nothing.
LEMMA DrainHands ==
  ASSUME KInv, NEW st \in Streams
  PROVE  SameHanded(Drained(st), seg)
<1>1. seg \in [Segs -> AnyCounts] /\ SameHanded(seg, seg)
  BY SegCounts
<1>2. CASE ~Drainable(st)
  BY <1>1, <1>2 DEF Drained
<1>3. CASE Drainable(st)
  <2> DEFINE s == staged[st]
             rem == SegSize - seg[s].nr3
             sg == [seg EXCEPT ![s].valid = @ - rem]
             g == <<s, 0>>
  <2>1. s \in Segs
    BY <1>3 DEF Drainable, KInv, SegInv
  <2>2. rem \in Int
    BY <1>1, <2>1, SegmentsAssumption DEF AnyCounts
  <2>3. Drained(st) = Put4(sg, s, rem)
    BY <1>3 DEF Drained
  <2> HIDE DEF s, rem
  <2>4. g[1] = s
    OBVIOUS
  <2>5. SameHanded(sg, seg)
    BY <1>1, <2>1, <2>2, <2>4, CountsOnly
  <2> HIDE DEF sg
  <2>6. sg \in [Segs -> AnyCounts]
    BY <2>5 DEF SameHanded
  <2>7. SameHanded(Put4(sg, s, rem), sg)
    BY <2>1, <2>2, <2>4, <2>6, CountsOnly
  <2> QED
    BY <2>3, <2>5, <2>7, HandedTrans
<1> QED
  BY <1>2, <1>3

\* The log keeps its records while no grain is handed out.
LEMMA HandedKeeps ==
  ASSUME NEW r, NEW sg, NEW sg2, SameHanded(sg2, sg)
  PROVE  KeepsLog(r, sg, r, sg2)
<1>1. \A s \in Segs : sg2[s].nr3 = sg[s].nr3
  BY DEF SameHanded
<1> QED
  BY <1>1, FrameKeeps

\* Gets of key k under way have seen version v.
LEMMA SeenSaw ==
  ASSUME NEW C \in [Clients -> Call], NEW k, NEW v, NEW c \in Clients
  PROVE  /\ SawMore(C[c], Seen(C, k, v)[c])
         /\ C[c].op \in GetOps /\ C[c].key = k => v \in Seen(C, k, v)[c].seen
         /\ Seen(C, k, v)[c].grain = C[c].grain
<1> DEFINE n == C[c].seen \cup {v}
           y == [C[c] EXCEPT !.seen = n]
<1>1. C[c] \in Call /\ C[c].seen \subseteq n /\ v \in n
  OBVIOUS
<1>2. Seen(C, k, v)[c] = IF C[c].op \in GetOps /\ C[c].key = k THEN y ELSE C[c]
  BY DEF Seen
<1> HIDE DEF n
<1>3. /\ y.op = C[c].op /\ y.pc = C[c].pc /\ y.key = C[c].key /\ y.grain = C[c].grain
      /\ y.cpy = C[c].cpy /\ y.md = C[c].md
  BY <1>1 DEF Call
<1>4. y.visited = C[c].visited /\ y.res = C[c].res /\ y.seen = n
  BY <1>1 DEF Call
<1> HIDE DEF y
<1>5. SawMore(C[c], y) /\ SawMore(C[c], C[c])
  BY <1>1, <1>3, <1>4 DEF SawMore
<1> QED
  BY <1>1, <1>2, <1>3, <1>4, <1>5

\* A put takes effect: its grain is in the table, and it is the current one.
LEMMA MapSettledStep ==
  ASSUME KInv, MInv, NEW c \in Clients, cl[c].op \in PutOps, cl[c].pc # "write",
         \A g \in GrainsOf(table') : g \in GrainsOf(table) \/ g = cl[c].grain,
         MapIs(GrainsOf(table'), rec, cur'), SameHanded(seg', seg),
         cur' = [cur EXCEPT ![cl[c].key] = cl[c].grain],
         cl' = [Seen(cl, cl[c].key, cl[c].grain) EXCEPT ![c] = Idle], UNCHANGED rec
  PROVE  MInv'
<1> DEFINE g == cl[c].grain
           k == cl[c].key
           D == Seen(cl, k, g)
<1>1. /\ g # NoPbaYet /\ g \in Grains /\ k \in Keys /\ g \in GrainsHeld(cl)
      /\ cl \in [Clients -> Call] /\ cur \in [Keys -> Grains \cup {NoPba}]
  BY PutHolds DEF KInv
<1>2. cl' = [D EXCEPT ![c] = Idle] /\ cur' = [cur EXCEPT ![k] = g]
  OBVIOUS
<1>3. D = [d \in Clients |-> D[d]]
  BY DEF Seen
<1>4. \A d \in Clients : /\ SawMore(cl[d], D[d]) /\ D[d].grain = cl[d].grain
                         /\ cl[d].op \in GetOps /\ cl[d].key = k => g \in D[d].seen
  BY <1>1, SeenSaw
<1> HIDE DEF D, g, k
<1>5. cl'[c] = Idle /\ \A d \in Clients : d # c => cl'[d] = D[d]
  BY <1>2, <1>3
<1>6. KeepsLog(rec, seg, rec', seg')
  BY HandedKeeps
<1>7. \A x \in GrainsHeld(cl') : x \in GrainsHeld(cl)
  <2>1. \A d \in Clients : cl'[d].grain # NoPbaYet => cl'[d].grain = cl[d].grain
    <3>1. Idle.grain = NoPbaYet
      BY DEF Idle
    <3> QED
      BY <1>4, <1>5, <3>1
  <2> QED
    BY <2>1 DEF GrainsHeld
<1>8. ASSUME NEW d \in Clients, d # c
      PROVE  /\ SawMore(cl[d], cl'[d])
             /\ cl[d].op \in GetOps /\ cl[d].pc # "done" => cur'[cl[d].key] \in cl'[d].seen
  <2>1. SawMore(cl[d], cl'[d])
    BY <1>4, <1>5, <1>8
  <2>2. ASSUME cl[d].op \in GetOps, cl[d].pc # "done" PROVE cur'[cl[d].key] \in cl'[d].seen
    <3>1. cl[d].key \in Keys /\ cur[cl[d].key] \in cl[d].seen
      BY <2>2, Ops DEF KInv, CallOK, MInv, GetOK
    <3>2. CASE cl[d].key = k
      BY <1>1, <1>2, <1>4, <1>5, <1>8, <2>2, <3>2
    <3>3. CASE cl[d].key # k
      BY <1>1, <1>2, <2>1, <3>1, <3>3 DEF SawMore
    <3> QED
      BY <3>2, <3>3
  <2> QED
    BY <2>1, <2>2
<1>9. LookOK(cl'[c], GrainsOf(table'), GrainsHeld(cl'), rec', seg') /\ GetOK(cl'[c], rec', cur')
  <2> HIDE DEF Idle
  <2> QED
    BY <1>5, IdleLooks
<1>10. \A x \in GrainsOf(table') : x \in GrainsOf(table) \cup GrainsHeld(cl)
  BY <1>1 DEF g
<1>11. MapIs(GrainsOf(table'), rec', cur')
  OBVIOUS
<1> QED
  BY <1>6, <1>7, <1>8, <1>9, <1>10, <1>11, MapStep

\* A key that the table t has no entry of is inserted, once.
LEMMA MapInsertStep ==
  ASSUME KInv, MInv, NEW c \in Clients, cl[c].op \in PutOps, cl[c].pc # "write",
         cur[cl[c].key] = NoPba,
         NEW t, GoodTable(t, rec), GrainsOf(t) = GrainsOf(table),
         NEW s \in Bucket(Hash[cl[c].key]), ~Used(t[s]),
         PutSettle(c, t, s, FALSE), UNCHANGED <<rec, gc>>
  PROVE  MInv'
<1> DEFINE g == cl[c].grain
           k == cl[c].key
           T == GrainsOf(table)
<1>1. /\ g # NoPbaYet /\ g \in Grains /\ k \in Keys /\ g \notin GrainsOf(t) /\ rec[g].key = k
      /\ cur \in [Keys -> Grains \cup {NoPba}]
  BY PutHolds DEF KInv
<1>2. table' = insert(t, s, Hash[k], 1, g) /\ seg' = Released(seg, g)
  BY DEF PutSettle
<1>3. cur' = [cur EXCEPT ![k] = g] /\ cl' = [Seen(cl, k, g) EXCEPT ![c] = Idle]
  BY DEF PutSettle
<1>4. GrainsOf(table') = T \cup {g}
  <2> HIDE DEF g, k
  <2>1. s \in Bucket(Hash[k])
    BY DEF k
  <2> QED
    BY <1>1, <1>2, <2>1, TableInsert
<1>5. MapIs(GrainsOf(table'), rec, cur')
  <2>1. \A x \in T : x \in Grains /\ rec[x].key \in Keys
    BY TableKeys
  <2>2. MapIs(T, rec, cur) /\ cur[k] = NoPba
    BY DEF MInv
  <2> HIDE DEF T, g, k
  <2> QED
    <3>1. MapIs(T \cup {g}, rec, [cur EXCEPT ![k] = g])
      BY <1>1, <2>1, <2>2, MapAdd
    <3> QED
      BY <1>3, <1>4, <3>1
<1>6. SameHanded(seg', seg)
  <2>1. g[1] \in Segs
    BY <1>1, GrainParts
  <2> HIDE DEF g
  <2> QED
    BY <1>2, <2>1, SegCounts, GrainHands
<1> QED
  BY <1>3, <1>4, <1>5, <1>6, MapSettledStep

\* The entry of the key is updated.
LEMMA MapUpdateStep ==
  ASSUME KInv, MInv, NEW c \in Clients, cl[c].op \in PutOps, cl[c].pc # "write",
         NEW s \in Slots, Used(table[s]), rec[table[s].pba].key = cl[c].key,
         PutSettle(c, table, s, TRUE), UNCHANGED <<rec, gc>>
  PROVE  MInv'
<1> DEFINE g == cl[c].grain
           k == cl[c].key
           p == table[s].pba
           T == GrainsOf(table)
           sg == Invalidated(seg, p)
<1>1. /\ g # NoPbaYet /\ g \in Grains /\ k \in Keys /\ g \notin T /\ rec[g].key = k
      /\ cur \in [Keys -> Grains \cup {NoPba}] /\ GoodTable(table, rec)
  BY PutHolds DEF KInv
<1>2. table' = update_inplace(table, s, Hash[k], 1, g) /\ seg' = Released(sg, g)
  BY DEF PutSettle
<1>3. cur' = [cur EXCEPT ![k] = g] /\ cl' = [Seen(cl, k, g) EXCEPT ![c] = Idle]
  BY DEF PutSettle
<1>4. GrainsOf(table') = (T \ {p}) \cup {g}
  <2> HIDE DEF g, k
  <2>1. rec[table[s].pba].key = k
    BY DEF k
  <2> QED
    BY <1>1, <1>2, <2>1, TableUpdate
<1>5. p \in T /\ rec[p].key = k
  BY DEF GrainsOf
<1>6. MapIs(GrainsOf(table'), rec, cur')
  <2>1. \A x \in T : x \in Grains /\ rec[x].key \in Keys
    BY TableKeys
  <2>2. MapIs(T, rec, cur)
    BY DEF MInv
  <2> HIDE DEF T, g, k, p
  <2> QED
    <3>1. MapIs((T \ {p}) \cup {g}, rec, [cur EXCEPT ![k] = g])
      BY <1>1, <1>5, <2>1, <2>2, MapReplace
    <3> QED
      BY <1>3, <1>4, <3>1
<1>7. SameHanded(seg', seg)
  <2>1. g[1] \in Segs /\ p[1] \in Segs
    BY <1>1, <1>5, TableKeys, GrainParts
  <2> HIDE DEF g, p, sg
  <2>2. SameHanded(sg, seg)
    BY <2>1, SegCounts, GrainHands DEF sg
  <2>3. sg \in [Segs -> AnyCounts]
    BY <2>2 DEF SameHanded
  <2>4. SameHanded(seg', sg)
    BY <1>2, <2>1, <2>3, GrainHands
  <2> QED
    BY <2>2, <2>4, HandedTrans
<1> QED
  BY <1>3, <1>4, <1>6, <1>7, MapSettledStep

\* A put gives up its grain, and x is what becomes of its call.
LEMMA MapGiveUpStep ==
  ASSUME KInv, MInv, NEW c \in Clients, cl[c].op \in PutOps, GrainsOf(table') = GrainsOf(table),
         SameHanded(seg', seg), NEW x, x.grain = NoPbaYet,
         \A T, H, r, sg : LookOK(x, T, H, r, sg), \A r, cu : GetOK(x, r, cu),
         cl' = [cl EXCEPT ![c] = x], UNCHANGED <<rec, cur>>
  PROVE  MInv'
<1>1. cl \in [Clients -> Call]
  BY DEF KInv
<1>2. cl'[c] = x /\ \A d \in Clients : d # c => cl'[d] = cl[d]
  BY <1>1
<1>3. KeepsLog(rec, seg, rec', seg')
  BY HandedKeeps
<1>4. \A g \in GrainsHeld(cl') : g \in GrainsHeld(cl)
  <2>1. \A d \in Clients : cl'[d].grain # NoPbaYet => cl'[d].grain = cl[d].grain
    BY <1>2
  <2> QED
    BY <2>1 DEF GrainsHeld
<1>5. ASSUME NEW d \in Clients, d # c
      PROVE  /\ SawMore(cl[d], cl'[d])
             /\ cl[d].op \in GetOps /\ cl[d].pc # "done" => cur'[cl[d].key] \in cl'[d].seen
  BY <1>2, <1>5, SawSame DEF MInv, GetOK
<1>6. LookOK(cl'[c], GrainsOf(table'), GrainsHeld(cl'), rec', seg') /\ GetOK(cl'[c], rec', cur')
  BY <1>2
<1>7. MapIs(GrainsOf(table'), rec', cur')
  BY DEF MInv
<1> QED
  BY <1>3, <1>4, <1>5, <1>6, <1>7, MapStep

\* A put that is refused leaves the map as it was.
LEMMA MapRejectStep ==
  ASSUME KInv, MInv, NEW c \in Clients, cl[c].op \in PutOps, cl[c].pc # "write",
         NEW t, GrainsOf(t) = GrainsOf(table), PutReject(c, t), UNCHANGED <<rec, gc>>
  PROVE  MInv'
<1> DEFINE g == cl[c].grain
           sg == Invalidated(seg, g)
<1>1. /\ table' = t /\ seg' = Released(sg, g) /\ cl' = [cl EXCEPT ![c] = Idle] /\ UNCHANGED cur
  BY DEF PutReject, Done
<1>2. g[1] \in Segs
  BY PutHolds, GrainParts
<1>3. Idle.grain = NoPbaYet
  BY DEF Idle
<1>4. SameHanded(seg', seg)
  <2> HIDE DEF g, sg
  <2>1. SameHanded(sg, seg)
    BY <1>2, SegCounts, GrainHands DEF sg
  <2>2. sg \in [Segs -> AnyCounts]
    BY <2>1 DEF SameHanded
  <2>3. SameHanded(seg', sg)
    BY <1>1, <1>2, <2>2, GrainHands
  <2> QED
    BY <2>1, <2>3, HandedTrans
<1> HIDE DEF Idle
<1> QED
  BY <1>1, <1>3, <1>4, IdleLooks, MapGiveUpStep

\* A put that drains forgets what it has visited.
LEMMA MapDrainStep ==
  ASSUME KInv, MInv, NEW c \in Clients, PutDrain(c)
  PROVE  MInv'
<1> DEFINE st == salsa_stream_get_id(cl[c].key)
           g == cl[c].grain
           drain == cl[c].cpy.pba[1] # g[1]
           s1 == IF drain THEN Drained(st) ELSE seg
           s2 == Invalidated(s1, g)
           x == [cl[c] EXCEPT !.pc = "write", !.cpy = Unused, !.grain = NoPbaYet]
<1>1. cl[c].pc = "drain" /\ cl[c] \in Call /\ CallOK(cl[c], rec, seg)
  BY DEF KInv, PutDrain
<1>2. cl[c].op \in PutOps
  BY <1>1, Ops DEF CallOK, Call
<1>3. /\ seg' = Released(s2, g)
      /\ cl' = [cl EXCEPT ![c] = x] /\ UNCHANGED <<table, rec, gc, cur, seg_alloc_nr>>
  BY DEF PutDrain
<1>4. cl[c].key \in Keys /\ st \in Streams /\ g[1] \in Segs
  BY <1>1, <1>2, StreamOf, PutHolds, GrainParts
<1>5. SameHanded(s1, seg)
  BY <1>4, DrainHands, SegCounts
<1>6. SameHanded(seg', seg)
  <2> HIDE DEF g, s1, s2
  <2>1. s1 \in [Segs -> AnyCounts]
    BY <1>5 DEF SameHanded
  <2>2. SameHanded(s2, s1)
    BY <1>4, <2>1, GrainHands DEF s2
  <2>3. s2 \in [Segs -> AnyCounts]
    BY <2>2 DEF SameHanded
  <2>4. SameHanded(seg', s2)
    BY <1>3, <1>4, <2>3, GrainHands
  <2> QED
    BY <1>5, <2>2, <2>4, HandedTrans
<1>7. x.grain = NoPbaYet /\ x.op = cl[c].op /\ x.pc = "write" /\ x.visited = cl[c].visited
  BY <1>1 DEF Call
<1>8. cl[c].visited = {}
  BY <1>1 DEF MInv, LookOK
<1> HIDE DEF x
<1>9. /\ \A T, H, r, sg : LookOK(x, T, H, r, sg)
      /\ \A r, cu : GetOK(x, r, cu)
  <2>1. Rem(x) = {}
    BY <1>7, <1>8 DEF Rem
  <2> QED
    BY <1>2, <1>7, <1>8, <2>1, Ops DEF LookOK, GetOK
<1> QED
  BY <1>2, <1>3, <1>6, <1>7, <1>9, MapGiveUpStep

\* The grain handed out next has not been handed out.
LEMMA NextGrainNew ==
  ASSUME KInv, NEW st \in Streams, CanAllocate(st)
  PROVE  ~(NextGrain(st)[2] < seg[NextGrain(st)[1]].nr3)
<1> DEFINE H == GrainsOf(table) \cup GrainsHeld(cl)
<1>1. SegInv(seg, staged, H, GrainsHeld(cl)) /\ GrainsHeld(cl) \subseteq H
  BY DEF KInv
<1> HIDE DEF H
<1> QED
  BY <1>1, SegAllocate

\* A put has written its record, where no lookup has been.
LEMMA MapWriteStep ==
  ASSUME KInv, MInv, NEW c \in Clients, NEW k \in Keys, WriteRecord(salsa_stream_get_id(k), k),
         NEW x, x.op \in PutOps, x.pc = "lock", x.visited = {},
         x.grain = NextGrain(salsa_stream_get_id(k)), cl' = [cl EXCEPT ![c] = x],
         UNCHANGED <<table, gc, cur>>
  PROVE  MInv'
<1> DEFINE st == salsa_stream_get_id(k)
           g == NextGrain(st)
           v == [key |-> k, ts |-> seg[g[1]].ts]
<1>1. /\ CanAllocate(st) /\ rec' = [rec EXCEPT ![g] = v] /\ seg' = Allocated(seg, g)
  BY DEF WriteRecord
<1>2. st \in Streams
  BY StreamOf
<1>3. v \in LogRec /\ v.key = k
  <2>1. g[1] \in Segs
    BY <1>1, <1>2, SegmentsAssumption DEF CanAllocate, NextGrain, KInv, SegInv
  <2>2. seg[g[1]].ts \in Nat
    BY <2>1 DEF KInv, SegInv, SegRec
  <2> QED
    BY <2>2 DEF LogRec
<1>4. ~(g[2] < seg[g[1]].nr3)
  BY <1>1, <1>2, NextGrainNew
<1> HIDE DEF v, g, st
<1>5. KeepsLog(rec, seg, rec', seg') /\ g \notin GrainsOf(table) \cup GrainsHeld(cl) /\ g \in Grains
  BY <1>1, <1>2, <1>3, LogWrite DEF g
<1>6. cl \in [Clients -> Call] /\ rec \in [Grains -> LogRec]
  BY DEF KInv, Written
<1>7. cl'[c] = x /\ \A d \in Clients : d # c => cl'[d] = cl[d]
  BY <1>6
<1>8. MapIs(GrainsOf(table'), rec', cur')
  <2> DEFINE r2 == rec'
             T == GrainsOf(table)
  <2>1. \A y \in T : r2[y] = rec[y]
    BY <1>1, <1>5, <1>6, TableKeys
  <2>2. MapIs(T, rec, cur)
    BY DEF MInv
  <2> HIDE DEF r2, T
  <2>3. MapIs(T, r2, cur)
    BY <2>1, <2>2, MapLog
  <2> QED
    BY <2>3 DEF r2, T
<1>9. \A y \in GrainsHeld(cl') : y \in GrainsHeld(cl) \/ ~(y[2] < seg[y[1]].nr3)
  <2>1. \A d \in Clients : cl'[d].grain = cl[d].grain \/ cl'[d].grain = g
    BY <1>7 DEF g, st
  <2> QED
    BY <1>4, <2>1 DEF GrainsHeld
<1>10. ASSUME NEW d \in Clients, d # c
       PROVE  /\ SawMore(cl[d], cl'[d])
              /\ cl[d].op \in GetOps /\ cl[d].pc # "done" => cur'[cl[d].key] \in cl'[d].seen
  BY <1>7, <1>10, SawSame DEF MInv, GetOK
<1>11. LookOK(cl'[c], GrainsOf(table'), GrainsHeld(cl'), rec', seg') /\ GetOK(cl'[c], rec', cur')
  <2>1. Rem(x) = {}
    BY DEF Rem
  <2> QED
    BY <1>7, <2>1, Ops DEF LookOK, GetOK
<1>12. \A y \in GrainsOf(table') : y \in GrainsOf(table) \cup GrainsHeld(cl)
  OBVIOUS
<1> QED
  BY <1>5, <1>8, <1>9, <1>10, <1>11, <1>12, MapStep

\* A put that begins, or writes its record again
LEMMA MapPutWrites ==
  ASSUME KInv, MInv, NEW c \in Clients,
         \/ \E k \in PutKeys, op \in PutOps : PutStart(c, k, op)
         \/ PutRewrite(c)
  PROVE  MInv'
<1>1. ASSUME NEW k \in PutKeys, NEW op \in PutOps, PutStart(c, k, op) PROVE MInv'
  <2> DEFINE g == NextGrain(salsa_stream_get_id(k))
             x == [Idle EXCEPT !.op = op, !.pc = "lock", !.key = k, !.grain = g]
  <2>1. /\ WriteRecord(salsa_stream_get_id(k), k) /\ cl' = [cl EXCEPT ![c] = x]
        /\ UNCHANGED <<table, gc, cur>> /\ k \in Keys
    BY <1>1, KVAssumption DEF PutStart
  <2>2. Idle \in Call /\ Idle.visited = {}
    BY IdleCall DEF Idle
  <2> HIDE DEF g
  <2>3. x.op = op /\ x.pc = "lock" /\ x.grain = g /\ x.visited = {}
    BY <2>2 DEF Call
  <2> HIDE DEF x
  <2> QED
    BY <2>1, <2>3, MapWriteStep DEF g
<1>2. CASE PutRewrite(c)
  <2> DEFINE k == cl[c].key
             g == NextGrain(salsa_stream_get_id(k))
             x == [cl[c] EXCEPT !.pc = "lock", !.grain = g]
  <2>1. cl[c] \in Call /\ CallOK(cl[c], rec, seg) /\ cl[c].pc = "write"
    BY <1>2 DEF KInv, PutRewrite
  <2>2. k \in Keys /\ cl[c].op \in PutOps /\ cl[c].visited = {}
    BY <2>1, Ops DEF CallOK, Call, MInv, LookOK
  <2>3. /\ WriteRecord(salsa_stream_get_id(k), k) /\ cl' = [cl EXCEPT ![c] = x]
        /\ UNCHANGED <<table, gc, cur>>
    BY <1>2 DEF PutRewrite
  <2> HIDE DEF g
  <2>4. x.op = cl[c].op /\ x.pc = "lock" /\ x.grain = g /\ x.visited = cl[c].visited
    BY <2>1 DEF Call
  <2> HIDE DEF x, k
  <2> QED
    BY <2>2, <2>3, <2>4, MapWriteStep DEF g
<1> QED
  BY <1>1, <1>2

\* A round of a put's lookup: a key is inserted only if it is absent.
LEMMA MapPutRoundStep ==
  ASSUME KInv, MInv, Packed, NEW c \in Clients, cl[c].op \in PutOps, cl[c].pc \in {"lock", "recheck"},
         NEW visited, Visited(visited, cl[c].key), PutRound(c, visited), UNCHANGED <<rec, gc>>
  PROVE  MInv'
<1> DEFINE k == cl[c].key
           r == lookup_put(k, visited)
           lc == lookup_common(k, visited)
           sh == try_shift(table, Hash[k])
<1>1. k \in Keys /\ GoodTable(table, rec) /\ Hash[k] \in Nat /\ cl[c].op \notin GetOps
  BY PutHolds, KVAssumption, Ops DEF KInv
<1>2. lc = <<lc[1], lc[2]>>
  BY DEF lookup_common, lookup
<1>3. r = IF lc # <<"0", NoSlot>> THEN lc
          ELSE <<IF next_free(table, Hash[k]) = NoSlot THEN "ENOSPC" ELSE "ENODATA", next_free(table, Hash[k])>>
  BY DEF lookup_put
<1>4. CASE r[1] = "0" /\ ReadEntry(c, r[2], visited) /\ UNCHANGED <<table, cur, segVars>>
  <2>1. lc = <<"0", r[2]>> /\ r[2] # NoSlot
    BY <1>2, <1>3, <1>4
  <2> HIDE DEF r, k
  <2>2. r[2] \in Slots /\ Used(table[r[2]])
    BY <1>1, <2>1, ReadSlot
  <2> QED
    BY <1>1, <1>4, <2>2, MapReadEntryStep
<1>5. r[1] \in {"ENODATA", "ENOSPC"} => cur[k] = NoPba
  <2> SUFFICES ASSUME r[1] \in {"ENODATA", "ENOSPC"} PROVE cur[k] = NoPba
    OBVIOUS
  <2>1. lc[1] \in {"ENODATA", "ENOSPC"} \/ lc = <<"0", NoSlot>>
    BY <1>3
  <2>2. Visited(visited, k)
    OBVIOUS
  <2> HIDE DEF k, r
  <2> QED
    BY <1>1, <2>1, <2>2, Absent
<1>6. CASE r[1] = "ENODATA"
  <2>1. r[2] \in Bucket(Hash[k]) /\ ~Used(table[r[2]])
    <3> HIDE DEF k
    <3> QED
      BY <1>1, <1>6, InsertSlot
  <2> HIDE DEF r
  <2>2. CASE PutSettle(c, table, r[2], FALSE)
    BY <1>1, <1>5, <1>6, <2>1, <2>2, MapInsertStep
  <2>3. CASE PutReject(c, table)
    BY <1>1, <2>3, MapRejectStep
  <2> QED
    BY <1>6, <2>2, <2>3 DEF PutRound, r
<1>7. CASE r[1] = "ENOSPC"
  <2>1. \A p \in Bucket(Hash[k]) : Used(table[p])
    <3> HIDE DEF k
    <3> QED
      BY <1>1, <1>7, FullBucket
  <2>2. /\ GoodTable(sh.table, rec) /\ GrainsOf(sh.table) = GrainsOf(table)
        /\ sh.rc = "0" => sh.free \in Bucket(Hash[k]) /\ ~Used(sh.table[sh.free])
    <3> HIDE DEF k
    <3> QED
      BY <1>1, <2>1, ShiftKeeps
  <2> HIDE DEF r, sh
  <2>3. CASE sh.rc = "0" /\ PutSettle(c, sh.table, sh.free, FALSE)
    BY <1>5, <1>7, <2>2, <2>3, MapInsertStep
  <2>4. CASE PutReject(c, sh.table)
    BY <2>2, <2>4, MapRejectStep
  <2> QED
    BY <1>7, <2>3, <2>4 DEF PutRound, r, sh
<1>8. CASE r[1] = "assert_visited" /\ VisitedOverflow(c)
  BY <1>8, MapOverflowStep DEF VisitedOverflow
<1> QED
  BY <1>4, <1>6, <1>7, <1>8 DEF PutRound

\* With the lock held again: a record of the key that no entry of its bucket
\* names is named by no entry.
LEMMA RecheckVisited ==
  ASSUME KInv, MInv, NEW c \in Clients, cl[c].op \in PutOps, cl[c].pc = "recheck",
         ~(IsKey(c, cl[c].md) /\ EntryAgain(c) # NoSlot)
  PROVE  Visited(cl[c].visited \cup {cl[c].cpy.pba}, cl[c].key)
<1> DEFINE k == cl[c].key
           p == cl[c].cpy.pba
           S == {x \in Bucket(Hash[k]) : table[x].pba = p}
<1>1. LookOK(cl[c], GrainsOf(table), GrainsHeld(cl), rec, seg) /\ Rem(cl[c]) = cl[c].visited \cup {p}
  BY DEF MInv, Rem
<1>2. Past(p, seg, GrainsHeld(cl))
  BY <1>1 DEF LookOK
<1>3. ASSUME rec[p].key = k, p \in GrainsOf(table) PROVE FALSE
  <2>1. EntryAgain(c) = NoSlot
    BY <1>1, <1>3 DEF LookOK, IsKey
  <2>2. PICK s \in Slots : Used(table[s]) /\ table[s].pba = p
    BY <1>3 DEF GrainsOf
  <2>3. s \in Bucket(Hash[k]) /\ k \in Keys
    BY <1>3, <2>2 DEF KInv, GoodTable, AtHome
  <2>4. cl[c].slot \in Slots
    BY DEF KInv, CallOK
  <2>5. MinOr(S) = NoSlot
    <3>1. cl[c].slot # NoSlot
      BY <2>4, SlotType
    <3> QED
      BY <2>1, <3>1 DEF EntryAgain, lookup_pba
  <2>6. S \subseteq Slots /\ S # {}
    <3>1. Hash[k] \in Nat
      BY <2>3, KVAssumption
    <3>2. Bucket(Hash[k]) \subseteq Slots
      BY <3>1, Homes
    <3> QED
      BY <2>2, <2>3, <3>2
  <2> HIDE DEF S
  <2>7. MinOr(S) \in Slots
    BY <2>6, MinOrSlot
  <2> QED
    BY <2>5, <2>7, SlotType
<1>4. Visited(cl[c].visited, k)
  BY CallVisited
<1> QED
  BY <1>2, <1>3, <1>4 DEF Visited

\* A put that takes the lock again updates the one entry of its key.
LEMMA MapPutRecheckStep ==
  ASSUME KInv, MInv, Packed, NEW c \in Clients, PutRecheck(c)
  PROVE  MInv'
<1> DEFINE s == EntryAgain(c)
<1>1. cl[c].op \in PutOps /\ cl[c].pc = "recheck" /\ UNCHANGED <<rec, gc>>
  BY DEF PutRecheck
<1>2. cl[c] \in Call /\ CallOK(cl[c], rec, seg) /\ cl[c].key \in Keys /\ GoodTable(table, rec)
  BY <1>1, PutHolds DEF KInv
<1>3. CASE IsKey(c, cl[c].md) /\ EntryAgain(c) # NoSlot
  <2>1. PutFound(c, s)
    BY <1>3 DEF PutRecheck
  <2>2. s \in Slots /\ Used(table[s]) /\ rec[table[s].pba].key = cl[c].key
    BY <1>1, <1>3, EntryAgainSlot
  <2> HIDE DEF s
  <2>3. CASE PutReject(c, table)
    BY <1>1, <1>2, <2>3, MapRejectStep
  <2>4. CASE PutSettle(c, table, s, TRUE)
    BY <1>1, <2>2, <2>4, MapUpdateStep
  <2> DEFINE x == [cl[c] EXCEPT !.pc = "drain", !.cpy = table[s], !.slot = NoSlot,
                                !.md = NoRec, !.visited = {}]
  <2>5. CASE cl' = [cl EXCEPT ![c] = x] /\ UNCHANGED <<table, cur, segVars>>
    <3>1. x.op = cl[c].op /\ x.pc = "drain" /\ x.grain = cl[c].grain /\ x.visited = {}
      BY <1>2 DEF Call
    <3> HIDE DEF x
    <3>2. LookOK(x, GrainsOf(table), GrainsHeld(cl), rec, seg) /\ GetOK(x, rec, cur)
      <4>1. Rem(x) = {}
        BY <3>1 DEF Rem
      <4> QED
        BY <1>1, <3>1, <4>1, Ops DEF LookOK, GetOK
    <3> QED
      BY <1>1, <2>5, <3>1, <3>2, MapClientStep
  <2> QED
    BY <2>1, <2>3, <2>4, <2>5 DEF PutFound
<1>4. CASE ~(IsKey(c, cl[c].md) /\ EntryAgain(c) # NoSlot)
  <2> DEFINE v == cl[c].visited \cup {cl[c].cpy.pba}
  <2>1. PutRound(c, v)
    BY <1>4 DEF PutRecheck
  <2>2. Visited(v, cl[c].key)
    BY <1>1, <1>4, RecheckVisited
  <2> HIDE DEF v
  <2> QED
    BY <1>1, <2>1, <2>2, MapPutRoundStep
<1> QED
  BY <1>3, <1>4

\* Every step of a put keeps the map.
LEMMA MapPutSteps ==
  ASSUME KInv, MInv, Packed, NEW c \in Clients, PutStep(c)
  PROVE  MInv'
<1>1. CASE PutLookup(c)
  <2>1. Visited({}, cl[c].key)
    BY DEF Visited
  <2> QED
    BY <1>1, <2>1, MapPutRoundStep DEF PutLookup
<1> QED
  BY <1>1, MapPutWrites, MapPutRecheckStep, MapDrainStep DEF PutStep

-----------------------------------------------------------------------------
(* The collector and the segments *)

\* Segments change in their counts and states, and nothing else changes.
LEMMA MapSegsStep ==
  ASSUME MInv, SameHanded(seg', seg), UNCHANGED <<table, rec, cl, cur>>
  PROVE  MInv'
<1>1. KeepsLog(rec, seg, rec', seg')
  BY HandedKeeps
<1>2. \A c \in Clients : /\ SawMore(cl[c], cl'[c])
                         /\ cl[c].op \in GetOps /\ cl[c].pc # "done" => cur'[cl[c].key] \in cl'[c].seen
  BY SawSame DEF MInv, GetOK
<1>3. MapIs(GrainsOf(table'), rec', cur')
  BY DEF MInv
<1> QED
  BY <1>1, <1>2, <1>3, MapStep

\* A segment goes from one queue to another.
LEMMA MapMoveStep ==
  ASSUME KInv, MInv, NEW s \in Segs, NEW q \in SegStates, seg' = [seg EXCEPT ![s].state = q],
         UNCHANGED <<table, rec, cl, cur>>
  PROVE  MInv'
<1> DEFINE u == [seg[s] EXCEPT !.state = q]
<1>1. seg \in [Segs -> AnyCounts] /\ seg[s] \in AnyCounts
  BY SegCounts
<1>2. u \in AnyCounts /\ u.nr3 = seg[s].nr3
  BY <1>1 DEF AnyCounts
<1>3. seg' = [seg EXCEPT ![s] = u]
  OBVIOUS
<1> HIDE DEF u
<1>4. SameHanded([seg EXCEPT ![s] = u], seg)
  BY <1>1, <1>2, OneHanded
<1>5. SameHanded(seg', seg)
  BY <1>3, <1>4
<1> QED
  BY <1>5, MapSegsStep

\* What a client has seen of a version that is relocated
LEMMA MovedSaw ==
  ASSUME cl \in [Clients -> Call], NEW k, NEW p, NEW q, NEW c \in Clients
  PROVE  /\ SawMore(cl[c], Moved(k, p, q)[c])
         /\ cl[c].op \in GetOps /\ cl[c].key = k /\ p \in cl[c].seen => q \in Moved(k, p, q)[c].seen
         /\ Moved(k, p, q)[c].grain = cl[c].grain
<1> DEFINE n == cl[c].seen \cup {q}
           y == [cl[c] EXCEPT !.seen = n]
<1>1. cl[c] \in Call /\ cl[c].seen \subseteq n /\ q \in n
  OBVIOUS
<1>2. Moved(k, p, q)[c] = IF cl[c].op \in GetOps /\ cl[c].key = k /\ p \in cl[c].seen THEN y ELSE cl[c]
  BY DEF Moved
<1> HIDE DEF n
<1>3. /\ y.op = cl[c].op /\ y.pc = cl[c].pc /\ y.key = cl[c].key /\ y.grain = cl[c].grain
      /\ y.cpy = cl[c].cpy /\ y.md = cl[c].md
  BY <1>1 DEF Call
<1>4. y.visited = cl[c].visited /\ y.res = cl[c].res /\ y.seen = n
  BY <1>1 DEF Call
<1> HIDE DEF y
<1>5. SawMore(cl[c], y) /\ SawMore(cl[c], cl[c])
  BY <1>1, <1>3, <1>4 DEF SawMore
<1> QED
  BY <1>1, <1>2, <1>3, <1>4, <1>5

\* The collector changes the entry of key k, whose version v is current now.
LEMMA MapCollectedStep ==
  ASSUME KInv, MInv, KeepsLog(rec, seg, rec', seg'), MapIs(GrainsOf(table'), rec', cur'),
         NEW k \in Keys, NEW v, cur' = [cur EXCEPT ![k] = v],
         \A g \in GrainsOf(table') : g \in GrainsOf(table) \/ ~(g[2] < seg[g[1]].nr3),
         \A c \in Clients : /\ SawMore(cl[c], cl'[c]) /\ cl'[c].grain = cl[c].grain
                            /\ cl[c].op \in GetOps /\ cl[c].key = k /\ cur[k] \in cl[c].seen => v \in cl'[c].seen
  PROVE  MInv'
<1>1. cur \in [Keys -> Grains \cup {NoPba}]
  BY DEF KInv
<1>2. GrainsHeld(cl') = GrainsHeld(cl)
  BY DEF GrainsHeld
<1>3. ASSUME NEW c \in Clients, cl[c].op \in GetOps, cl[c].pc # "done"
      PROVE  cur'[cl[c].key] \in cl'[c].seen
  <2>1. cl[c].key \in Keys /\ cur[cl[c].key] \in cl[c].seen
    BY <1>3, Ops DEF KInv, CallOK, MInv, GetOK
  <2>2. CASE cl[c].key = k
    BY <1>1, <1>3, <2>1, <2>2
  <2>3. CASE cl[c].key # k
    BY <1>1, <2>1, <2>3 DEF SawMore
  <2> QED
    BY <2>2, <2>3
<1> QED
  BY <1>2, <1>3, MapStep

\* An evicted record was the current version of its key.
LEMMA MapEvictStep ==
  ASSUME KInv, MInv, GcEvict
  PROVE  MInv'
<1> DEFINE g == GcGrain
           k == rec[g].key
           T == GrainsOf(table)
<1>1. /\ GcAt /\ GcSlot # NoSlot
      /\ table' = purge(remove(table, GcSlot, g), GcSlot) /\ seg' = RelocInvalidated(seg, g)
      /\ cur' = [cur EXCEPT ![k] = IF @ = g THEN NoPba ELSE @] /\ cl' = Seen(cl, k, NoPba)
      /\ UNCHANGED rec
  BY DEF GcEvict
<1>2. /\ g \in Grains /\ GcSlot \in Slots /\ Used(table[GcSlot])
      /\ table[GcSlot].pba = g /\ k \in Keys /\ g \in T
  BY <1>1, GcSlotIs
<1>3. /\ GoodTable(table, rec) /\ cl \in [Clients -> Call] /\ cur \in [Keys -> Grains \cup {NoPba}]
      /\ MapIs(T, rec, cur)
  BY DEF KInv, MInv
<1>4. cur[k] = g
  BY <1>2, <1>3 DEF MapIs
<1>5. cur' = [cur EXCEPT ![k] = NoPba]
  BY <1>1, <1>4
<1>6. GrainsOf(table') = T \ {g}
  BY <1>1, <1>2, <1>3, TablePurge
<1>7. \A x \in T : x \in Grains /\ rec[x].key \in Keys
  BY TableKeys
<1>8. g[1] \in Segs
  BY <1>2, GrainParts
<1> HIDE DEF g, T
<1>9. MapIs(T \ {g}, rec, [cur EXCEPT ![k] = NoPba])
  <2>1. rec[g].key = k
    OBVIOUS
  <2> HIDE DEF k
  <2> QED
    BY <1>2, <1>3, <1>7, <2>1, MapDrop
<1>10. MapIs(GrainsOf(table'), rec', cur')
  BY <1>1, <1>5, <1>6, <1>9
<1>11. KeepsLog(rec, seg, rec', seg')
  <2>1. SameHanded(seg', seg)
    BY <1>1, <1>8, SegCounts, GrainHands
  <2> QED
    BY <1>1, <2>1, HandedKeeps
<1> HIDE DEF k
<1>12. \A c \in Clients : /\ SawMore(cl[c], cl'[c]) /\ cl'[c].grain = cl[c].grain
                          /\ cl[c].op \in GetOps /\ cl[c].key = k => NoPba \in cl'[c].seen
  BY <1>1, <1>3, SeenSaw
<1>13. \A x \in GrainsOf(table') : x \in GrainsOf(table)
  BY <1>6 DEF T
<1>14. \A c \in Clients :
         /\ SawMore(cl[c], cl'[c]) /\ cl'[c].grain = cl[c].grain
         /\ cl[c].op \in GetOps /\ cl[c].key = k /\ cur[k] \in cl[c].seen => NoPba \in cl'[c].seen
  BY <1>12
<1> QED
  BY <1>2, <1>5, <1>10, <1>11, <1>13, <1>14, MapCollectedStep

\* A relocated record stays the current version of its key, in its new place.
LEMMA MapRelocateStep ==
  ASSUME KInv, MInv, GcRelocate
  PROVE  MInv'
<1> DEFINE g == GcGrain
           r == rec[g]
           k == r.key
           q == NextGrain(Reloc)
           T == GrainsOf(table)
           sg == Allocated(seg, q)
           rc == rec'
<1>1. /\ GcAt /\ GcSlot # NoSlot /\ CanAllocate(Reloc)
      /\ rc = [rec EXCEPT ![q] = r]
      /\ table' = update_inplace(table, GcSlot, Hash[k], 1, q)
      /\ seg' = RelocInvalidated(Released(sg, q), g)
      /\ cur' = [cur EXCEPT ![k] = IF @ = g THEN q ELSE @]
      /\ cl' = Moved(k, g, q)
  BY DEF GcRelocate
<1>2. /\ g \in Grains /\ GcSlot \in Slots /\ Used(table[GcSlot])
      /\ table[GcSlot].pba = g /\ k \in Keys /\ g \in T
  BY <1>1, GcSlotIs
<1>3. /\ cl \in [Clients -> Call] /\ cur \in [Keys -> Grains \cup {NoPba}]
      /\ MapIs(T, rec, cur) /\ rec \in [Grains -> LogRec]
  BY DEF KInv, MInv, Written
<1>4. cur[k] = g
  BY <1>2, <1>3 DEF MapIs
<1>5. cur' = [cur EXCEPT ![k] = q]
  BY <1>1, <1>4
<1>6. Reloc \in Streams /\ r \in LogRec
  BY <1>2, <1>3, SegmentsAssumption DEF Reloc, Streams
<1>7. /\ KeepsLog(rec, seg, rc, sg) /\ GoodTable(table, rc)
      /\ q \notin T /\ q \in Grains
  <2>1. r.key \in Keys
    BY <1>2
  <2>2. /\ KeepsLog(rec, seg, [rec EXCEPT ![q] = r], sg) /\ GoodTable(table, [rec EXCEPT ![q] = r])
        /\ q \notin GrainsOf(table) \cup GrainsHeld(cl) /\ q \in Grains
    <3> HIDE DEF r
    <3> QED
      BY <1>1, <1>6, <2>1, LogWrite
  <2> HIDE DEF r, q, sg, rc
  <2> QED
    BY <1>1, <2>2 DEF T
<1>8. ~(q[2] < seg[q[1]].nr3)
  BY <1>1, <1>6, NextGrainNew
<1>9. \A x \in T : x \in Grains /\ rec[x].key \in Keys
  BY TableKeys
<1>10. rc[q] = r /\ rc[g] = r /\ \A x \in T : rc[x] = rec[x]
  BY <1>1, <1>2, <1>3, <1>7, <1>9
<1>11. g[1] \in Segs /\ q[1] \in Segs
  BY <1>2, <1>7, GrainParts
<1>12. rc[q].key = k /\ rc[g].key = k
  BY <1>10
<1> HIDE DEF g, r, k, q, T, rc
<1>13. GrainsOf(table') = (T \ {g}) \cup {q}
  <2>1. /\ GoodTable(table, rc) /\ rc[table[GcSlot].pba].key = k /\ q \notin GrainsOf(table)
    BY <1>2, <1>7, <1>12 DEF T
  <2>2. GrainsOf(update_inplace(table, GcSlot, Hash[k], 1, q)) = (GrainsOf(table) \ {table[GcSlot].pba}) \cup {q}
    BY <1>2, <1>7, <1>12, <2>1, TableUpdate
  <2> QED
    BY <1>1, <1>2, <2>2 DEF T
<1>14. MapIs((T \ {g}) \cup {q}, rc, [cur EXCEPT ![k] = q])
  <2>1. MapIs(T, rc, cur)
    BY <1>3, <1>10, MapLog
  <2>2. \A x \in T : x \in Grains /\ rc[x].key \in Keys
    BY <1>9, <1>10
  <2> QED
    BY <1>2, <1>3, <1>7, <1>12, <2>1, <2>2, MapReplace
<1>15. MapIs(GrainsOf(table'), rec', cur')
  BY <1>5, <1>13, <1>14 DEF rc
<1>16. KeepsLog(rec, seg, rec', seg')
  <2>1. sg \in [Segs -> AnyCounts]
    <3> DEFINE n == q[2] + 1
               u == [seg[q[1]] EXCEPT !.nr3 = n]
    <3>1. seg \in [Segs -> AnyCounts] /\ seg[q[1]] \in AnyCounts
      BY <1>11, SegCounts
    <3>2. n \in 0 .. SegSize
      BY <1>7, GrainParts, SegmentsAssumption
    <3> HIDE DEF n
    <3>3. u \in AnyCounts
      BY <3>1, <3>2 DEF AnyCounts
    <3>4. sg = [seg EXCEPT ![q[1]] = u]
      BY DEF Allocated, n
    <3> HIDE DEF u, sg
    <3> QED
      BY <1>11, <3>1, <3>3, <3>4
  <2> HIDE DEF sg
  <2> DEFINE s2 == Released(sg, q)
  <2>2. SameHanded(s2, sg)
    BY <1>11, <2>1, GrainHands
  <2>3. s2 \in [Segs -> AnyCounts]
    BY <2>2 DEF SameHanded
  <2> HIDE DEF s2
  <2>4. SameHanded(seg', s2)
    BY <1>1, <1>11, <2>3, GrainHands DEF s2
  <2>5. \A s \in Segs : seg'[s].nr3 = sg[s].nr3
    BY <2>2, <2>4 DEF SameHanded
  <2>6. \A x \in Grains : x[1] \in Segs
    BY GrainParts
  <2> QED
    BY <1>7, <2>5, <2>6 DEF KeepsLog, rc
<1>17. \A c \in Clients :
         /\ SawMore(cl[c], cl'[c]) /\ cl'[c].grain = cl[c].grain
         /\ cl[c].op \in GetOps /\ cl[c].key = k /\ cur[k] \in cl[c].seen => q \in cl'[c].seen
  BY <1>1, <1>3, <1>4, MovedSaw
<1>18. \A x \in GrainsOf(table') : x \in GrainsOf(table) \/ ~(x[2] < seg[x[1]].nr3)
  BY <1>8, <1>13 DEF T
<1> QED
  BY <1>2, <1>5, <1>15, <1>16, <1>17, <1>18, MapCollectedStep

\* Every step of the collector keeps the map.
LEMMA MapGcSteps ==
  ASSUME KInv, MInv, GcStep
  PROVE  MInv'
<1>1. ~GcPurge
  BY NotDeleted DEF GcPurge
<1>2. "reloc" \in SegStates /\ "gc" \in SegStates /\ "free" \in SegStates
  BY DEF SegStates
<1>3. gc # NoGc => gc.seg \in Segs
  BY GcParts
<1>4. ASSUME NEW s \in Segs, GcSelect(s) PROVE MInv'
  BY <1>2, <1>4, MapMoveStep DEF GcSelect
<1>5. CASE GcSkip
  <2>1. UNCHANGED <<table, rec, cl, cur, segVars>>
    BY <1>5 DEF GcSkip
  <2>2. SameHanded(seg', seg)
    BY <2>1, SegCounts DEF segVars
  <2> QED
    BY <2>1, <2>2, MapSegsStep
<1>6. CASE GcStop \/ GcFail \/ GcRelease
  BY <1>2, <1>3, <1>6, MapMoveStep DEF GcStop, GcFail, GcRelease, GcAt
<1> QED
  BY <1>1, <1>4, <1>5, <1>6, MapRelocateStep, MapEvictStep DEF GcStep

\* A segment is taken that no lookup remembers a grain of: what a lookup has
\* visited is not handed out again under it.
LEMMA MapTakeStep ==
  ASSUME KInv, MInv, NEW st \in Streams, NEW s \in Segs,
         \A c \in Clients : \A g \in Remembered(c) : g[1] # s,
         TakeSegment(st, s), UNCHANGED <<table, rec, cl, gc, cur>>
  PROVE  MInv'
<1>1. \A x \in Segs : x # s => seg'[x] = seg[x]
  BY DEF TakeSegment, KInv, SegInv
<1>2. \A g \in Grains : g[1] \in Segs
  BY GrainParts
<1>3. ASSUME NEW c \in Clients
      PROVE  LookOK(cl[c], GrainsOf(table), GrainsHeld(cl), rec, seg')
  <2>1. LookOK(cl[c], GrainsOf(table), GrainsHeld(cl), rec, seg)
    BY DEF MInv
  <2>2. ASSUME NEW v \in Rem(cl[c]) PROVE Past(v, seg', GrainsHeld(cl))
    <3>1. v[1] # s
      BY <2>2 DEF Rem, Remembered
    <3>2. Past(v, seg, GrainsHeld(cl))
      BY <2>1, <2>2 DEF LookOK
    <3> QED
      BY <1>1, <1>2, <3>1, <3>2 DEF Past
  <2> QED
    BY <2>1, <2>2 DEF LookOK
<1> QED
  BY <1>3 DEF MInv

\* Every step of the allocator on its own keeps the map, unless it takes a
\* segment that a lookup remembers a grain of.
LEMMA MapSegmentSteps ==
  ASSUME KInv, MInv, SegmentStep, ~reused'
  PROVE  MInv'
<1>1. ASSUME NEW st \in Streams, StampSegment(st), UNCHANGED <<table, rec, cl, gc, cur>> PROVE MInv'
  <2> DEFINE H == GrainsOf(table) \cup GrainsHeld(cl)
  <2>1. SegInv(seg, staged, H, GrainsHeld(cl)) /\ seg_alloc_nr \in Nat
    BY DEF KInv
  <2>2. /\ SegInv(seg', staged', H, GrainsHeld(cl))
        /\ \A x \in Segs : seg'[x].nr3 = seg[x].nr3
    <3> HIDE DEF H
    <3> QED
      BY <1>1, <2>1, SegStamp
  <2>3. SegRec \subseteq AnyCounts
    BY DEF SegRec, AnyCounts
  <2>4. SameHanded(seg', seg)
    BY <2>2, <2>3 DEF SameHanded, SegInv
  <2> QED
    BY <1>1, <2>4, MapSegsStep
<1>2. ASSUME NEW s \in Segs, Destage(s), UNCHANGED <<table, rec, cl, gc, cur>> PROVE MInv'
  <2> DEFINE q == IF seg[s].valid = 0 THEN "free" ELSE "gc"
  <2>1. q \in SegStates /\ seg' = [seg EXCEPT ![s].state = q]
    BY <1>2 DEF Destage, SegStates
  <2> HIDE DEF q
  <2> QED
    BY <1>2, <2>1, MapMoveStep
<1>3. ASSUME NEW st \in Streams, NEW s \in Segs, TakeSegment(st, s),
             reused' = (reused \/ \E c \in Clients : \E g \in Remembered(c) : g[1] = s)
      PROVE  \A c \in Clients : \A g \in Remembered(c) : g[1] # s
  <2>1. ~\E c \in Clients : \E g \in Remembered(c) : g[1] = s
    BY <1>3, Zenon
  <2> QED
    BY <2>1, Zenon
<1> QED
  BY <1>1, <1>2, <1>3, MapTakeStep DEF SegmentStep

-----------------------------------------------------------------------------
(* The theorems *)

\* An empty table holds no versions, and there are none.
LEMMA InitMInv ==
  ASSUME Init
  PROVE  MInv
<1>1. ~Used(Unused)
  BY DEF Unused, Used
<1>2. GrainsOf(table) = {}
  BY <1>1 DEF Init, EmptyTable, GrainsOf
<1>3. \A k \in Keys : cur[k] = NoPba
  BY DEF Init
<1>4. \A c \in Clients : cl[c] = Idle
  BY DEF Init
<1> HIDE DEF Idle
<1> QED
  BY <1>2, <1>3, <1>4, IdleLooks DEF MInv, MapIs

\* Every step of a store without deletes keeps the map, from a packed table.
LEMMA NextMInv ==
  ASSUME KInv, MInv, Packed, PutsOnly, [Next]_vars, ~reused'
  PROVE  MInv'
<1>1. CASE \E c \in Clients : PutStep(c)
  BY <1>1, MapPutSteps
<1>2. CASE \E c \in Clients : GetStep(c)
  BY <1>2, MapGetSteps
<1>3. CASE \E c \in Clients : HeaderRead(c)
  BY <1>3, MapHeaderReadStep
<1>4. CASE GcStep
  BY <1>4, MapGcSteps
<1>5. CASE SegmentStep
  BY <1>5, MapSegmentSteps
<1>6. CASE UNCHANGED vars
  BY <1>6 DEF vars, segVars, MInv
<1> QED
  BY <1>1, <1>2, <1>3, <1>4, <1>5, <1>6, NoDeletes DEF Next

\* The entries of a key are none, or one that names the current version.
LEMMA MInvCurrent ==
  ASSUME KInv, MInv
  PROVE  MapHoldsCurrent
<1> SUFFICES ASSUME NEW k \in Keys
             PROVE  /\ Cardinality(Entries(k)) <= 1
                    /\ {table[s].pba : s \in Entries(k)} = {cur[k]} \ {NoPba}
  BY DEF MapHoldsCurrent
<1>1. ASSUME NEW s \in Entries(k) PROVE s \in Slots /\ table[s].pba = cur[k] /\ cur[k] # NoPba
  <2>1. s \in Slots /\ Used(table[s]) /\ rec[table[s].pba].key = k
    BY DEF Entries, Live
  <2>2. table[s].pba \in GrainsOf(table)
    BY <2>1 DEF GrainsOf
  <2> QED
    BY <2>1, <2>2 DEF MInv, MapIs, Used
<1>2. ASSUME cur[k] # NoPba PROVE \E s \in Entries(k) : table[s].pba = cur[k]
  <2>1. cur[k] \in GrainsOf(table) /\ rec[cur[k]].key = k
    BY <1>2 DEF MInv, MapIs
  <2>2. PICK s \in Slots : Used(table[s]) /\ table[s].pba = cur[k]
    BY <2>1 DEF GrainsOf
  <2>3. ~Deleted(table[s])
    BY <2>2 DEF KInv, GoodTable, AtHome
  <2> QED
    BY <2>1, <2>2, <2>3 DEF Entries, Live
<1>3. {table[s].pba : s \in Entries(k)} = {cur[k]} \ {NoPba}
  BY <1>1, <1>2
<1>4. \A s, u \in Entries(k) : s = u
  BY <1>1 DEF KInv, GoodTable, Used
<1>5. Cardinality(Entries(k)) <= 1
  <2>1. CASE Entries(k) = {}
    BY <2>1, FS_EmptySet
  <2>2. CASE Entries(k) # {}
    <3>1. PICK s : Entries(k) = {s}
      BY <1>4, <2>2
    <3> QED
      BY <3>1, FS_Singleton
  <2> QED
    BY <2>1, <2>2
<1> QED
  BY <1>3, <1>5

\* What a get returns it has seen.
LEMMA MInvGets ==
  ASSUME KInv, MInv
  PROVE  GetReturnsCurrent
<1> SUFFICES ASSUME NEW c \in Clients, cl[c].pc = "done"
             PROVE  (IF cl[c].res = "ENOSPC" THEN NoPba ELSE cl[c].res) \in cl[c].seen
  BY DEF GetReturnsCurrent
<1>1. cl[c].op \in GetOps
  BY Ops DEF KInv, CallOK, Call
<1> QED
  BY <1>1 DEF MInv, GetOK

\* The table is the map of the current versions, and gets under way have seen
\* what they read, in every state of a store that only puts, gets, relocates
\* and evicts.  Two things the code does not ensure are excluded: a segment that
\* is taken while a lookup remembers a grain of it (after which nothing is
\* claimed), and an unused slot before an entry of its bucket, at which lookup()
\* ends.
THEOREM MapInvariant ==
  ASSUME PutsOnly
  PROVE  Spec /\ [](~reused => Packed) => [](~reused => MInv)
<1>1. Init => (~reused => MInv)
  BY InitMInv
<1>2. (~reused => KInv) /\ (~reused => MInv) /\ (~reused => Packed) /\ [Next]_vars => (~reused => MInv)'
  BY NextMInv, ReusedStays
<1> QED
  BY <1>1, <1>2, StoreInvariant, PTL DEF Spec

\* While the buckets are packed, and until a segment is taken that a lookup
\* remembers, the table leads to the value of the last put that took effect, by
\* one entry: puts of an absent key that run at the same time, and that drop the
\* lock to read records or to write anew, do not both insert it, and neither do
\* shifts, relocations and evictions lose it.
THEOREM CurrentKept ==
  ASSUME PutsOnly
  PROVE  Spec /\ [](~reused => Packed) => []MapHoldsCurrent
<1>1. (~reused => KInv) /\ (~reused => MInv) => MapHoldsCurrent
  BY MInvCurrent DEF MapHoldsCurrent
<1> QED
  BY <1>1, StoreInvariant, MapInvariant, PTL

\* While the buckets are packed, and until a segment is taken that a lookup
\* remembers, a get returns a value its key had during the get and a miss only
\* if the key was absent during it, although it reads the record without the
\* lock and does not look at the table again.
THEOREM GetsLinearizable ==
  ASSUME PutsOnly
  PROVE  Spec /\ [](~reused => Packed) => []GetReturnsCurrent
<1>1. (~reused => KInv) /\ (~reused => MInv) => GetReturnsCurrent
  BY MInvGets DEF GetReturnsCurrent
<1> QED
  BY <1>1, StoreInvariant, MapInvariant, PTL

-----------------------------------------------------------------------------
(* Stores whose buckets stay packed *)

\* The runtime is not one of memcache, which evict, and no put is a REPLACE,
\* which may be refused after a displacement has been made for it.
NoHoles == TRUE \notin Evicting /\ "REPLACE" \notin PutOps

\* A displacement that a put under way would make in a full bucket makes room
\* or moves nothing: it does not get stuck half-way.
ShiftsWhole ==
  \A c \in Clients :
    cl[c].op \in PutOps /\ cl[c].pc \in {"lock", "recheck"} =>
      LET h == Hash[cl[c].key]
          sh == try_shift(table, h)
      IN (\A p \in Bucket(h) : Used(table[p])) => sh.rc = "0" \/ sh.table = table

\* An entry is put into the first unused slot of its bucket.
LEMMA PackedInsert ==
  ASSUME NEW t, NEW r, GoodTable(t, r), NEW k \in Keys, NEW s \in Bucket(Hash[k]), Plugged(t, s),
         \A p \in hash_to_hb(Hash[k]) .. s - 1 : Used(t[p]), NEW g \in Grains
  PROVE  PackedTable(insert(t, s, Hash[k], 1, g))
<1> DEFINE e == EntryAt(s, k, g)
           u == insert(t, s, Hash[k], 1, g)
<1>1. s \in Slots /\ u = [t EXCEPT ![s] = e] /\ t \in [Slots -> HashEntry]
  BY EntryFields DEF insert, EntryAt, GoodTable, Tables
<1>2. Used(e) /\ e.bucket_offset = s - hash_to_hb(Hash[k])
  BY EntryAtHome DEF AtHome
<1> HIDE DEF e, u
<1>3. u[s] = e /\ \A x \in Slots : x # s => u[x] = t[x]
  BY <1>1
<1>4. \A p : Used(t[p]) \/ p = s => Used(u[p]) \/ p \notin Slots
  BY <1>2, <1>3
<1>5. hash_to_hb(Hash[k]) \in Nat /\ Slots \subseteq Nat
  <2>1. Hash[k] \in Nat
    BY KVAssumption
  <2> QED
    BY <2>1, Homes, HopscotchAssumption DEF Slots, EntryNr
<1>6. ASSUME NEW x \in Slots, Used(u[x]), NEW p \in x - u[x].bucket_offset .. x - 1 PROVE Used(u[p])
  <2>1. CASE x = s
    <3>1. p \in hash_to_hb(Hash[k]) .. s - 1
      <4>1. s - u[s].bucket_offset = hash_to_hb(Hash[k])
        BY <1>1, <1>2, <1>3, <1>5
      <4> QED
        BY <1>6, <2>1, <4>1
    <3>2. p \in Slots
      BY <1>1, <1>5, <3>1, HopscotchAssumption DEF Slots, EntryNr
    <3> QED
      BY <1>4, <3>1, <3>2
  <2>2. CASE x # s
    <3>1. u[x] = t[x] /\ Used(t[x])
      BY <1>3, <1>6, <2>2
    <3>2. Used(t[p]) \/ p = s
      BY <1>6, <3>1 DEF Plugged
    <3>3. p \in Slots
      BY <1>6, <3>1, BeforeSlots
    <3> QED
      BY <1>4, <3>2, <3>3
  <2> QED
    BY <2>1, <2>2
<1>7. PackedTable(u)
  BY <1>6 DEF PackedTable
<1> QED
  BY <1>7 DEF u

\* An entry that gets another grain stays where it is.
LEMMA PackedUpdate ==
  ASSUME NEW t, NEW r, GoodTable(t, r), PackedTable(t), NEW s \in Slots, Used(t[s]), NEW h, NEW g \in Grains
  PROVE  PackedTable(update_inplace(t, s, h, 1, g))
<1> DEFINE tag == hash_to_keytag(h)
           size == Min({1, MaxKvSize})
           e == [t[s] EXCEPT !.key_tag = tag, !.kv_size = size, !.pba = g]
           u == update_inplace(t, s, h, 1, g)
<1>1. u = [t EXCEPT ![s] = e] /\ t[s] \in HashEntry /\ t \in [Slots -> HashEntry]
  BY DEF update_inplace, Tables, GoodTable
<1> HIDE DEF tag, size
<1>2. e.bucket_offset = t[s].bucket_offset /\ e.pba = g
  BY <1>1 DEF HashEntry
<1>3. Used(e)
  BY <1>2, KVAssumption, HopscotchAssumption DEF Used
<1> HIDE DEF e, u
<1>4. u[s] = e /\ \A x \in Slots : x # s => u[x] = t[x]
  BY <1>1
<1>5. \A x \in Slots : (Used(u[x]) <=> Used(t[x])) /\ u[x].bucket_offset = t[x].bucket_offset
  BY <1>2, <1>3, <1>4
<1>6. ASSUME NEW x \in Slots, Used(u[x]), NEW p \in x - u[x].bucket_offset .. x - 1 PROVE Used(u[p])
  <2>1. Used(t[x]) /\ p \in x - t[x].bucket_offset .. x - 1
    BY <1>5, <1>6
  <2>2. p \in Slots /\ Used(t[p])
    BY <2>1, BeforeSlots DEF PackedTable
  <2> QED
    BY <1>5, <2>2
<1>7. PackedTable(u)
  BY <1>6 DEF PackedTable
<1> QED
  BY <1>7 DEF u

\* A round of a put's lookup keeps the buckets packed.
LEMMA PackedRoundStep ==
  ASSUME KInv, Packed, ShiftsWhole, NoHoles, NEW c \in Clients, cl[c].op \in PutOps,
         cl[c].pc \in {"lock", "recheck"}, NEW visited, PutRound(c, visited)
  PROVE  Packed'
<1> DEFINE k == cl[c].key
           g == cl[c].grain
           r == lookup_put(k, visited)
           sh == try_shift(table, Hash[k])
<1>1. k \in Keys /\ g \in Grains /\ GoodTable(table, rec) /\ Hash[k] \in Nat /\ cl[c].op # "REPLACE"
  BY PutHolds, KVAssumption DEF KInv, NoHoles
<1>2. CASE r[1] = "0" \/ r[1] = "assert_visited"
  <2>1. UNCHANGED table
    BY <1>2 DEF PutRound, VisitedOverflow
  <2> QED
    BY <2>1 DEF Packed
<1>3. CASE r[1] = "ENODATA"
  <2>1. /\ r[2] \in Bucket(Hash[k]) /\ ~Used(table[r[2]])
        /\ \A p \in hash_to_hb(Hash[k]) .. r[2] - 1 : Used(table[p])
    <3> HIDE DEF k
    <3> QED
      BY <1>1, <1>3, InsertSlot
  <2> HIDE DEF r
  <2>2. PutSettle(c, table, r[2], FALSE)
    BY <1>1, <1>3 DEF PutRound, r
  <2>3. table' = insert(table, r[2], Hash[k], 1, g)
    BY <2>2 DEF PutSettle
  <2>4. Plugged(table, r[2])
    BY DEF Packed, PackedTable, Plugged
  <2> HIDE DEF k, g
  <2>5. PackedTable(insert(table, r[2], Hash[k], 1, g))
    BY <1>1, <2>1, <2>4, PackedInsert
  <2> QED
    BY <2>3, <2>5 DEF Packed
<1>4. CASE r[1] = "ENOSPC"
  <2>1. \A p \in Bucket(Hash[k]) : Used(table[p])
    <3> HIDE DEF k
    <3> QED
      BY <1>1, <1>4, FullBucket
  <2>2. /\ GoodTable(sh.table, rec)
        /\ sh.rc = "0" => sh.free \in Bucket(Hash[k])
        /\ sh.rc = "0" => \A p \in hash_to_hb(Hash[k]) .. sh.free - 1 : Used(sh.table[p])
        /\ sh.rc = "0" => Plugged(sh.table, sh.free)
    <3>1. PackedTable(table)
      BY DEF Packed
    <3> HIDE DEF k
    <3> QED
      BY <1>1, <2>1, <3>1, ShiftKeeps
  <2>3. sh.rc = "0" \/ sh.table = table
    BY <2>1 DEF ShiftsWhole
  <2> HIDE DEF r, sh
  <2>4. CASE sh.rc = "0"
    <3>1. PutSettle(c, sh.table, sh.free, FALSE)
      BY <1>1, <1>4, <2>4 DEF PutRound, r, sh
    <3>2. table' = insert(sh.table, sh.free, Hash[k], 1, g)
      BY <3>1 DEF PutSettle
    <3> HIDE DEF k, g
    <3>3. PackedTable(insert(sh.table, sh.free, Hash[k], 1, g))
      BY <1>1, <2>2, <2>4, PackedInsert
    <3> QED
      BY <3>2, <3>3 DEF Packed
  <2>5. CASE sh.rc # "0"
    <3>1. PutReject(c, sh.table)
      BY <1>4, <2>5 DEF PutRound, r, sh
    <3>2. table' = table
      BY <2>3, <2>5, <3>1 DEF PutReject
    <3> QED
      BY <3>2 DEF Packed
  <2> QED
    BY <2>4, <2>5
<1> QED
  BY <1>2, <1>3, <1>4 DEF PutRound

\* Every step of a put keeps the buckets packed.
LEMMA PackedPutSteps ==
  ASSUME KInv, Packed, ShiftsWhole, NoHoles, NEW c \in Clients, PutStep(c)
  PROVE  Packed'
<1>1. CASE PutLookup(c)
  BY <1>1, PackedRoundStep DEF PutLookup
<1>2. CASE PutRecheck(c)
  <2> DEFINE s == EntryAgain(c)
             g == cl[c].grain
             h == Hash[cl[c].key]
  <2>1. cl[c].op \in PutOps /\ cl[c].pc = "recheck"
    BY <1>2 DEF PutRecheck
  <2>2. CASE IsKey(c, cl[c].md) /\ EntryAgain(c) # NoSlot
    <3>1. PutFound(c, s)
      BY <1>2, <2>2 DEF PutRecheck
    <3>2. s \in Slots /\ Used(table[s]) /\ g \in Grains /\ GoodTable(table, rec)
      BY <2>1, <2>2, EntryAgainSlot, PutHolds DEF KInv
    <3> HIDE DEF s
    <3>3. table' = table \/ table' = update_inplace(table, s, h, 1, g)
      BY <3>1 DEF PutFound, PutReject, PutSettle
    <3> HIDE DEF g, h
    <3>4. PackedTable(update_inplace(table, s, h, 1, g))
      BY <3>2, PackedUpdate DEF Packed
    <3> QED
      BY <3>3, <3>4 DEF Packed
  <2>3. CASE ~(IsKey(c, cl[c].md) /\ EntryAgain(c) # NoSlot)
    BY <1>2, <2>1, <2>3, PackedRoundStep DEF PutRecheck
  <2> QED
    BY <2>2, <2>3
<1>3. CASE UNCHANGED table
  BY <1>3 DEF Packed
<1> QED
  BY <1>1, <1>2, <1>3 DEF PutStep, PutStart, PutDrain, PutRewrite

\* Every step of a collector that does not evict keeps the buckets packed.
LEMMA PackedGcSteps ==
  ASSUME KInv, Packed, ~evicts, GcStep
  PROVE  Packed'
<1>1. ~GcPurge /\ ~GcEvict
  BY NotDeleted DEF GcPurge, GcEvict
<1>2. CASE GcRelocate
  <2> DEFINE q == NextGrain(Reloc)
             h == Hash[rec[GcGrain].key]
  <2>1. GcAt /\ GcSlot # NoSlot /\ CanAllocate(Reloc) /\ table' = update_inplace(table, GcSlot, h, 1, q)
    BY <1>2 DEF GcRelocate
  <2>2. GcSlot \in Slots /\ Used(table[GcSlot]) /\ GoodTable(table, rec)
    BY <2>1, GcSlotIs DEF KInv
  <2>3. q \in Grains
    <3>1. Reloc \in Streams
      BY SegmentsAssumption DEF Reloc, Streams
    <3> QED
      BY <2>1, <3>1, NextGrainType
  <2> HIDE DEF q, h
  <2>4. PackedTable(update_inplace(table, GcSlot, h, 1, q))
    BY <2>2, <2>3, PackedUpdate DEF Packed
  <2> QED
    BY <2>1, <2>4 DEF Packed
<1>3. CASE UNCHANGED table
  BY <1>3 DEF Packed
<1> QED
  BY <1>1, <1>2, <1>3 DEF GcStep, GcSelect, GcSkip, GcStop, GcFail, GcRelease

\* Every step keeps the buckets packed, if no displacement gets stuck.
LEMMA NextPacked ==
  ASSUME KInv, Packed, ~evicts, ShiftsWhole, NoHoles, PutsOnly, [Next]_vars
  PROVE  Packed' /\ ~evicts'
<1>1. evicts' = evicts
  BY DEF Next, vars
<1>2. CASE \E c \in Clients : PutStep(c)
  BY <1>1, <1>2, PackedPutSteps
<1>3. CASE GcStep
  BY <1>1, <1>3, PackedGcSteps
<1>4. CASE UNCHANGED table
  BY <1>1, <1>4 DEF Packed
<1>5. ASSUME NEW c \in Clients, GetStep(c) \/ HeaderRead(c) PROVE UNCHANGED table
  BY <1>5 DEF GetStep, HeaderRead, GetStart, ExistsStart, ReadStart, GetLookup, GetRead, ExistsLookup,
     ExistsRead, GetReturn
<1>6. CASE SegmentStep
  BY <1>4, <1>6 DEF SegmentStep
<1>7. CASE UNCHANGED vars
  BY <1>4, <1>7 DEF vars
<1> QED
  BY <1>2, <1>3, <1>4, <1>5, <1>6, <1>7, NoDeletes DEF Next

\* The buckets stay packed, until a segment is taken that a lookup remembers:
\* insertions take the first unused slot, a displacement that makes room leaves
\* the one that is then filled, and updates and relocations keep their slots.
\* Only evictions, a REPLACE refused after a displacement and a displacement
\* stuck half-way leave holes.
THEOREM BucketsPacked ==
  ASSUME PutsOnly, NoHoles
  PROVE  Spec /\ []ShiftsWhole => [](~reused => Packed)
<1>1. Init => (~reused => Packed /\ ~evicts)
  <2> SUFFICES ASSUME Init PROVE Packed /\ ~evicts
    OBVIOUS
  <2>1. ~Used(Unused)
    BY DEF Unused, Used
  <2> QED
    BY <2>1, KVAssumption DEF Init, EmptyTable, Packed, PackedTable, NoHoles
<1>2. (~reused => KInv) /\ (~reused => Packed /\ ~evicts) /\ ShiftsWhole /\ [Next]_vars
        => (~reused => Packed /\ ~evicts)'
  BY NextPacked, ReusedStays
<1> QED
  BY <1>1, <1>2, StoreInvariant, PTL DEF Spec

\* A store that creates and updates keys, with gets, relocations and whole
\* displacements, is a map until a segment is taken that a lookup remembers: the
\* table leads to the last value put of every key, by one entry, and a get
\* returns a value its key had during the get.
THEOREM StoreIsMap ==
  ASSUME PutsOnly, NoHoles
  PROVE  Spec /\ []ShiftsWhole => [](MapHoldsCurrent /\ GetReturnsCurrent)
BY BucketsPacked, CurrentKept, GetsLinearizable, PTL
=============================================================================
