------------------------------ MODULE MCKVStore ------------------------------
EXTENDS KVStore, TLC
CONSTANTS kA, kB, kD, c1, c2
VARIABLE play   \* what the two clients of a behaviour do
\* Eight homes and two tags: kA and kB have the same fingerprint, and kD is in
\* the way of one of them until it is shifted.
MCHash == kA :> 0 @@ kB :> 16 @@ kD :> 1
SegSymmetry == Permutations(Segs)

\* "put": two putters, with shifts and relocation; "get": a putter and a getter;
\* "evict": exists in a runtime of memcache, on keys of different buckets;
\* "del": deletes against puts, of two keys and so without shifts; "shift": of
\* three, with shifts
CONSTANT Plays
Does(c) ==
  CASE play = "put" -> {"UPSERT"}
    [] play \in {"del", "shift"} -> IF c = c1 THEN {"DEL"} ELSE {"UPSERT"}
    [] play = "evict" -> IF c = c1 THEN {"CREATE", "REPLACE"} ELSE {"EXISTS"}
    [] OTHER -> IF c = c1 THEN {"UPSERT"} ELSE {"GET"}
Knows(c) ==
  CASE play = "del" -> {kA, kB} [] play = "evict" -> {kA, kD} [] OTHER -> {kA, kB, kD}
InPlay ==
  \A c \in Clients : cl[c].op # "IDLE" =>
    cl[c].op \in Does(c) /\ cl[c].key \in Knows(c) \cup {NoKey}

\* Two segments are stamped in "evict", which relocates nothing
Small == play = "evict" => seg_alloc_nr <= 2

MCInit == Init /\ play \in Plays /\ evicts = (play = "evict")
\* The collector is stopped in "evict" alone
Stopped == GcAt /\ gc' = NoGc
MCNext ==
  Next /\ UNCHANGED play /\ InPlay' /\ Small' /\ (Stopped => play = "evict" \/ ~CanAllocate(Reloc))
MCSpec == MCInit /\ [][MCNext]_<<vars, play>>
=============================================================================
