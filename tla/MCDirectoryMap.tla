--------------------------- MODULE MCDirectoryMap ---------------------------
EXTENDS DirectoryMap, TLC
CONSTANTS k1, k2, k3, k4, k5, p6
VARIABLE work   \* "fill": no deletes and replaces; "delete"; "copy": buckets of three slots

\* Eight homes and two tags.  k1 and k2 have the same fingerprint, k3 their
\* home and another tag; k4 and k5 live where a shift has to pass.
MCHash == k1 :> 0 @@ k2 :> 0 @@ k3 :> 8 @@ k4 :> 2 @@ k5 :> 1
\* Buckets of three slots, in which a tombstone and two keys of one fingerprint
\* have room: k1 and k2, and k3 and k5 of the same home and the same new table
WideMap == INSTANCE HopscotchMap WITH HomesNr <- 4, BucketSize <- 3, TagsNr <- 4
Wide == INSTANCE DirectoryMap WITH HomesNr <- 4, BucketSize <- 3, TagsNr <- 4,
          Hash <- k1 :> 0 @@ k2 :> 0 @@ k3 :> 4 @@ k5 :> 8, Keys <- {k1, k2, k3, k5}, DelKeys <- {k3}
\* p6 is used in "fill" alone
PbaSymmetry == Permutations(Pbas \ {p6})
MCInit == (Init /\ work \in {"fill", "delete"}) \/ (Wide!Init /\ work = "copy")
MCNext ==
  \/ work = "fill" /\ (Puts(Keys, {"UPSERT", "CREATE"}) \/ Moves) /\ UNCHANGED work
  \/ /\ work = "delete" /\ (Puts(DelKeys, {"UPSERT", "REPLACE"}) \/ Deletes \/ Moves)
     /\ disk'[p6] = NoRec /\ UNCHANGED work
  \/ /\ work = "copy" /\ (Wide!Puts({k1, k2, k3, k5}, {"UPSERT"}) \/ Wide!Deletes \/ Wide!Moves)
     /\ disk'[p6] = NoRec /\ UNCHANGED work
MCSpec == MCInit /\ [][MCNext]_<<vars, work>>

\* A key that is in a table is found, and found at its current version, as long
\* as no delete, and no replace of a key that is absent, leaves a hole in its bucket.
FoundWithoutHoles == work = "fill" => LookupFindsNewest

\* Shifts, grows, deletes and relocations keep one entry for every current
\* version (LiveEntriesKept), with buckets of two slots and of three.
EntriesKept == IF work = "copy" THEN Wide!LiveEntriesKept ELSE LiveEntriesKept

\* The copy of grow() has room for every entry and keeps all but the tombstones
\* of a table with two keys of one fingerprint (GrowHasRoom), with both.
CopyKeeps == IF work = "copy" THEN Wide!GrowHasRoom ELSE GrowHasRoom
=============================================================================
