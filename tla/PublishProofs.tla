---------------------------- MODULE PublishProofs ----------------------------
(***************************************************************************)
(* What publishing keeps for any number of saves, whatever fails, leaves,  *)
(* crashes or loses power: blobs that survive complete, acknowledged saves *)
(* that stay, ledgers that are never ahead of their blob, the register.    *)
(* Saves may overlap, when a handler was dropped: what that may cost, and  *)
(* that it costs nothing else, is in the set `overlapped'.                 *)
(***************************************************************************)
EXTENDS Publish, TLAPS

\* What each save knows of the files it shares with the others.  Whatever
\* lies under the scratch name is its own or a later save's, and so is the
\* blob once it has renamed; and every save begun while its closure is at
\* work is counted as overlapped.
SaveKnows(n) ==
    /\ pc[n] \in Backend => n = last
    /\ pc[n] \in {"ledger", "fsync"} => n \in whole
    /\ pc[n] \in Backend \cup {"fsync", "rename"}
         => dir["save"] = Nothing \/ dir["save"] >= n
    /\ pc[n] = "rename" /\ dir["save"] = n => n \in synced
    /\ pc[n] \in {"sidecar", "sync"}
         => /\ dir["save"] = Nothing \/ dir["save"] > n
            /\ dir["bin"] = Nothing \/ dir["bin"] >= n
            /\ dir["bin"] >= n \/ taken >= n
    /\ pc[n] \in Publishing => \A m \in Saves : n < m /\ m <= last => m \in overlapped

Underway == \A n \in Saves : SaveKnows(n)

\* The directory as it is may be what is on the disk; nothing in any of them
\* comes from a save that has not begun.
Bounded ==
    /\ dir \in onDisk
    /\ \A d \in onDisk : \A f \in Names : d[f] <= last

Sound == BlobsSurvive /\ LedgerNotAhead

PublishInv == TypeOK /\ Underway /\ Bounded /\ Sound

\* A directory operation that writes only what is admissible keeps every
\* directory that may be found admissible.
LEMMA BecomesSound ==
    ASSUME PublishInv, NEW d \in Directories, Becomes(d),
           last' \in 0..MaxSaves, last <= last',
           synced \subseteq synced', overlapped \subseteq overlapped',
           \A f \in Names : d[f] <= last',
           d["bin"] \in synced' \cup overlapped' \cup {Nothing},
           \/ d["bin"] = Nothing
           \/ d["bin.ckpt"] \in overlapped'
           \/ d["bin.ckpt"] <= d["bin"]
    PROVE  Bounded' /\ Sound' /\ dir' \in Directories /\ onDisk' \subseteq Directories
<1> USE DEF PublishInv, TypeOK, Bounded, Sound, Becomes, Directories, Names
<1>1. Bounded'
  BY MaxSavesAssumption
<1>2. Sound'
  BY DEF BlobsSurvive, LedgerNotAhead
<1> QED BY <1>1, <1>2

\* A step that does no directory operation.
LEMMA StaySound ==
    ASSUME PublishInv, UNCHANGED <<dir, onDisk, last, overlapped>>,
           synced \subseteq synced'
    PROVE  Bounded' /\ Sound' /\ dir' \in Directories /\ onDisk' \subseteq Directories
  BY DEF PublishInv, TypeOK, Bounded, Sound, BlobsSurvive, LedgerNotAhead

\* What a save's step leaves of the others: it moves itself, to a place it
\* has not left, and gives back no gate but its own.
LEMMA GotoMoves ==
    ASSUME PublishInv, NEW n \in Saves, NEW l \in PCs, l # "new", pc[n] # "new",
           Goto(n, l)
    PROVE  /\ pc' \in [Saves -> PCs] /\ pc'[n] = l
           /\ \A m \in Saves : m # n => pc'[m] = pc[m]
           /\ last' = last /\ overlapped' = overlapped /\ taken' = taken
           /\ \A m \in Saves : pc'[m] = "new" <=> m > last
           /\ gate' # Nothing => gate' = last /\ pc'[last] # "over"
<1>1. /\ pc \in [Saves -> PCs] /\ gate' = (IF l = "over" /\ gate = n THEN Nothing ELSE gate)
      /\ pc' = [pc EXCEPT ![n] = l]
      /\ last' = last /\ overlapped' = overlapped /\ taken' = taken
      /\ gate # Nothing => gate = last /\ pc[last] # "over"
      /\ \A m \in Saves : pc[m] = "new" <=> m > last
      /\ last \in 0..MaxSaves
  BY DEF Goto, PublishInv, TypeOK
<1>2. pc' \in [Saves -> PCs] /\ pc'[n] = l /\ \A m \in Saves : m # n => pc'[m] = pc[m]
  BY <1>1
<1>3. ASSUME gate' # Nothing PROVE gate' = last /\ pc'[last] # "over"
  <2>1. gate' = gate /\ gate = last /\ pc[last] # "over" /\ last \in Saves
    BY <1>1, <1>3, MaxSavesAssumption DEF Nothing, Saves
  <2>2. CASE n = last
    BY <1>1, <1>2, <1>3, <2>1, <2>2
  <2>3. CASE n # last
    BY <1>2, <2>1, <2>3
  <2> QED BY <2>1, <2>2, <2>3
<1> QED BY <1>1, <1>2, <1>3

\* A save keeps what it knows of the files while no other save begins: what
\* is under the scratch name stays or goes, to become the blob or for good,
\* and a blob that goes has been taken by the quota.
FilesOnlyGo ==
    /\ last' = last /\ overlapped' = overlapped
    /\ whole \subseteq whole' /\ synced \subseteq synced'
    /\ dir' \in Directories
    /\ dir'["save"] \in {Nothing, dir["save"]}
    /\ \/ dir'["bin"] = dir["bin"]
       \/ dir'["bin"] = Nothing /\ dir["bin"] <= taken'
       \/ dir'["bin"] = dir["save"] /\ dir["save"] # Nothing
    /\ taken \in Nat /\ taken' \in Nat /\ taken <= taken'

LEMMA OthersKnow ==
    ASSUME PublishInv, FilesOnlyGo, NEW m \in Saves,
           pc'[m] = pc[m] \/ pc'[m] \in {"new", "over"}
    PROVE  SaveKnows(m)'
<1> USE DEF FilesOnlyGo
<1>1. SaveKnows(m) /\ dir \in Directories /\ m \in Nat \ {0}
  BY DEF PublishInv, TypeOK, Underway, Saves
<1>2. /\ dir["save"] \in Nat /\ dir["bin"] \in Nat
      /\ dir'["save"] \in Nat /\ dir'["bin"] \in Nat
  BY <1>1, MaxSavesAssumption DEF Directories, Names
<1>3. CASE pc'[m] \in {"new", "over"}
  BY <1>3 DEF SaveKnows, Backend, Publishing
<1>4. CASE pc'[m] = pc[m]
  <2>1. pc[m] \in {"sidecar", "sync"}
          => /\ dir'["save"] = Nothing \/ dir'["save"] > m
             /\ dir'["bin"] = Nothing \/ dir'["bin"] >= m
             /\ dir'["bin"] >= m \/ taken' >= m
    BY <1>1, <1>2 DEF SaveKnows, Nothing
  <2>2. pc[m] \in Backend \cup {"fsync", "rename"}
          => dir'["save"] = Nothing \/ dir'["save"] >= m
    BY <1>1 DEF SaveKnows
  <2>3. pc[m] = "rename" /\ dir'["save"] = m => m \in synced'
    BY <1>1 DEF SaveKnows, Nothing
  <2> QED BY <1>1, <1>4, <2>1, <2>2, <2>3 DEF SaveKnows
<1> QED BY <1>3, <1>4

\* The backend's half.
LEMMA OpenSound ==
    ASSUME PublishInv, OpenScratch
    PROVE  PublishInv'
<1> DEFINE n == last + 1
           d == [dir EXCEPT !["save"] = n]
<1>0. /\ n \in Saves /\ last \in Nat /\ gate = Nothing
      /\ \A m \in Saves : pc[m] \notin Backend
      /\ Becomes(d) /\ pc' = [pc EXCEPT ![n] = "kv"] /\ gate' = n /\ last' = n
      /\ overlapped' = (IF \E m \in Saves : pc[m] \in Publishing
                        THEN overlapped \cup {n} ELSE overlapped)
      /\ UNCHANGED <<whole, synced, acked, taken>>
  BY DEF OpenScratch, PublishInv, TypeOK
<1>1. /\ d \in Directories
      /\ \A f \in Names : d[f] <= n
      /\ d["bin"] = dir["bin"] /\ d["bin.ckpt"] = dir["bin.ckpt"]
      /\ d["save"] = n
  BY <1>0, MaxSavesAssumption DEF PublishInv, TypeOK, Bounded, Directories, Names, Saves
<1>2. Bounded' /\ Sound' /\ dir' \in Directories /\ onDisk' \subseteq Directories
  <2>1. /\ dir["bin"] \in synced \cup overlapped \cup {Nothing}
        /\ \/ dir["bin"] = Nothing
           \/ dir["bin.ckpt"] \in overlapped
           \/ dir["bin.ckpt"] <= dir["bin"]
    BY DEF PublishInv, Bounded, Sound, BlobsSurvive, LedgerNotAhead
  <2>2. /\ last' \in 0..MaxSaves /\ last <= last'
        /\ overlapped \subseteq overlapped' /\ synced \subseteq synced'
    BY <1>0, MaxSavesAssumption DEF Saves
  <2>3. \A f \in Names : d[f] <= last'
    BY <1>0, <1>1
  <2> HIDE DEF d, n
  <2> QED BY <1>0, <1>1, <2>1, <2>2, <2>3, BecomesSound
<1>3. /\ pc' \in [Saves -> PCs] /\ pc'[n] = "kv"
      /\ \A m \in Saves : m # n => pc'[m] = pc[m]
  BY <1>0 DEF PublishInv, TypeOK, PCs, Backend
<1>4. TypeOK'
  <2>1. \A m \in Saves : pc'[m] = "new" <=> m > last'
    BY <1>0, <1>3 DEF PublishInv, TypeOK, Saves
  <2>2. whole' \subseteq 1..last' /\ overlapped' \subseteq 1..last'
    BY <1>0 DEF PublishInv, TypeOK
  <2>3. synced' \subseteq whole' /\ acked' \in 0..last' /\ taken' \in 0..last'
    BY <1>0 DEF PublishInv, TypeOK
  <2>4. last' \in 0..MaxSaves
    BY <1>0, MaxSavesAssumption DEF Saves
  <2> QED BY <1>0, <1>2, <1>3, <2>1, <2>2, <2>3, <2>4 DEF TypeOK
<1>5. ASSUME NEW m \in Saves PROVE SaveKnows(m)'
  <2>0. /\ dir'["save"] = n /\ dir'["bin"] = dir["bin"] /\ m \in Nat /\ m >= 1
        /\ SaveKnows(m)
    BY <1>0, <1>1 DEF Becomes, Saves, PublishInv, Underway
  <2>1. CASE m = n
    <3>1. /\ pc'[m] = "kv" /\ m = last' /\ dir'["save"] >= m
          /\ pc'[m] \notin Publishing
      BY <1>0, <1>3, <2>0, <2>1 DEF Publishing
    <3> QED BY <3>1 DEF SaveKnows
  <2>2. CASE m # n
    <3>1. pc'[m] = pc[m] /\ pc[m] \notin Backend
      BY <1>0, <1>3, <2>2
    <3>2. pc[m] # "new" => m < n
      BY <1>0, <2>0 DEF PublishInv, TypeOK
    <3>3. pc[m] \in Publishing => \A k \in Saves : m < k /\ k <= n => k \in overlapped'
      <4> SUFFICES ASSUME pc[m] \in Publishing, NEW k \in Saves, m < k, k <= n
                   PROVE  k \in overlapped'
        OBVIOUS
      <4>1. CASE k = n
        BY <1>0, <4>1
      <4>2. CASE k # n
        <5>1. k <= last
          BY <1>0, <4>2 DEF Saves
        <5> QED BY <1>0, <2>0, <5>1 DEF SaveKnows
      <4> QED BY <4>1, <4>2
    <3>4. pc[m] \in Publishing => dir'["save"] > m /\ dir'["save"] # m
      BY <1>0, <2>0, <3>2 DEF Publishing
    <3>5. pc'[m] \notin Backend /\ last' = n
      BY <1>0, <3>1
    <3>6. UNCHANGED <<whole, synced, taken>> /\ n \in Nat
      BY <1>0
    <3> HIDE DEF n
    <3> QED BY <2>0, <3>1, <3>3, <3>4, <3>5, <3>6
            DEF SaveKnows, Backend, Publishing
  <2> QED BY <2>1, <2>2
<1> QED BY <1>2, <1>4, <1>5 DEF PublishInv, Underway

LEMMA BackendSound ==
    ASSUME PublishInv, NEW n \in Saves, CloseScratch(n) \/ WriteLedger(n) \/ SaveFails(n)
    PROVE  PublishInv'
<1> USE MaxSavesAssumption
<1>0. /\ SaveKnows(n) /\ dir \in Directories /\ taken \in Nat
      /\ n \in Nat /\ last \in Nat
  BY DEF PublishInv, TypeOK, Underway, Saves
<1>1. CASE CloseScratch(n)
  <2>1. /\ pc[n] = "kv" /\ Goto(n, "ledger") /\ whole' = whole \cup {n}
        /\ UNCHANGED <<dir, onDisk, synced, acked>> /\ n = last
    BY <1>0, <1>1 DEF CloseScratch, SaveKnows, Backend
  <2>2. /\ pc' \in [Saves -> PCs] /\ pc'[n] = "ledger"
        /\ \A m \in Saves : m # n => pc'[m] = pc[m]
        /\ last' = last /\ overlapped' = overlapped /\ taken' = taken
        /\ \A m \in Saves : pc'[m] = "new" <=> m > last
        /\ gate' # Nothing => gate' = last /\ pc'[last] # "over"
    BY <2>1, GotoMoves DEF PCs, Backend
  <2>3. Bounded' /\ Sound' /\ dir' \in Directories /\ onDisk' \subseteq Directories
    BY <2>1, <2>2, StaySound
  <2>4. TypeOK'
    BY <2>1, <2>2, <2>3 DEF PublishInv, TypeOK, Saves
  <2>5. ASSUME NEW m \in Saves PROVE SaveKnows(m)'
    <3>1. CASE m # n
      <4>1. FilesOnlyGo
        BY <1>0, <2>1, <2>2 DEF FilesOnlyGo
      <4>2. pc'[m] = pc[m]
        BY <2>2, <3>1
      <4> QED BY <4>1, <4>2, OthersKnow
    <3>2. CASE m = n
      BY <1>0, <2>1, <2>2, <3>2 DEF SaveKnows, Backend, Publishing
    <3> QED BY <3>1, <3>2
  <2> QED BY <2>3, <2>4, <2>5 DEF PublishInv, Underway
<1>2. CASE WriteLedger(n)
  <2> DEFINE d == [dir EXCEPT !["save.ckpt"] = n]
             l == IF gate = n THEN "fsync" ELSE "over"
  <2>1. /\ pc[n] = "ledger" /\ Goto(n, l)
        /\ UNCHANGED <<whole, synced, acked>> /\ n = last /\ n \in whole
        /\ Becomes(d) \/ UNCHANGED <<dir, onDisk>>
    BY <1>0, <1>2 DEF WriteLedger, SaveKnows, Backend
  <2>2. /\ pc' \in [Saves -> PCs] /\ pc'[n] = l
        /\ \A m \in Saves : m # n => pc'[m] = pc[m]
        /\ last' = last /\ overlapped' = overlapped /\ taken' = taken
        /\ \A m \in Saves : pc'[m] = "new" <=> m > last
        /\ gate' # Nothing => gate' = last /\ pc'[last] # "over"
    <3>1. l \in PCs /\ l # "new" /\ pc[n] # "new"
      BY <2>1 DEF PCs, Publishing
    <3> HIDE DEF l
    <3> QED BY <2>1, <3>1, GotoMoves
  <2>3. /\ d \in Directories
        /\ \A f \in Names : d[f] <= last
        /\ d["bin"] = dir["bin"] /\ d["bin.ckpt"] = dir["bin.ckpt"]
        /\ d["save"] = dir["save"]
    BY <2>1 DEF PublishInv, TypeOK, Bounded, Directories, Names, Saves
  <2>4. Bounded' /\ Sound' /\ dir' \in Directories /\ onDisk' \subseteq Directories
    <3>1. CASE Becomes(d)
      <4>1. /\ dir["bin"] \in synced \cup overlapped \cup {Nothing}
            /\ \/ dir["bin"] = Nothing
               \/ dir["bin.ckpt"] \in overlapped
               \/ dir["bin.ckpt"] <= dir["bin"]
        BY DEF PublishInv, Bounded, Sound, BlobsSurvive, LedgerNotAhead
      <4>2. last \in 0..MaxSaves /\ last <= last /\ synced' = synced
        BY <2>1 DEF PublishInv, TypeOK
      <4> HIDE DEF d
      <4> QED BY <2>2, <2>3, <3>1, <4>1, <4>2, BecomesSound
    <3>2. CASE UNCHANGED <<dir, onDisk>>
      BY <2>1, <2>2, <3>2, StaySound
    <3> QED BY <2>1, <3>1, <3>2
  <2>5. dir'["save"] = dir["save"] /\ dir'["bin"] = dir["bin"]
    BY <2>1, <2>3 DEF Becomes
  <2>6. TypeOK'
    BY <2>1, <2>2, <2>4 DEF PublishInv, TypeOK
  <2>7. ASSUME NEW m \in Saves PROVE SaveKnows(m)'
    <3>1. CASE m # n
      <4>1. FilesOnlyGo
        BY <1>0, <2>1, <2>2, <2>4, <2>5 DEF FilesOnlyGo
      <4>2. pc'[m] = pc[m]
        BY <2>2, <3>1
      <4> QED BY <4>1, <4>2, OthersKnow
    <3>2. CASE m = n
      BY <1>0, <2>1, <2>2, <2>5, <3>2 DEF SaveKnows, Backend, Publishing
    <3> QED BY <3>1, <3>2
  <2> QED BY <2>4, <2>6, <2>7 DEF PublishInv, Underway
<1>3. CASE SaveFails(n)
  <2>1. pc[n] \in Backend /\ Goto(n, "over") /\ UNCHANGED <<fileVars, acked>>
    BY <1>3 DEF SaveFails
  <2>2. /\ pc' \in [Saves -> PCs] /\ pc'[n] = "over"
        /\ \A m \in Saves : m # n => pc'[m] = pc[m]
        /\ last' = last /\ overlapped' = overlapped /\ taken' = taken
        /\ \A m \in Saves : pc'[m] = "new" <=> m > last
        /\ gate' # Nothing => gate' = last /\ pc'[last] # "over"
    BY <2>1, GotoMoves DEF PCs, Backend
  <2>3. Bounded' /\ Sound' /\ dir' \in Directories /\ onDisk' \subseteq Directories
    BY <2>1, <2>2, StaySound DEF fileVars
  <2>4. TypeOK'
    BY <2>1, <2>2, <2>3 DEF PublishInv, TypeOK, fileVars
  <2>5. ASSUME NEW m \in Saves PROVE SaveKnows(m)'
    <3>1. FilesOnlyGo
      BY <1>0, <2>1, <2>2 DEF FilesOnlyGo, fileVars
    <3>2. pc'[m] = pc[m] \/ pc'[m] \in {"new", "over"}
      BY <2>2
    <3> QED BY <3>1, <3>2, OthersKnow
  <2> QED BY <2>3, <2>4, <2>5 DEF PublishInv, Underway
<1> QED BY <1>1, <1>2, <1>3

\* oLLM's half.
LEMMA PublisherSound ==
    ASSUME PublishInv, NEW n \in Saves,
           Fsync(n) \/ Rename(n) \/ PublishFails(n) \/ RideAlong(n) \/ SyncDir(n)
    PROVE  PublishInv'
<1> USE MaxSavesAssumption
<1>0. /\ SaveKnows(n) /\ dir \in Directories /\ taken \in Nat
      /\ n \in Nat /\ last \in Nat /\ last \in 0..MaxSaves
      /\ \A f \in Names : dir[f] \in 0..last
      /\ overlapped \subseteq 1..last
  BY DEF PublishInv, TypeOK, Underway, Bounded, Directories, Saves
<1>1. CASE Fsync(n)
  <2>1. /\ pc[n] = "fsync" /\ Goto(n, "rename") /\ dir["save"] # Nothing
        /\ synced' = synced \cup ({dir["save"]} \cap whole)
        /\ UNCHANGED <<dir, onDisk, whole, acked>> /\ n \in whole
    BY <1>0, <1>1 DEF Fsync, SaveKnows
  <2>2. /\ pc' \in [Saves -> PCs] /\ pc'[n] = "rename"
        /\ \A m \in Saves : m # n => pc'[m] = pc[m]
        /\ last' = last /\ overlapped' = overlapped /\ taken' = taken
        /\ \A m \in Saves : pc'[m] = "new" <=> m > last
        /\ gate' # Nothing => gate' = last /\ pc'[last] # "over"
    BY <2>1, GotoMoves DEF PCs, Publishing
  <2>3. Bounded' /\ Sound' /\ dir' \in Directories /\ onDisk' \subseteq Directories
    BY <2>1, <2>2, StaySound
  <2>4. TypeOK'
    BY <2>1, <2>2, <2>3 DEF PublishInv, TypeOK
  <2>5. ASSUME NEW m \in Saves PROVE SaveKnows(m)'
    <3>1. CASE m # n
      <4>1. FilesOnlyGo
        BY <1>0, <2>1, <2>2 DEF FilesOnlyGo
      <4>2. pc'[m] = pc[m]
        BY <2>2, <3>1
      <4> QED BY <4>1, <4>2, OthersKnow
    <3>2. CASE m = n
      BY <1>0, <2>1, <2>2, <3>2 DEF SaveKnows, Backend, Publishing
    <3> QED BY <3>1, <3>2
  <2> QED BY <2>3, <2>4, <2>5 DEF PublishInv, Underway
<1>2. CASE Rename(n)
  <2> DEFINE k == dir["save"]
             d == [dir EXCEPT !["bin"] = k, !["save"] = Nothing]
  <2>1. /\ pc[n] = "rename" /\ Goto(n, "sidecar") /\ k # Nothing
        /\ Becomes(d) /\ UNCHANGED <<whole, synced, acked>>
        /\ k >= n /\ (k = n => n \in synced)
    BY <1>0, <1>2 DEF Rename, SaveKnows
  <2>2. /\ pc' \in [Saves -> PCs] /\ pc'[n] = "sidecar"
        /\ \A m \in Saves : m # n => pc'[m] = pc[m]
        /\ last' = last /\ overlapped' = overlapped /\ taken' = taken
        /\ \A m \in Saves : pc'[m] = "new" <=> m > last
        /\ gate' # Nothing => gate' = last /\ pc'[last] # "over"
    BY <2>1, GotoMoves DEF PCs, Publishing
  <2>3. /\ d \in Directories
        /\ d["bin"] = k /\ d["bin.ckpt"] = dir["bin.ckpt"] /\ d["save"] = Nothing
        /\ \A f \in Names : d[f] <= last
        /\ k \in 0..last /\ dir["bin.ckpt"] \in 0..last
    BY <1>0 DEF Directories, Names, Nothing
  \* What is renamed is the save's own file, on the disk, or an overlapped
  \* one's; and a ledger that waits for it there is not of a later save.
  <2>4. \A m \in Saves : n < m /\ m <= last => m \in overlapped
    BY <1>0, <2>1 DEF SaveKnows, Publishing
  <2>5. k \in synced \cup overlapped
    <3>1. k > n => k \in Saves
      BY <1>0, <2>3 DEF Saves
    <3> QED BY <1>0, <2>1, <2>3, <2>4, <3>1
  <2>6. dir["bin.ckpt"] \in overlapped \/ dir["bin.ckpt"] <= k
    <3>1. CASE dir["bin.ckpt"] <= n
      BY <1>0, <2>1, <2>3, <3>1
    <3>2. CASE dir["bin.ckpt"] > n
      BY <1>0, <2>3, <2>4, <3>2 DEF Saves
    <3> QED BY <1>0, <2>3, <3>1, <3>2
  <2>7. Bounded' /\ Sound' /\ dir' \in Directories /\ onDisk' \subseteq Directories
    <3>1. Becomes(d) /\ last' = last /\ synced' = synced /\ last <= last
      BY <1>0, <2>1, <2>2
    <3> HIDE DEF d, k
    <3> QED BY <1>0, <2>2, <2>3, <2>5, <2>6, <3>1, BecomesSound
  <2>8. dir'["bin"] = k /\ dir'["save"] = Nothing
    BY <2>1, <2>3 DEF Becomes
  <2>9. TypeOK'
    BY <2>1, <2>2, <2>7 DEF PublishInv, TypeOK
  <2>10. ASSUME NEW m \in Saves PROVE SaveKnows(m)'
    <3>1. CASE m # n
      <4>1. FilesOnlyGo
        BY <1>0, <2>1, <2>2, <2>7, <2>8 DEF FilesOnlyGo
      <4>2. pc'[m] = pc[m]
        BY <2>2, <3>1
      <4> QED BY <4>1, <4>2, OthersKnow
    <3>2. CASE m = n
      BY <1>0, <2>1, <2>2, <2>4, <2>8, <3>2 DEF SaveKnows, Backend, Publishing
    <3> QED BY <3>1, <3>2
  <2> QED BY <2>7, <2>9, <2>10 DEF PublishInv, Underway
<1>3. CASE PublishFails(n)
  <2>1. /\ pc[n] \in {"fsync", "rename"} /\ Goto(n, "over")
        /\ UNCHANGED <<fileVars, acked>>
    BY <1>3 DEF PublishFails
  <2>2. /\ pc' \in [Saves -> PCs] /\ pc'[n] = "over"
        /\ \A m \in Saves : m # n => pc'[m] = pc[m]
        /\ last' = last /\ overlapped' = overlapped /\ taken' = taken
        /\ \A m \in Saves : pc'[m] = "new" <=> m > last
        /\ gate' # Nothing => gate' = last /\ pc'[last] # "over"
    BY <2>1, GotoMoves DEF PCs, Publishing
  <2>3. Bounded' /\ Sound' /\ dir' \in Directories /\ onDisk' \subseteq Directories
    BY <2>1, <2>2, StaySound DEF fileVars
  <2>4. TypeOK'
    BY <2>1, <2>2, <2>3 DEF PublishInv, TypeOK, fileVars
  <2>5. ASSUME NEW m \in Saves PROVE SaveKnows(m)'
    <3>1. FilesOnlyGo
      BY <1>0, <2>1, <2>2 DEF FilesOnlyGo, fileVars
    <3>2. pc'[m] = pc[m] \/ pc'[m] \in {"new", "over"}
      BY <2>2
    <3> QED BY <3>1, <3>2, OthersKnow
  <2> QED BY <2>3, <2>4, <2>5 DEF PublishInv, Underway
<1>4. CASE RideAlong(n)
  <2> DEFINE k == dir["save.ckpt"]
             d == [dir EXCEPT !["bin.ckpt"] = k, !["save.ckpt"] = Nothing]
  <2>1. /\ pc[n] = "sidecar" /\ Goto(n, "sync")
        /\ UNCHANGED <<whole, synced, acked>>
        /\ Becomes(d) \/ UNCHANGED <<dir, onDisk>>
        /\ dir["bin"] = Nothing \/ dir["bin"] >= n
    BY <1>0, <1>4 DEF RideAlong, SaveKnows
  <2>2. /\ pc' \in [Saves -> PCs] /\ pc'[n] = "sync"
        /\ \A m \in Saves : m # n => pc'[m] = pc[m]
        /\ last' = last /\ overlapped' = overlapped /\ taken' = taken
        /\ \A m \in Saves : pc'[m] = "new" <=> m > last
        /\ gate' # Nothing => gate' = last /\ pc'[last] # "over"
    BY <2>1, GotoMoves DEF PCs, Publishing
  <2>3. /\ d \in Directories
        /\ d["bin"] = dir["bin"] /\ d["bin.ckpt"] = k /\ d["save"] = dir["save"]
        /\ \A f \in Names : d[f] <= last
        /\ k \in 0..last /\ dir["bin"] \in 0..last
    BY <1>0 DEF Directories, Names, Nothing
  <2>4. \A m \in Saves : n < m /\ m <= last => m \in overlapped
    BY <1>0, <2>1 DEF SaveKnows, Publishing
  <2>5. dir["bin"] = Nothing \/ k \in overlapped \/ k <= dir["bin"]
    <3>1. CASE k <= n
      BY <1>0, <2>1, <2>3, <3>1
    <3>2. CASE k > n
      BY <1>0, <2>3, <2>4, <3>2 DEF Saves
    <3> QED BY <1>0, <2>3, <3>1, <3>2
  <2>6. Bounded' /\ Sound' /\ dir' \in Directories /\ onDisk' \subseteq Directories
    <3>1. CASE Becomes(d)
      <4>1. /\ last' = last /\ synced' = synced /\ last <= last
            /\ dir["bin"] \in synced \cup overlapped \cup {Nothing}
        BY <1>0, <2>1, <2>2 DEF PublishInv, Bounded, Sound, BlobsSurvive
      <4> HIDE DEF d, k
      <4> QED BY <1>0, <2>2, <2>3, <2>5, <3>1, <4>1, BecomesSound
    <3>2. CASE UNCHANGED <<dir, onDisk>>
      BY <2>1, <2>2, <3>2, StaySound
    <3> QED BY <2>1, <3>1, <3>2
  <2>7. dir'["bin"] = dir["bin"] /\ dir'["save"] = dir["save"]
    BY <2>1, <2>3 DEF Becomes
  <2>8. TypeOK'
    BY <2>1, <2>2, <2>6 DEF PublishInv, TypeOK
  <2>9. ASSUME NEW m \in Saves PROVE SaveKnows(m)'
    <3>1. CASE m # n
      <4>1. FilesOnlyGo
        BY <1>0, <2>1, <2>2, <2>6, <2>7 DEF FilesOnlyGo
      <4>2. pc'[m] = pc[m]
        BY <2>2, <3>1
      <4> QED BY <4>1, <4>2, OthersKnow
    <3>2. CASE m = n
      BY <1>0, <2>1, <2>2, <2>4, <2>7, <3>2 DEF SaveKnows, Backend, Publishing
    <3> QED BY <3>1, <3>2
  <2> QED BY <2>6, <2>8, <2>9 DEF PublishInv, Underway
<1>5. CASE SyncDir(n)
  <2>1. /\ pc[n] = "sync" /\ Goto(n, "over")
        /\ acked' = (IF gate = n THEN n ELSE acked)
        /\ UNCHANGED <<dir, whole, synced>>
        /\ onDisk' = {dir} \/ onDisk' = onDisk
    BY <1>5 DEF SyncDir
  <2>2. /\ pc' \in [Saves -> PCs] /\ pc'[n] = "over"
        /\ \A m \in Saves : m # n => pc'[m] = pc[m]
        /\ last' = last /\ overlapped' = overlapped /\ taken' = taken
        /\ \A m \in Saves : pc'[m] = "new" <=> m > last
        /\ gate' # Nothing => gate' = last /\ pc'[last] # "over"
    BY <2>1, GotoMoves DEF PCs, Publishing
  <2>3. onDisk' \subseteq onDisk /\ dir \in onDisk'
    BY <2>1 DEF PublishInv, Bounded
  <2>4. Bounded' /\ Sound'
    BY <2>1, <2>2, <2>3 DEF PublishInv, Bounded, Sound, BlobsSurvive, LedgerNotAhead
  <2>5. TypeOK'
    <3>1. acked' \in 0..last
      BY <1>0, <2>1 DEF PublishInv, TypeOK
    <3> QED BY <2>1, <2>2, <2>3, <3>1 DEF PublishInv, TypeOK
  <2>6. ASSUME NEW m \in Saves PROVE SaveKnows(m)'
    <3>1. FilesOnlyGo
      BY <1>0, <2>1, <2>2 DEF FilesOnlyGo
    <3>2. pc'[m] = pc[m] \/ pc'[m] \in {"new", "over"}
      BY <2>2
    <3> QED BY <3>1, <3>2, OthersKnow
  <2> QED BY <2>4, <2>5, <2>6 DEF PublishInv, Underway
<1> QED BY <1>1, <1>2, <1>3, <1>4, <1>5

\* The quota, dropped handlers, crashes and power losses.
LEMMA EnvironmentSound ==
    ASSUME PublishInv,
           (\E f \in Names : Unlink(f)) \/ HandlerDrop \/ ProxyCrash \/ PowerLoss
    PROVE  PublishInv'
<1> USE MaxSavesAssumption
<1>0. /\ dir \in Directories /\ taken \in Nat /\ last \in 0..MaxSaves
      /\ \A f \in Names : dir[f] \in 0..last
      /\ pc \in [Saves -> PCs]
  BY DEF PublishInv, TypeOK, Bounded, Directories
<1>1. ASSUME NEW f \in Names, Unlink(f) PROVE PublishInv'
  <2> DEFINE d == [dir EXCEPT ![f] = Nothing]
  <2>0. /\ Becomes(d) /\ UNCHANGED <<whole, synced, pc, gate, last, overlapped, acked>>
        /\ taken' = (IF f = "bin" /\ dir[f] > taken THEN dir[f] ELSE taken)
    BY <1>1 DEF Unlink
  <2>1. /\ d \in Directories
        /\ \A g \in Names : d[g] \in {Nothing, dir[g]}
        /\ \A g \in Names : d[g] <= last
        /\ f # "bin" => d["bin"] = dir["bin"]
    BY <1>0 DEF Directories, Names, Nothing
  <2>2. Bounded' /\ Sound' /\ dir' \in Directories /\ onDisk' \subseteq Directories
    <3>1. /\ dir["bin"] \in synced \cup overlapped \cup {Nothing}
          /\ \/ dir["bin"] = Nothing
             \/ dir["bin.ckpt"] \in overlapped
             \/ dir["bin.ckpt"] <= dir["bin"]
      BY DEF PublishInv, Bounded, Sound, BlobsSurvive, LedgerNotAhead
    <3>2. /\ d["bin"] \in {Nothing, dir["bin"]}
          /\ d["bin.ckpt"] \in {Nothing, dir["bin.ckpt"]}
          /\ dir["bin"] \in 0..last
      BY <1>0, <2>1 DEF Names
    <3>3. last' = last /\ synced' = synced /\ overlapped' = overlapped /\ last <= last
      BY <1>0, <2>0
    <3>4. \/ d["bin"] = Nothing
          \/ d["bin.ckpt"] \in overlapped
          \/ d["bin.ckpt"] <= d["bin"]
      BY <3>1, <3>2 DEF Nothing
    <3>5. d["bin"] \in synced \cup overlapped \cup {Nothing}
      BY <3>1, <3>2
    <3> HIDE DEF d
    <3> QED BY <1>0, <2>0, <2>1, <3>3, <3>4, <3>5, BecomesSound
  <2>3. TypeOK'
    <3>1. taken' \in 0..last
      BY <1>0, <2>0 DEF PublishInv, TypeOK
    <3> QED BY <2>0, <2>2, <3>1 DEF PublishInv, TypeOK
  <2>4. FilesOnlyGo
    <3>1. dir' = d /\ dir'["save"] \in {Nothing, dir["save"]}
      BY <2>0, <2>1 DEF Becomes, Names
    <3>2. dir'["bin"] = dir["bin"] \/ (dir'["bin"] = Nothing /\ dir["bin"] <= taken')
      <4>1. CASE f = "bin"
        <5>1. dir["bin"] <= taken'
          BY <1>0, <2>0, <4>1
        <5>2. d["bin"] \in {Nothing, dir["bin"]}
          BY <2>1 DEF Names
        <5> QED BY <3>1, <5>1, <5>2
      <4>2. CASE f # "bin"
        BY <2>1, <3>1, <4>2
      <4> QED BY <4>1, <4>2
    <3>3. taken' \in Nat /\ taken <= taken'
      BY <1>0, <2>0
    <3> QED BY <1>0, <2>0, <2>2, <3>1, <3>2, <3>3 DEF FilesOnlyGo
  <2>5. \A m \in Saves : SaveKnows(m)'
    BY <2>0, <2>4, OthersKnow
  <2> QED BY <2>2, <2>3, <2>5 DEF PublishInv, Underway
<1>2. CASE HandlerDrop
  <2>1. /\ gate' = Nothing
        /\ UNCHANGED <<fileVars, pc, last, overlapped, acked, taken>>
    BY <1>2 DEF HandlerDrop
  <2> QED BY <2>1 DEF PublishInv, TypeOK, Underway, SaveKnows, Bounded, Sound,
                     BlobsSurvive, LedgerNotAhead, fileVars
<1>3. CASE ProxyCrash
  <2>1. /\ gate' = Nothing
        /\ pc' = [n \in Saves |-> IF pc[n] \in Publishing THEN "over" ELSE pc[n]]
        /\ UNCHANGED <<fileVars, last, overlapped, acked, taken>>
    BY <1>3 DEF ProxyCrash
  <2>2. /\ pc' \in [Saves -> PCs]
        /\ \A m \in Saves : pc'[m] = pc[m] \/ (pc'[m] = "over" /\ pc[m] # "new")
    BY <1>0, <2>1 DEF PCs, Publishing
  <2>3. Bounded' /\ Sound' /\ dir' \in Directories /\ onDisk' \subseteq Directories
    BY <2>1, StaySound DEF fileVars
  <2>4. TypeOK'
    BY <2>1, <2>2, <2>3 DEF PublishInv, TypeOK, fileVars
  <2>5. FilesOnlyGo
    BY <1>0, <2>1 DEF FilesOnlyGo, fileVars
  <2>6. \A m \in Saves : SaveKnows(m)'
    BY <2>2, <2>5, OthersKnow
  <2> QED BY <2>3, <2>4, <2>6 DEF PublishInv, Underway
<1>4. CASE PowerLoss
  <2>1. PICK d \in onDisk : dir' = d /\ onDisk' = {d}
    BY <1>4 DEF PowerLoss
  <2>2. synced \subseteq synced' /\ synced' \subseteq whole /\ whole' = synced'
    BY <1>4 DEF PowerLoss, PublishInv, TypeOK
  <2>3. /\ gate' = Nothing /\ UNCHANGED <<last, overlapped, acked, taken>>
        /\ pc' = [n \in Saves |-> IF pc[n] = "new" THEN "new" ELSE "over"]
    BY <1>4 DEF PowerLoss
  <2>4. Bounded' /\ Sound'
    BY <2>1, <2>2, <2>3 DEF PublishInv, Bounded, Sound, BlobsSurvive, LedgerNotAhead
  <2>5. TypeOK'
    BY <2>1, <2>2, <2>3 DEF PublishInv, TypeOK, PCs
  <2>6. \A m \in Saves : SaveKnows(m)'
    BY <2>3 DEF SaveKnows, Backend, Publishing
  <2> QED BY <2>4, <2>5, <2>6 DEF PublishInv, Underway
<1> QED BY <1>1, <1>2, <1>3, <1>4

LEMMA InvariantHolds == Spec => []PublishInv
<1>1. Init => PublishInv
  <2> SUFFICES ASSUME Init PROVE PublishInv
    OBVIOUS
  <2>1. dir \in Directories /\ \A f \in Names : dir[f] = 0
    BY MaxSavesAssumption DEF Init, Directories, Nothing
  <2>2. /\ onDisk = {dir} /\ whole = {} /\ synced = {} /\ overlapped = {}
        /\ pc = [n \in Saves |-> "new"] /\ gate = 0
        /\ last = 0 /\ acked = 0 /\ taken = 0
    BY DEF Init, Nothing
  <2>3. TypeOK
    <3>1. last \in 0..MaxSaves /\ acked \in 0..last /\ taken \in 0..last
      BY <2>2, MaxSavesAssumption
    <3>2. pc \in [Saves -> PCs] /\ \A n \in Saves : pc[n] = "new" <=> n > last
      BY <2>2 DEF PCs, Saves
    <3> QED BY <2>1, <2>2, <3>1, <3>2 DEF TypeOK, Nothing
  <2>4. Underway
    BY <2>2 DEF Underway, SaveKnows, Backend, Publishing
  <2>5. Bounded
    BY <2>1, <2>2 DEF Bounded
  <2>6. Sound
    BY <2>1, <2>2 DEF Sound, BlobsSurvive, LedgerNotAhead, Names, Nothing
  <2> QED BY <2>3, <2>4, <2>5, <2>6 DEF PublishInv
<1>2. PublishInv /\ [Next]_vars => PublishInv'
  <2>1. ASSUME PublishInv, UNCHANGED vars PROVE PublishInv'
    BY <2>1 DEF vars, fileVars, PublishInv, TypeOK, Underway, SaveKnows, Bounded,
                Sound, BlobsSurvive, LedgerNotAhead
  <2> QED BY <2>1, OpenSound, BackendSound, PublisherSound, EnvironmentSound
          DEF Next, Save
<1> QED BY <1>1, <1>2, PTL DEF Spec

\* Every variable of a publication keeps its type, and no save that is over
\* keeps the gate.
THEOREM PublishTypeCorrect == Spec => []TypeOK
  BY InvariantHolds, PTL DEF PublishInv

\* R2: a blob that can be found, even after the power failed at any step, has
\* its data on the disk, unless its save began over an orphaned closure.
THEOREM BlobsAlwaysSurvive == Spec => []BlobsSurvive
  BY InvariantHolds, PTL DEF PublishInv, Sound

\* The two renames are in the one order in which a crash, a power loss or a
\* late unlink between them leaves no ledger beside an older blob, unless the
\* ledger's save began over an orphaned closure.
THEOREM LedgerNeverAhead == Spec => []LedgerNotAhead
  BY InvariantHolds, PTL DEF PublishInv, Sound

\* Where no handler is dropped inside save_slot no closure is ever orphaned:
\* every visible blob is on the disk, and no ledger ahead of its blob.
THEOREM UndisturbedSavesSound ==
    ASSUME "drop" \notin Failures
    PROVE  Spec => [](\A d \in onDisk :
                          /\ d["bin"] \in synced \cup {Nothing}
                          /\ d["bin"] # Nothing => d["bin.ckpt"] <= d["bin"])
<1> DEFINE Attended == /\ overlapped = {}
                       /\ \A n \in Saves : pc[n] \in Publishing => gate = n
<1>1. Init => Attended
  BY DEF Init, Publishing
<1>2. PublishInv /\ Attended /\ [Next]_vars => Attended'
  <2> SUFFICES ASSUME PublishInv, Attended, [Next]_vars PROVE Attended'
    OBVIOUS
  <2>0. pc \in [Saves -> PCs] /\ last \in Nat
    BY DEF PublishInv, TypeOK
  <2>1. CASE OpenScratch
    <3>1. /\ gate = Nothing /\ pc' = [pc EXCEPT ![last + 1] = "kv"]
          /\ last + 1 \in Saves
      BY <2>1 DEF OpenScratch
    <3>2. \A n \in Saves : pc[n] \notin Publishing
      BY <3>1 DEF Saves, Nothing
    <3>3. overlapped' = {}
      BY <2>1, <3>2 DEF OpenScratch
    <3>4. \A n \in Saves : pc'[n] \notin Publishing
      BY <2>0, <3>1, <3>2 DEF Publishing
    <3> QED BY <3>3, <3>4
  <2>2. ASSUME NEW n \in Saves, NEW l \in PCs, Goto(n, l),
               l \in Publishing => gate = n
        PROVE  Attended'
    BY <2>0, <2>2 DEF Goto, Publishing
  <2>3. ASSUME NEW n \in Saves, Save(n) PROVE Attended'
    <3>1. CASE CloseScratch(n)
      BY <2>2, <3>1 DEF CloseScratch, PCs, Backend, Publishing
    <3>2. CASE WriteLedger(n)
      BY <2>2, <3>2 DEF WriteLedger, PCs, Backend, Publishing
    <3>3. CASE SaveFails(n) \/ PublishFails(n) \/ SyncDir(n)
      BY <2>2, <3>3 DEF SaveFails, PublishFails, SyncDir, PCs, Publishing
    <3>4. CASE Fsync(n) \/ Rename(n) \/ RideAlong(n)
      <4>1. gate = n
        BY <3>4 DEF Fsync, Rename, RideAlong, Publishing
      <4> QED BY <2>2, <3>4, <4>1 DEF Fsync, Rename, RideAlong, PCs, Publishing
    <3> QED BY <2>3, <3>1, <3>2, <3>3, <3>4 DEF Save
  <2>4. CASE ProxyCrash \/ PowerLoss
    BY <2>0, <2>4 DEF ProxyCrash, PowerLoss, Publishing
  <2>5. CASE (\E f \in Names : Unlink(f)) \/ UNCHANGED vars
    BY <2>5 DEF Unlink, vars
  <2> QED BY <2>1, <2>3, <2>4, <2>5 DEF Next, HandlerDrop, Fails
<1>3. PublishInv /\ Attended
        => \A d \in onDisk :
               /\ d["bin"] \in synced \cup {Nothing}
               /\ d["bin"] # Nothing => d["bin.ckpt"] <= d["bin"]
  BY DEF PublishInv, Sound, BlobsSurvive, LedgerNotAhead
<1> HIDE DEF Attended
<1> QED BY <1>1, <1>2, <1>3, InvariantHolds, PTL DEF Spec

\* What save_slot acknowledged is not lost: in every directory that may be
\* found the blob is that save's or a later one's, unless the quota took such
\* a one; closures of dropped handlers do no harm to it.  The directory's
\* fsync, whose errors the code ignores, has to work.
THEOREM AckedAlwaysSurvives ==
    ASSUME "sync" \notin Failures
    PROVE  Spec => []AckedSurvives
\* No file of an acknowledged save, or an older one, waits under the scratch
\* name for some closure to rename it over a later blob.
<1> DEFINE AckedInv ==
        /\ AckedSurvives
        /\ \A d \in onDisk : d["save"] = Nothing \/ d["save"] > acked
<1>1. Init => AckedInv
  BY DEF Init, AckedSurvives, Names, Nothing
<1>2. PublishInv /\ AckedInv /\ [Next]_vars => AckedInv'
  <2> SUFFICES ASSUME PublishInv, AckedInv, [Next]_vars
               PROVE  AckedInv'
    OBVIOUS
  <2>0. /\ dir \in onDisk /\ dir \in Directories /\ onDisk \subseteq Directories
        /\ dir["bin"] \in Nat /\ dir["save"] \in 0..last
        /\ acked \in 0..last /\ last \in Nat /\ taken \in Nat
    BY MaxSavesAssumption DEF PublishInv, TypeOK, Bounded, Directories, Names
  <2>1. CASE UNCHANGED <<onDisk, acked, taken>>
    BY <2>1 DEF AckedSurvives
  <2>2. CASE OpenScratch
    BY <2>0, <2>2 DEF OpenScratch, Becomes, AckedSurvives, Directories, Names
  <2>3. ASSUME NEW n \in Saves, WriteLedger(n) PROVE AckedInv'
    BY <2>0, <2>3 DEF WriteLedger, Goto, Becomes, AckedSurvives, Directories, Names
  <2>4. ASSUME NEW n \in Saves, RideAlong(n) PROVE AckedInv'
    BY <2>0, <2>4 DEF RideAlong, Goto, Becomes, AckedSurvives, Directories, Names
  <2>5. ASSUME NEW n \in Saves, Rename(n) PROVE AckedInv'
    <3>1. dir["save"] > acked
      BY <2>0, <2>5 DEF Rename
    <3> QED BY <2>0, <2>5, <3>1
            DEF Rename, Goto, Becomes, AckedSurvives, Directories, Names
  <2>6. ASSUME NEW f \in Names, Unlink(f) PROVE AckedInv'
    <3> DEFINE d == [dir EXCEPT ![f] = Nothing]
    <3>1. /\ onDisk' = onDisk \cup {d} /\ acked' = acked
          /\ taken' = (IF f = "bin" /\ dir[f] > taken THEN dir[f] ELSE taken)
      BY <2>6 DEF Unlink, Becomes
    <3>2. d["save"] \in {Nothing, dir["save"]} /\ (f # "bin" => d["bin"] = dir["bin"])
      BY <2>0 DEF Directories, Names
    <3>3. acked > taken' => acked > taken /\ f # "bin"
      BY <2>0, <3>1 DEF AckedSurvives
    <3> HIDE DEF d
    <3> QED BY <2>0, <3>1, <3>2, <3>3 DEF AckedSurvives
  <2>7. ASSUME NEW n \in Saves, SyncDir(n) PROVE AckedInv'
    <3>1. /\ onDisk' = {dir} /\ acked' = (IF gate = n THEN n ELSE acked)
          /\ UNCHANGED <<dir, taken>> /\ pc[n] = "sync"
      BY <2>7 DEF SyncDir, Goto, Fails
    <3>2. CASE gate = n
      <4>1. n = last /\ SaveKnows(n)
        BY <3>2 DEF PublishInv, TypeOK, Underway, Saves, Nothing
      <4>2. dir["save"] = Nothing /\ (dir["bin"] >= n \/ taken >= n)
        BY <2>0, <3>1, <4>1 DEF SaveKnows
      <4> QED BY <2>0, <3>1, <3>2, <4>1, <4>2 DEF AckedSurvives
    <3>3. CASE gate # n
      BY <2>0, <3>1, <3>3 DEF AckedSurvives
    <3> QED BY <3>2, <3>3
  <2>8. CASE PowerLoss
    BY <2>8 DEF PowerLoss, AckedSurvives
  <2> QED
    BY <2>1, <2>2, <2>3, <2>4, <2>5, <2>6, <2>7, <2>8
    DEF Next, Save, CloseScratch, SaveFails, Fsync, PublishFails, Goto,
        HandlerDrop, ProxyCrash, vars, fileVars
<1> QED BY <1>1, <1>2, InvariantHolds, PTL DEF Spec

\* A visible blob reads as the save it is of, now and after a power loss.
LEMMA ReadsWhole ==
    ASSUME PublishInv
    PROVE  /\ \A d \in onDisk : Read(d, whole) = d["bin"] /\ Read(d, synced) = d["bin"]
           /\ dir \in onDisk
           /\ dir["bin"] \in 0..MaxSaves
  BY DEF PublishInv, TypeOK, Bounded, Sound, BlobsSurvive, Read, Directories, Names

LEMMA ReadsWholeNext ==
    ASSUME PublishInv'
    PROVE  /\ \A d \in onDisk' : Read(d, whole)' = d["bin"] /\ Read(d, synced)' = d["bin"]
           /\ dir' \in onDisk'
           /\ dir'["bin"] \in 0..MaxSaves
  BY DEF PublishInv, TypeOK, Bounded, Sound, BlobsSurvive, Read, Directories, Names

\* R2 as a refinement: a session's blob is a register of complete states.
\* The rename is its Put, the directory's fsync its Sync, and neither scratch
\* files nor ledgers, dropped handlers nor crashes show, but in what a save
\* that began over an orphaned closure holds.
THEOREM RegisterImplemented == Spec => ImplementsRegister
<1> DEFINE now == Read(dir, whole)
           later == {Read(d, synced) : d \in onDisk}
<1>1. Init => RegisterView!Init
  BY DEF Init, RegisterView!Init, Read, Names, Nothing
<1>2. PublishInv /\ PublishInv' /\ [Next]_vars
        => [RegisterView!Next]_<<now, later>>
  <2> SUFFICES ASSUME PublishInv, PublishInv', [Next]_vars
               PROVE  RegisterView!Next \/ UNCHANGED <<now, later>>
    OBVIOUS
  <2>0. /\ now = dir["bin"] /\ now' = dir'["bin"]
        /\ later = {d["bin"] : d \in onDisk}
        /\ later' = {d["bin"] : d \in onDisk'}
        /\ now \in later
    BY ReadsWhole, ReadsWholeNext
  <2>1. CASE onDisk' = onDisk \cup {dir'}
    <3>1. dir'["bin"] \in 0..MaxSaves
      BY ReadsWholeNext
    <3>2. now' \in Saves \cup {Nothing}
      BY <2>0, <3>1, MaxSavesAssumption DEF Nothing, Saves
    <3>3. later' = later \cup {now'}
      BY <2>0, <2>1
    <3> QED BY <3>2, <3>3 DEF RegisterView!Next, RegisterView!Put
  <2>2. CASE UNCHANGED <<dir, onDisk>>
    BY <2>0, <2>2
  <2>3. CASE UNCHANGED dir /\ onDisk' = {dir}
    <3>1. now' = now /\ later' = {now}
      BY <2>0, <2>3
    <3> QED BY <3>1 DEF RegisterView!Next, RegisterView!Sync
  <2>4. CASE PowerLoss
    <3>1. PICK d \in onDisk : dir' = d /\ onDisk' = {d}
      BY <2>4 DEF PowerLoss
    <3>2. now' \in later /\ later' = {now'}
      BY <2>0, <3>1
    <3> QED BY <3>2 DEF RegisterView!Next, RegisterView!PowerLoss
  <2>5. \/ onDisk' = onDisk \cup {dir'}
        \/ UNCHANGED <<dir, onDisk>>
        \/ UNCHANGED dir /\ onDisk' = {dir}
        \/ PowerLoss
    <3>1. ASSUME NEW n \in Saves, Save(n)
          PROVE  \/ onDisk' = onDisk \cup {dir'}
                 \/ UNCHANGED <<dir, onDisk>>
                 \/ UNCHANGED dir /\ onDisk' = {dir}
      BY <3>1 DEF Save, CloseScratch, WriteLedger, SaveFails, Fsync, Rename,
                  PublishFails, RideAlong, SyncDir, Becomes, fileVars
    <3> QED BY <3>1 DEF Next, vars, fileVars, OpenScratch, Unlink, HandlerDrop,
                        ProxyCrash, Becomes
  <2> QED BY <2>1, <2>2, <2>3, <2>4, <2>5
<1> QED BY <1>1, <1>2, InvariantHolds, PTL DEF Spec, ImplementsRegister, RegisterView!Spec
=============================================================================
