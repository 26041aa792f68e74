------------------------------- MODULE Publish -------------------------------
(***************************************************************************)
(* Publishing one session's KV, file by file (src/lib.rs, save_slot and    *)
(* rename_sidecar).  The backend writes <blob>.save and, if it can, the    *)
(* checkpoint ledger <blob>.save.ckpt beside it; oLLM fsyncs the former,   *)
(* renames both and fsyncs the directory.  A save begins when its handler  *)
(* has the write gate.  A handler that is dropped gives the gate back, but *)
(* the backend goes on writing and the closure on the blocking pool goes   *)
(* on renaming whatever it finds under the scratch name: the next save may *)
(* begin over it, and then both use the same two scratch files.  The quota *)
(* unlinks files without the gate.  The proxy and the backend may die at   *)
(* any step, and so may the power.                                         *)
(*                                                                         *)
(* Assumed of the file system, as journaling ones keep it: directory       *)
(* operations reach the disk in the order they were made, and the          *)
(* directory's fsync waits for all of them.  The data of a file that was   *)
(* not fsynced may be lost although its name is not.  The ledger's never   *)
(* is; a bad one is refused by its magic, so only its name is kept here.   *)
(***************************************************************************)
EXTENDS Integers

CONSTANTS
    MaxSaves,  \* saves of the session, numbered from 1
    Failures,  \* what may go wrong
    Sidecars   \* whether the backend leaves out some sidecars

ASSUME MaxSavesAssumption == MaxSaves \in Nat
ASSUME FailuresAssumption ==
    Failures \subseteq {"save", "fsync", "rename", "sidecar", "unlink", "sync",
                        "drop", "crash", "power"}
ASSUME SidecarsAssumption == Sidecars \in {"always", "sometimes"}

VARIABLES
    dir,         \* the save that wrote the file of each name, 0 without one
    onDisk,      \* the directories a power loss may leave behind
    whole,       \* saves whose KV is written to its end
    synced,      \* saves whose KV is on the disk
    pc,          \* where each save is
    gate,        \* the save whose handler holds the write gate, 0 if none does
    last,        \* saves begun so far
    overlapped,  \* saves begun while the closure of a dropped handler ran
    acked,       \* the last save reported as published
    taken        \* the newest save whose blob the quota unlinked

fileVars == <<dir, onDisk, whole, synced>>
vars == <<fileVars, pc, gate, last, overlapped, acked, taken>>

Saves == 1..MaxSaves
Names == {"bin", "bin.ckpt", "save", "save.ckpt"}

Nothing == 0
Directories == [Names -> 0..MaxSaves]

Init ==
    /\ dir = [n \in Names |-> Nothing]
    /\ onDisk = {dir}
    /\ whole = {} /\ synced = {}
    /\ pc = [n \in Saves |-> "new"] /\ gate = Nothing
    /\ last = 0 /\ overlapped = {} /\ acked = Nothing /\ taken = Nothing

Fails(f) == f \in Failures

\* A directory operation: visible at once, on the disk some time later.
Becomes(d) == dir' = d /\ onDisk' = onDisk \cup {d}

\* Save n goes on to l; over, its handler, if still there, leaves the gate.
Goto(n, l) ==
    /\ pc' = [pc EXCEPT ![n] = l]
    /\ gate' = IF l = "over" /\ gate = n THEN Nothing ELSE gate
    /\ UNCHANGED <<last, overlapped, taken>>

Backend    == {"kv", "ledger"}
Publishing == {"fsync", "rename", "sidecar", "sync"}

(***************************************************************************)
(* The backend's half.  Its one loop writes one save at a time.            *)
(***************************************************************************)

\* A scratch file left by an earlier save is truncated.
OpenScratch ==
    LET n == last + 1 IN
    /\ gate = Nothing /\ n \in Saves
    /\ \A m \in Saves : pc[m] \notin Backend
    /\ Becomes([dir EXCEPT !["save"] = n])
    /\ pc' = [pc EXCEPT ![n] = "kv"] /\ gate' = n /\ last' = n
    /\ overlapped' = IF \E m \in Saves : pc[m] \in Publishing
                     THEN overlapped \cup {n} ELSE overlapped
    /\ UNCHANGED <<whole, synced, acked, taken>>

CloseScratch(n) ==
    /\ pc[n] = "kv"
    /\ whole' = whole \cup {n}
    /\ Goto(n, "ledger")
    /\ UNCHANGED <<dir, onDisk, synced, acked>>

\* The ledger is written last; that it cannot be is a warning, and a model
\* without checkpoints has none.
WriteLedger(n) ==
    /\ pc[n] = "ledger"
    /\ \/ Becomes([dir EXCEPT !["save.ckpt"] = n])
       \/ Sidecars = "sometimes" /\ UNCHANGED <<dir, onDisk>>
    /\ Goto(n, IF gate = n THEN "fsync" ELSE "over")
    /\ UNCHANGED <<whole, synced, acked>>

\* The backend dies or answers with an error: save_slot returns false.
SaveFailsUnnoticed(n) ==
    /\ pc[n] \in Backend /\ Fails("save")
    /\ Goto(n, IF gate = n THEN "fsync" ELSE "over")
    /\ UNCHANGED <<fileVars, acked>>
SaveFails(n) ==
    /\ pc[n] \in Backend /\ Fails("save")
    /\ Goto(n, "over")
    /\ UNCHANGED <<fileVars, acked>>

(***************************************************************************)
(* oLLM's half, on the blocking pool.  An error up to the rename ends it,  *)
(* later ones are ignored.  Every step takes the file by its name.         *)
(***************************************************************************)
FsyncSkipped(n) ==
    /\ pc[n] = "fsync" /\ dir["save"] # Nothing
    /\ Goto(n, "rename")
    /\ UNCHANGED <<fileVars, acked>>
Fsync(n) ==
    /\ pc[n] = "fsync" /\ dir["save"] # Nothing
    /\ synced' = synced \cup ({dir["save"]} \cap whole)
    /\ Goto(n, "rename")
    /\ UNCHANGED <<dir, onDisk, whole, acked>>

RenameLedgerFirst(n) ==
    /\ pc[n] = "rename" /\ dir["save"] # Nothing
    /\ LET moved == [dir EXCEPT !["bin.ckpt"] = dir["save.ckpt"],
                                !["save.ckpt"] = Nothing] IN
           /\ dir' = [moved EXCEPT !["bin"] = dir["save"], !["save"] = Nothing]
           /\ onDisk' = onDisk \cup {moved, dir'}
    /\ Goto(n, "sidecar")
    /\ UNCHANGED <<whole, synced, acked>>
Rename(n) ==
    /\ pc[n] = "rename" /\ dir["save"] # Nothing
    /\ Becomes([dir EXCEPT !["bin"] = dir["save"], !["save"] = Nothing])
    /\ Goto(n, "sidecar")
    /\ UNCHANGED <<whole, synced, acked>>

\* The scratch file is gone, by the quota or by an older closure, or the call
\* fails: nothing published.
PublishFailsKeepingGate(n) ==
    /\ \/ pc[n] = "fsync" /\ Fails("fsync")
       \/ pc[n] = "rename" /\ Fails("rename")
       \/ pc[n] \in {"fsync", "rename"} /\ dir["save"] = Nothing
    /\ pc' = [pc EXCEPT ![n] = "over"]
    /\ UNCHANGED <<fileVars, gate, last, overlapped, acked, taken>>
PublishFails(n) ==
    /\ \/ pc[n] = "fsync" /\ Fails("fsync")
       \/ pc[n] = "rename" /\ Fails("rename")
       \/ pc[n] \in {"fsync", "rename"} /\ dir["save"] = Nothing
    /\ Goto(n, "over")
    /\ UNCHANGED <<fileVars, acked>>

\* rename_sidecar: without a scratch sidecar nothing happens; the one beside
\* the blob, if any, stays.
RideAlong(n) ==
    /\ pc[n] = "sidecar"
    /\ \/ /\ dir["save.ckpt"] # Nothing
          /\ Becomes([dir EXCEPT !["bin.ckpt"] = dir["save.ckpt"],
                                 !["save.ckpt"] = Nothing])
       \/ /\ dir["save.ckpt"] = Nothing \/ Fails("sidecar")
          /\ UNCHANGED <<dir, onDisk>>
    /\ Goto(n, "sync")
    /\ UNCHANGED <<whole, synced, acked>>

\* The directory's fsync; save_slot returns true to a handler that is there.
SyncDirSkipped(n) ==
    /\ pc[n] = "sync"
    /\ acked' = IF gate = n THEN n ELSE acked
    /\ Goto(n, "over")
    /\ UNCHANGED fileVars
SyncDir(n) ==
    /\ pc[n] = "sync"
    /\ onDisk' \in {{dir}} \cup (IF Fails("sync") THEN {onDisk} ELSE {})
    /\ acked' = IF gate = n THEN n ELSE acked
    /\ Goto(n, "over")
    /\ UNCHANGED <<dir, whole, synced>>

(***************************************************************************)
(* What happens meanwhile.                                                 *)
(***************************************************************************)

\* enforce_limit, by a plan it may have made earlier.
Unlink(f) ==
    /\ Fails("unlink") /\ dir[f] # Nothing
    /\ Becomes([dir EXCEPT ![f] = Nothing])
    /\ taken' = IF f = "bin" /\ dir[f] > taken THEN dir[f] ELSE taken
    /\ UNCHANGED <<whole, synced, pc, gate, last, overlapped, acked>>

\* The handler's future is dropped inside save_slot: only the gate goes.
HandlerDrop ==
    /\ Fails("drop") /\ gate # Nothing
    /\ gate' = Nothing
    /\ UNCHANGED <<fileVars, pc, last, overlapped, acked, taken>>

\* The proxy dies, closures and all.  What the backend has begun to write it
\* goes on writing.
ProxyCrash ==
    /\ Fails("crash")
    /\ pc' = [n \in Saves |-> IF pc[n] \in Publishing THEN "over" ELSE pc[n]]
    /\ gate' = Nothing
    /\ UNCHANGED <<fileVars, last, overlapped, acked, taken>>

\* The power fails: the directory is as far as it had got to the disk, and
\* any blob that was not fsynced may have lost data.
PowerLoss ==
    /\ Fails("power")
    /\ \E d \in onDisk : dir' = d /\ onDisk' = {d}
    /\ \E kept \in SUBSET (whole \ synced) :
           whole' = synced \cup kept /\ synced' = synced \cup kept
    /\ pc' = [n \in Saves |-> IF pc[n] = "new" THEN "new" ELSE "over"]
    /\ gate' = Nothing
    /\ UNCHANGED <<last, overlapped, acked, taken>>

(***************************************************************************)
(* The specification.                                                      *)
(***************************************************************************)
Save(n) ==
    \/ CloseScratch(n) \/ WriteLedger(n) \/ SaveFails(n)
    \/ Fsync(n) \/ Rename(n) \/ PublishFails(n) \/ RideAlong(n) \/ SyncDir(n)

Next ==
    \/ OpenScratch
    \/ \E n \in Saves : Save(n)
    \/ \E f \in Names : Unlink(f)
    \/ HandlerDrop \/ ProxyCrash \/ PowerLoss

Spec == Init /\ [][Next]_vars

-----------------------------------------------------------------------------
(***************************************************************************)
(* What holds.                                                             *)
(***************************************************************************)
PCs == {"new", "over"} \cup Backend \cup Publishing

\* Every variable has its type, and only a save under way has the gate.
TypeOK ==
    /\ dir \in Directories /\ onDisk \subseteq Directories
    /\ whole \subseteq 1..last /\ synced \subseteq whole
    /\ last \in 0..MaxSaves /\ overlapped \subseteq 1..last
    /\ acked \in 0..last /\ taken \in 0..last
    /\ pc \in [Saves -> PCs] /\ \A n \in Saves : pc[n] = "new" <=> n > last
    /\ gate # Nothing => gate = last /\ pc[last] # "over"

\* "A visible blob is always complete" (R2), also after the power failed at
\* any step: no directory that may be found names a blob whose data is not
\* on the disk, "never a poisoned cache entry".  Only of a save that began
\* while the closure of a dropped handler was at work this does not hold:
\* that closure may rename the scratch file before the save is done with it.
BlobsSurvive ==
    \A d \in onDisk : d["bin"] \in synced \cup overlapped \cup {Nothing}

\* What save_slot reported as published is still there, or replaced by a
\* later save, whenever the power fails: unless the quota took it or one
\* that had replaced it.
AckedSurvives ==
    acked > taken => \A d \in onDisk : d["bin"] >= acked

\* A ledger promises what can be reused of its blob, so it is never that of
\* a later save than the blob it is found beside, whatever crashes or is
\* lost: this is why the blob is renamed first.  Again a save begun over an
\* orphaned closure is excepted: that closure may take its ledger away.
LedgerNotAhead ==
    \A d \in onDisk :
        d["bin"] # Nothing /\ d["bin.ckpt"] \notin overlapped
        => d["bin.ckpt"] <= d["bin"]

\* Readers see a register of complete states that forgets nothing synced, a
\* save begun over an orphaned closure counting as complete.
Torn == -1
Read(d, good) ==
    IF d["bin"] \in good \cup overlapped \cup {Nothing} THEN d["bin"] ELSE Torn
RegisterView == INSTANCE Register WITH
    Values <- Saves, Absent <- Nothing,
    value <- Read(dir, whole), durable <- {Read(d, synced) : d \in onDisk}
ImplementsRegister == RegisterView!Spec

\* "Absence of a sidecar is normal and never an error: restore then degrades
\* to re-prefill": between saves, a blob has its own ledger or none.
LedgerOfItsBlob ==
    (\A n \in Saves : pc[n] \in {"new", "over"}) /\ dir["bin"] # Nothing
    => dir["bin.ckpt"] \in {Nothing, dir["bin"]}
=============================================================================
