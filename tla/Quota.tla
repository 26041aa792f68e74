-------------------------------- MODULE Quota --------------------------------
(***************************************************************************)
(* The disk quota (src/lib.rs): App::enforce_limit around the pure         *)
(* plan_evictions.  A turn's task runs it once, after its save: it reads   *)
(* the directory, plans deletions in two passes and executes them one by   *)
(* one, on the blocking pool and outside the write gate: meanwhile files   *)
(* are written and touched, and another turn's enforcement removes some.   *)
(*                                                                         *)
(* A file's name is a base and a kind; "bin" is a blob, "save" a scratch   *)
(* file, and ".ckpt" is the sidecar of either.                             *)
(***************************************************************************)
EXTENDS Integers, FiniteSetsExt, SequencesExt

CONSTANTS
    Names,      \* the file names that may occur, <<base, kind>>
    Bytes(_),   \* the length of a set of files
    Mtimes,     \* modification times
    Now, Grace, \* the time of the enforcement and the grace period
    Limit,      \* bytes allowed
    MaxWrites   \* bound on the writes that race with enforcement

Kinds == {"bin", "bin.ckpt", "save", "save.ckpt"}

ASSUME NamesAssumption  == Names \subseteq {n[1] : n \in Names} \X Kinds
ASSUME BytesAssumption  ==
    \A S \in SUBSET Names :
        /\ Bytes(S) \in Nat
        /\ \A T \in SUBSET (Names \ S) : Bytes(S \cup T) = Bytes(S) + Bytes(T)
ASSUME NumberAssumption ==
    /\ Mtimes \subseteq Nat
    /\ Now \in Mtimes /\ Grace \in Nat /\ Limit \in Nat /\ MaxWrites \in Nat

VARIABLES
    dir,      \* the directory: from the names present to their mtimes
    phase,    \* "idle", "due", or where the enforcement is
    entries,  \* the directory as it was read
    todo,     \* what the current pass has still to look at
    plan,     \* the names to delete, in deletion order
    freed,    \* bytes the plan frees
    disturbed, \* whether, since it was read, a file was written or not removed
    writes    \* writes so far

planVars == <<entries, todo, plan, freed>>
vars == <<dir, phase, planVars, disturbed, writes>>

Directories == UNION {[D -> Mtimes] : D \in SUBSET Names}

\* cache_usage_bytes: every regular file counts.
Usage(d) == Bytes(DOMAIN d)

\* The name with ".ckpt" after it; no file has a sidecar's for its name.
Sidecar(n) == <<n[1], CASE n[2] = "bin"  -> "bin.ckpt"
                        [] n[2] = "save" -> "save.ckpt"
                        [] OTHER         -> "ckpt.ckpt">>
IsSidecar(n) == n[2] \in {"bin.ckpt", "save.ckpt"}

\* Pass 1: scratch files, and sidecars whose base file is gone.
JunkWithSidecars(d) == {n \in DOMAIN d : n[2] # "bin"}
JunkScratchOnly(d) == {n \in DOMAIN d : n[2] = "save"}
Junk(d) ==
    {n \in DOMAIN d : \/ n[2] = "save"
                      \/ IsSidecar(n) /\ \A b \in DOMAIN d : Sidecar(b) # n}

\* Pass 2: blobs, each with its sidecar if it has one; the pair is as young
\* as the younger of the two.
Blobs(d) == {n \in DOMAIN d : n[2] = "bin"}
UnitOfBlobOnly(d, n) == <<n>>
Unit(d, n) == IF n[2] = "bin" /\ Sidecar(n) \in DOMAIN d
              THEN <<n, Sidecar(n)>> ELSE <<n>>
UnitMtimeOfBlob(d, n) == d[n]
UnitMtime(d, n) == Max({d[m] : m \in ToSet(Unit(d, n))})
UnitLen(d, n) == Bytes(ToSet(Unit(d, n)))

\* saturating_sub: a file from the future is fresh.
Fresh(t) == (IF t > Now THEN 0 ELSE Now - t) < Grace

FitsLate == Usage(entries) - freed < Limit
Fits == Usage(entries) - freed <= Limit

Init ==
    /\ dir \in Directories
    /\ phase = "idle"
    /\ entries = <<>> /\ todo = {} /\ plan = <<>> /\ freed = 0
    /\ disturbed = FALSE /\ writes = 0

\* A save or a restore happens elsewhere: the file is there and new.
Write(n) ==
    /\ writes < MaxWrites
    /\ dir' = [m \in DOMAIN dir \cup {n} |-> IF m = n THEN Now ELSE dir[m]]
    /\ disturbed' = (phase \notin {"idle", "due"})
    /\ writes' = writes + 1
    /\ UNCHANGED <<phase, planVars>>

\* The enforcement of another turn, under way at the same time, removes n.
RemovedElsewhere(n) ==
    /\ phase \notin {"idle", "due"} /\ n \in DOMAIN dir
    /\ dir' = [m \in DOMAIN dir \ {n} |-> dir[m]]
    /\ UNCHANGED <<phase, planVars, disturbed, writes>>

\* A steered turn's task has saved its slot.  Nothing else enforces the limit,
\* not even the start of the proxy.
TurnEnds ==
    /\ phase = "idle" /\ phase' = "due"
    /\ UNCHANGED <<dir, planVars, disturbed, writes>>

\* read_dir; when everything fits the plan is empty.
WithinLimit ==
    /\ phase = "due" /\ Usage(dir) <= Limit
    /\ phase' = "idle"
    /\ UNCHANGED <<dir, planVars, disturbed, writes>>

Scan ==
    /\ phase = "due" /\ Usage(dir) > Limit
    /\ phase' = "junk" /\ disturbed' = FALSE
    /\ entries' = dir /\ todo' = Junk(dir)
    /\ plan' = <<>> /\ freed' = 0
    /\ UNCHANGED <<dir, writes>>

\* The oldest unit of the pass; read_dir's order decides between equals.
IsNext(n) == n \in todo
IsOldest(n) ==
    /\ n \in todo
    /\ \A m \in todo : UnitMtime(entries, n) <= UnitMtime(entries, m)

Skip(n) ==
    /\ phase \in {"junk", "pairs"} /\ ~Fits
    /\ IsOldest(n)
    /\ Fresh(UnitMtime(entries, n))
    /\ todo' = todo \ {n}
    /\ UNCHANGED <<dir, phase, entries, plan, freed, disturbed, writes>>

Take(n) ==
    /\ phase \in {"junk", "pairs"} /\ ~Fits
    /\ IsOldest(n)
    /\ ~Fresh(UnitMtime(entries, n))
    /\ todo' = todo \ {n}
    /\ plan' = plan \o Unit(entries, n)
    /\ freed' = freed + UnitLen(entries, n)
    /\ UNCHANGED <<dir, phase, entries, disturbed, writes>>

JunkIsEnough ==
    /\ phase \in {"junk", "pairs"} /\ (todo = {} \/ Fits)
    /\ phase' = "delete" /\ todo' = {}
    /\ UNCHANGED <<dir, entries, plan, freed, disturbed, writes>>
EndPass ==
    /\ phase \in {"junk", "pairs"} /\ (todo = {} \/ Fits)
    /\ IF phase = "junk" THEN phase' = "pairs" /\ todo' = Blobs(entries)
                         ELSE phase' = "delete" /\ todo' = {}
    /\ UNCHANGED <<dir, entries, plan, freed, disturbed, writes>>

\* remove_file, in the plan's order; a failure is logged and passed over.
RemoveFile ==
    /\ phase = "delete" /\ plan # <<>> /\ Head(plan) \in DOMAIN dir
    /\ dir' = [m \in DOMAIN dir \ {Head(plan)} |-> dir[m]]
    /\ plan' = Tail(plan)
    /\ UNCHANGED <<phase, entries, todo, freed, disturbed, writes>>

RemoveFailed ==
    /\ phase = "delete" /\ plan # <<>>
    /\ plan' = Tail(plan)
    /\ disturbed' = (disturbed \/ Head(plan) \in DOMAIN dir)
    /\ UNCHANGED <<dir, phase, entries, todo, freed, writes>>

Finish ==
    /\ phase = "delete" /\ plan = <<>>
    /\ phase' = "idle"
    /\ entries' = <<>> /\ freed' = 0
    /\ UNCHANGED <<dir, todo, plan, disturbed, writes>>

Next ==
    \/ \E n \in Names : Write(n) \/ RemovedElsewhere(n) \/ Skip(n) \/ Take(n)
    \/ TurnEnds \/ WithinLimit \/ Scan \/ EndPass
    \/ RemoveFile \/ RemoveFailed \/ Finish

Spec == Init /\ [][Next]_vars
-----------------------------------------------------------------------------
TypeOK ==
    /\ dir \in Directories
    /\ phase \in {"idle", "due", "junk", "pairs", "delete"}
    /\ DOMAIN entries \subseteq Names
    /\ todo \subseteq DOMAIN entries
    /\ ToSet(plan) \subseteq Names
    /\ freed \in Nat /\ writes \in 0..MaxWrites
    /\ disturbed \in BOOLEAN

Planning == phase \in {"junk", "pairs"}
PlanComplete == phase = "pairs" /\ (todo = {} \/ Fits)

\* u64 arithmetic: total - freed never wraps, because no file is counted
\* twice, however junk and pairs share names.
FreedIsExact ==
    Planning => /\ freed = Bytes(ToSet(plan))
                /\ IsInjective(plan)
                /\ freed <= Usage(entries)

\* "never orphan the sidecar": a blob is planned with its sidecar, and a
\* sidecar is planned with its blob unless the blob is gone already.
PairsTogether ==
    Planning =>
        \A b \in Blobs(entries) :
            Sidecar(b) \in DOMAIN entries =>
                (b \in ToSet(plan) <=> Sidecar(b) \in ToSet(plan))

\* "grace: just written": neither a planned file nor its sidecar or blob was
\* written or served within the grace period when the directory was read.
GraceHonoured == Planning => \A n \in ToSet(plan) : ~Fresh(entries[n])

\* LRU: no blob is planned while an older unit that may go is kept.
OldestFirst ==
    Planning =>
        \A a, b \in Blobs(entries) :
            b \in ToSet(plan) /\ a \notin ToSet(plan)
            => \/ UnitMtime(entries, a) >= UnitMtime(entries, b)
               \/ Fresh(UnitMtime(entries, a))

\* "Stops as soon as projected usage <= limit": a unit is added to the plan
\* only while the plan does not reach the limit.  The last unit planned is
\* the last element, with its blob before it if it is a blob's sidecar.
StopsAtLimit ==
    Planning /\ plan # <<>> =>
        LET l == Last(plan)
            last == {l} \cup {b \in Blobs(entries) : Sidecar(b) = l} IN
        Usage(entries) - freed + Bytes(last) > Limit

\* What may stay over the limit: a fresh file, a half of a fresh pair, and the
\* sidecar of a scratch file, which is junk only once that file is gone.
Spared(n) ==
    \/ Fresh(entries[n])
    \/ n[2] = "bin" /\ Fresh(UnitMtime(entries, n))
    \/ \E b \in DOMAIN entries :
           /\ Sidecar(b) = n
           /\ b[2] = "save" \/ Fresh(UnitMtime(entries, b))

\* "Over-limit cache must plan deletions": a complete plan reaches the limit,
\* or leaves nothing but what may stay.
ReachesLimit ==
    PlanComplete => Fits \/ \A n \in DOMAIN entries \ ToSet(plan) : Spared(n)

\* One enforcement is enough: when its plan has been executed, no file has
\* been written since it read the directory and every file could be removed,
\* the directory fits or holds nothing but what may stay.
EnforcementSuffices ==
    phase = "delete" /\ plan = <<>> /\ ~disturbed
    => Usage(dir) <= Limit \/ \A n \in DOMAIN dir : Spared(n)
=============================================================================
