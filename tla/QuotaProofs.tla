----------------------------- MODULE QuotaProofs -----------------------------
(***************************************************************************)
(* What the quota's plan keeps for any names, file lengths, modification   *)
(* times, limit and grace period, in any order of ties and whatever is     *)
(* written meanwhile: first facts about names, units and ages, then the    *)
(* types, then the plan.                                                   *)
(***************************************************************************)
EXTENDS Quota, TLAPS

-----------------------------------------------------------------------------
(***************************************************************************)
(* Names, units and ages.                                                  *)
(***************************************************************************)

\* A set of names is no longer than a larger one.
LEMMA BytesMonotone ==
    ASSUME NEW S \in SUBSET Names, NEW T \in SUBSET S
    PROVE  Bytes(T) <= Bytes(S) /\ Bytes(T) \in Nat
<1>1. S \ T \in SUBSET (Names \ T) /\ T \cup (S \ T) = S /\ T \in SUBSET Names
  OBVIOUS
<1>2. Bytes(S) = Bytes(T) + Bytes(S \ T) /\ Bytes(T) \in Nat /\ Bytes(S \ T) \in Nat
  BY <1>1, BytesAssumption
<1> QED BY <1>2

\* No file at all has no length.
LEMMA BytesOfNothing == Bytes({}) = 0
<1>1. {} \cup {} = {}
  OBVIOUS
<1>2. Bytes({} \cup {}) = Bytes({})
  BY <1>1, Zenon
<1>3. Bytes({} \cup {}) = Bytes({}) + Bytes({}) /\ Bytes({}) \in Nat
  BY BytesAssumption
<1> DEFINE b == Bytes({})
<1>4. b = b + b /\ b \in Nat
  BY <1>2, <1>3, Zenon
<1> HIDE DEF b
<1>5. b = 0
  BY <1>4
<1> QED BY <1>5 DEF b

\* A sidecar is no blob and no scratch file, and has one base.
LEMMA SidecarOfOne ==
    ASSUME NEW a \in Names, NEW b \in Names
    PROVE  /\ Sidecar(a)[2] \notin {"bin", "save"}
           /\ Sidecar(a) # a
           /\ Sidecar(a) = Sidecar(b) /\ a[2] = "bin" => a = b
<1>1. /\ a = <<a[1], a[2]>> /\ a[2] \in Kinds
      /\ b = <<b[1], b[2]>> /\ b[2] \in Kinds
  BY NamesAssumption
<1> QED BY <1>1 DEF Sidecar, Kinds

\* The files of a unit, and its age: that of its youngest file.
LEMMA UnitFiles ==
    ASSUME NEW d \in Directories, NEW n \in DOMAIN d
    PROVE  /\ Unit(d, n) \in Seq(Names)
           /\ ToSet(Unit(d, n)) =
                  {n} \cup (IF n[2] = "bin" THEN {Sidecar(n)} \cap DOMAIN d ELSE {})
           /\ IsInjective(Unit(d, n))
           /\ Unit(d, n) # <<>>
<1> USE DEF Unit, ToSet, IsInjective
<1>1. DOMAIN d \subseteq Names
  BY DEF Directories
<1>2. Sidecar(n) # n
  BY <1>1, SidecarOfOne
<1>3. CASE n[2] = "bin" /\ Sidecar(n) \in DOMAIN d
  BY <1>1, <1>2, <1>3
<1>4. CASE ~(n[2] = "bin" /\ Sidecar(n) \in DOMAIN d)
  BY <1>1, <1>4
<1> QED BY <1>3, <1>4

LEMMA MaxOfTwo ==
    ASSUME NEW x \in Nat, NEW y \in Nat
    PROVE  Max({x, y}) \in {x, y} /\ Max({x, y}) >= x /\ Max({x, y}) >= y
<1>1. \E z \in {x, y} : \A w \in {x, y} : z >= w
  <2>1. CASE x >= y
    BY <2>1
  <2>2. CASE y >= x
    BY <2>2
  <2> QED BY <2>1, <2>2
<1> QED BY <1>1 DEF Max

LEMMA UnitAge ==
    ASSUME NEW d \in Directories, NEW n \in DOMAIN d
    PROVE  /\ UnitMtime(d, n) \in Nat
           /\ \A m \in ToSet(Unit(d, n)) : d[m] \in Nat /\ d[m] <= UnitMtime(d, n)
           /\ n[2] # "bin" => UnitMtime(d, n) = d[n]
<1>1. \A m \in DOMAIN d : d[m] \in Nat
  BY NumberAssumption DEF Directories
<1>2. CASE n[2] = "bin" /\ Sidecar(n) \in DOMAIN d
  <2>1. ToSet(Unit(d, n)) = {n, Sidecar(n)}
    BY <1>2, UnitFiles
  <2>2. {d[m] : m \in ToSet(Unit(d, n))} = {d[n], d[Sidecar(n)]}
    BY <2>1
  <2> QED BY <1>1, <1>2, <2>1, <2>2, MaxOfTwo DEF UnitMtime
<1>3. CASE ~(n[2] = "bin" /\ Sidecar(n) \in DOMAIN d)
  <2>1. ToSet(Unit(d, n)) = {n}
    BY <1>3, UnitFiles
  <2>2. {d[m] : m \in ToSet(Unit(d, n))} = {d[n], d[n]}
    BY <2>1
  <2> QED BY <1>1, <2>1, <2>2, MaxOfTwo DEF UnitMtime
<1> QED BY <1>2, <1>3

\* What is older than a file out of its grace period is out of it too.
LEMMA FreshMonotone ==
    ASSUME NEW t \in Nat, NEW u \in Nat, t <= u, ~Fresh(u)
    PROVE  ~Fresh(t)
  BY NumberAssumption DEF Fresh

\* The empty plan.
LEMMA NothingPlanned ==
    <<>> \in Seq(Names) /\ ToSet(<<>>) = {} /\ IsInjective(<<>>)
                        /\ DOMAIN <<>> = {}
  BY DEF ToSet, IsInjective

\* Joining two sequences.
LEMMA Joined ==
    ASSUME NEW S, NEW s \in Seq(S), NEW t \in Seq(S)
    PROVE  /\ s \o t \in Seq(S)
           /\ ToSet(s \o t) = ToSet(s) \cup ToSet(t)
           /\ IsInjective(s) /\ IsInjective(t) /\ ToSet(s) \cap ToSet(t) = {}
                  => IsInjective(s \o t)
           /\ t # <<>> => Last(s \o t) = Last(t)
<1> DEFINE u == s \o t
<1>1. /\ u \in Seq(S)
      /\ Len(u) = Len(s) + Len(t)
      /\ \A i \in 1..Len(s) : u[i] = s[i]
      /\ \A i \in 1..Len(t) : u[Len(s) + i] = t[i]
      /\ Len(s) \in Nat /\ Len(t) \in Nat
      /\ DOMAIN s = 1..Len(s) /\ DOMAIN t = 1..Len(t) /\ DOMAIN u = 1..Len(u)
  OBVIOUS
<1> HIDE DEF u
<1>2. \A i \in 1..Len(u) : \/ i \in 1..Len(s)
                           \/ \E j \in 1..Len(t) : i = Len(s) + j
  <2> TAKE i \in 1..Len(u)
  <2>1. i \in 1..Len(s) \/ (i - Len(s) \in 1..Len(t) /\ i = Len(s) + (i - Len(s)))
    BY <1>1
  <2> QED BY <2>1
<1>3. ToSet(u) = ToSet(s) \cup ToSet(t)
  <2>1. \A i \in 1..Len(s) : i \in 1..Len(u)
    BY <1>1
  <2>2. \A j \in 1..Len(t) : Len(s) + j \in 1..Len(u)
    BY <1>1
  <2>3. ASSUME NEW i \in 1..Len(u) PROVE u[i] \in ToSet(s) \cup ToSet(t)
    <3>1. CASE i \in 1..Len(s)
      BY <1>1, <3>1 DEF ToSet
    <3>2. ASSUME NEW j \in 1..Len(t), i = Len(s) + j PROVE u[i] \in ToSet(t)
      BY <1>1, <3>2 DEF ToSet
    <3> QED BY <1>2, <3>1, <3>2
  <2>4. ToSet(s) \subseteq ToSet(u)
    BY <1>1, <2>1 DEF ToSet
  <2>5. ToSet(t) \subseteq ToSet(u)
    BY <1>1, <2>2 DEF ToSet
  <2> QED BY <1>1, <2>3, <2>4, <2>5 DEF ToSet
<1>4. ASSUME IsInjective(s), IsInjective(t), ToSet(s) \cap ToSet(t) = {}
      PROVE  IsInjective(u)
  <2> SUFFICES ASSUME NEW i \in 1..Len(u), NEW j \in 1..Len(u), u[i] = u[j]
               PROVE  i = j
    BY <1>1 DEF IsInjective
  <2>1. CASE i \in 1..Len(s) /\ j \in 1..Len(s)
    BY <1>1, <1>4, <2>1 DEF IsInjective
  <2>2. ASSUME NEW k \in 1..Len(t), NEW l \in 1..Len(t),
               i = Len(s) + k, j = Len(s) + l
        PROVE  i = j
    <3>1. t[k] = t[l]
      BY <1>1, <2>2
    <3> QED BY <1>1, <1>4, <2>2, <3>1 DEF IsInjective
  <2>3. ASSUME NEW k \in 1..Len(s), NEW l \in 1..Len(t),
               s[k] = t[l]
        PROVE  FALSE
    BY <1>1, <1>4, <2>3 DEF ToSet
  <2>4. CASE i \in 1..Len(s) /\ \E l \in 1..Len(t) : j = Len(s) + l
    BY <1>1, <2>3, <2>4
  <2>5. CASE j \in 1..Len(s) /\ \E k \in 1..Len(t) : i = Len(s) + k
    BY <1>1, <2>3, <2>5
  <2> QED BY <1>2, <2>1, <2>2, <2>4, <2>5
<1>5. t # <<>> => Last(u) = Last(t)
  BY <1>1 DEF Last
<1> QED BY <1>1, <1>3, <1>4, <1>5 DEF u
-----------------------------------------------------------------------------
(***************************************************************************)
(* Types.                                                                  *)
(***************************************************************************)

\* An enforcement under way has read the directory; but while it plans nothing
\* is left to look at.
QuotaTyped ==
    /\ TypeOK
    /\ plan \in Seq(Names)
    /\ Planning \/ phase = "delete" => entries \in Directories
    /\ ~Planning => todo = {}

\* The directory's own steps: a file written, a file removed.
LEMMA DirectoryWrites ==
    ASSUME dir \in Directories
    PROVE  /\ \A n \in Names : Write(n) => dir' \in Directories
           /\ \A n \in Names : RemovedElsewhere(n) => dir' \in Directories
           /\ RemoveFile => dir' \in Directories
<1>1. PICK D \in SUBSET Names : dir \in [D -> Mtimes]
  BY DEF Directories
<1>2. ASSUME NEW n \in Names, Write(n) PROVE dir' \in Directories
  <2>1. dir' \in [D \cup {n} -> Mtimes]
    BY <1>1, <1>2, NumberAssumption DEF Write
  <2> QED BY <2>1 DEF Directories
<1>3. ASSUME RemoveFile PROVE dir' \in Directories
  <2>1. dir' \in [D \ {Head(plan)} -> Mtimes]
    BY <1>1, <1>3 DEF RemoveFile
  <2> QED BY <2>1 DEF Directories
<1>4. ASSUME NEW n \in Names, RemovedElsewhere(n) PROVE dir' \in Directories
  <2>1. dir' \in [D \ {n} -> Mtimes]
    BY <1>1, <1>4 DEF RemovedElsewhere
  <2> QED BY <2>1 DEF Directories
<1> QED BY <1>2, <1>3, <1>4

\* The sequence of names that is planned, and its length in bytes.
LEMMA TakeType ==
    ASSUME QuotaTyped, NEW n \in Names, Take(n)
    PROVE  /\ plan' \in Seq(Names)
           /\ ToSet(plan') = ToSet(plan) \cup ToSet(Unit(entries, n))
           /\ ToSet(Unit(entries, n)) \subseteq DOMAIN entries
           /\ UnitLen(entries, n) \in Nat
           /\ freed' = freed + UnitLen(entries, n)
           /\ entries \in Directories /\ n \in todo /\ n \in DOMAIN entries
           /\ UNCHANGED entries /\ todo' = todo \ {n}
<1>1. /\ entries \in Directories /\ n \in todo /\ n \in DOMAIN entries
      /\ DOMAIN entries \subseteq Names
  BY DEF Take, IsOldest, QuotaTyped, TypeOK, Planning
<1>2. Unit(entries, n) \in Seq(Names)
  BY <1>1, UnitFiles
<1>3. ToSet(Unit(entries, n)) \subseteq DOMAIN entries
  BY <1>1, UnitFiles
<1>4. UnitLen(entries, n) \in Nat
  BY <1>1, <1>3, BytesAssumption DEF UnitLen
<1> QED BY <1>1, <1>2, <1>3, <1>4, Joined DEF Take, QuotaTyped

\* Removing a name from the head of the plan, or passing over it.
LEMMA TailType ==
    ASSUME plan \in Seq(Names), plan # <<>>
    PROVE  Tail(plan) \in Seq(Names) /\ ToSet(Tail(plan)) \subseteq Names
  BY DEF ToSet

LEMMA HeadAndTail ==
    ASSUME NEW S, NEW s \in Seq(S), s # <<>>
    PROVE  ToSet(s) = {Head(s)} \cup ToSet(Tail(s))
<1>1. /\ Len(s) \in Nat \ {0} /\ DOMAIN s = 1..Len(s) /\ Head(s) = s[1]
      /\ DOMAIN Tail(s) = 1..(Len(s) - 1)
      /\ \A i \in 1..(Len(s) - 1) : Tail(s)[i] = s[i + 1]
  OBVIOUS
<1>2. \A i \in 1..Len(s) : i = 1 \/ (i - 1 \in 1..(Len(s) - 1) /\ i = (i - 1) + 1)
  BY <1>1
<1>3. ToSet(s) \subseteq {Head(s)} \cup ToSet(Tail(s))
  <2> SUFFICES ASSUME NEW i \in 1..Len(s) PROVE s[i] \in {Head(s)} \cup ToSet(Tail(s))
    BY <1>1 DEF ToSet
  <2>1. CASE i = 1
    BY <1>1, <2>1
  <2>2. CASE i - 1 \in 1..(Len(s) - 1)
    <3>1. Tail(s)[i - 1] = s[i]
      BY <1>1, <2>2
    <3> QED BY <1>1, <2>2, <3>1 DEF ToSet
  <2> QED BY <1>2, <2>1, <2>2
<1>4. ToSet(Tail(s)) \subseteq ToSet(s)
  BY <1>1 DEF ToSet
<1>5. Head(s) \in ToSet(s)
  BY <1>1 DEF ToSet
<1> QED BY <1>3, <1>4, <1>5

LEMMA QuotaTypedAlways == Spec => []QuotaTyped
<1>1. Init => QuotaTyped
  <2> SUFFICES ASSUME Init PROVE QuotaTyped
    OBVIOUS
  <2>1. /\ DOMAIN entries = {} /\ ToSet(plan) = {} /\ plan \in Seq(Names)
        /\ todo = {} /\ phase = "idle" /\ writes = 0 /\ freed = 0
        /\ disturbed \in BOOLEAN /\ dir \in Directories
    BY NothingPlanned DEF Init
  <2> QED BY <2>1, NumberAssumption DEF QuotaTyped, TypeOK, Planning
<1>2. QuotaTyped /\ [Next]_vars => QuotaTyped'
  <2> SUFFICES ASSUME QuotaTyped, [Next]_vars PROVE QuotaTyped'
    OBVIOUS
  <2> USE DEF QuotaTyped, TypeOK, Planning
  <2>1. CASE UNCHANGED vars
    BY <2>1 DEF vars, planVars
  <2>2. ASSUME NEW n \in Names, Write(n) PROVE QuotaTyped'
    <3>1. writes' \in 0..MaxWrites
      BY <2>2, NumberAssumption DEF Write
    <3> QED BY <2>2, <3>1, DirectoryWrites DEF Write, planVars
  <2>3. ASSUME NEW n \in Names, Skip(n) PROVE QuotaTyped'
    BY <2>3 DEF Skip
  <2>4. ASSUME NEW n \in Names, Take(n) PROVE QuotaTyped'
    <3>1. /\ plan' \in Seq(Names) /\ ToSet(plan') \subseteq Names
          /\ freed' \in Nat
          /\ todo' \subseteq DOMAIN entries
      BY <2>4, TakeType
    <3> QED BY <2>4, <3>1 DEF Take
  <2>5. CASE Scan
    <3>1. Junk(dir) \subseteq DOMAIN dir /\ DOMAIN dir \subseteq Names
      BY DEF Junk, Directories
    <3> QED BY <2>5, <3>1, NothingPlanned DEF Scan
  <2>6. CASE EndPass
    BY <2>6 DEF EndPass, Blobs
  <2>7. CASE RemoveFile
    BY <2>7, DirectoryWrites, TailType DEF RemoveFile
  <2>8. CASE RemoveFailed
    BY <2>8, TailType DEF RemoveFailed
  <2>9. CASE Finish
    BY <2>9 DEF Finish
  <2>10. CASE TurnEnds \/ WithinLimit
    BY <2>10 DEF TurnEnds, WithinLimit, planVars
  <2>11. ASSUME NEW n \in Names, RemovedElsewhere(n) PROVE QuotaTyped'
    BY <2>11, DirectoryWrites DEF RemovedElsewhere, planVars
  <2> QED
    BY <2>1, <2>2, <2>3, <2>4, <2>5, <2>6, <2>7, <2>8, <2>9, <2>10, <2>11 DEF Next
<1> QED BY <1>1, <1>2, PTL DEF Spec

\* Type correctness of the quota: what is planned are files of the directory,
\* and what they free is no negative number.
THEOREM QuotaTypeCorrect == Spec => []TypeOK
  BY QuotaTypedAlways, PTL DEF QuotaTyped
-----------------------------------------------------------------------------
(***************************************************************************)
(* The plan.  None of its properties is inductive alone: a unit is planned *)
(* once because the names left to look at are not planned yet, in either   *)
(* pass, and the passes never meet because what is junk is no blob's half. *)
(***************************************************************************)
Exact == /\ freed = Bytes(ToSet(plan))
         /\ IsInjective(plan)
         /\ ToSet(plan) \subseteq DOMAIN entries

Passes == /\ phase = "junk" => todo \cup ToSet(plan) \subseteq Junk(entries)
          /\ phase = "pairs" => todo \subseteq Blobs(entries)

Untouched == \A n \in todo : ToSet(Unit(entries, n)) \cap ToSet(plan) = {}

\* What the passes have left behind is planned or fresh, unless it fits.
JunkSeen ==
    \A n \in Junk(entries) :
        \/ n \in ToSet(plan) \/ Fresh(entries[n])
        \/ IF phase = "junk" THEN n \in todo ELSE Fits

BlobsSeen ==
    phase = "pairs" =>
        \A a \in Blobs(entries) :
            a \in todo \cup ToSet(plan) \/ Fresh(UnitMtime(entries, a))

Ordered ==
    phase = "pairs" =>
        \A a \in todo, b \in Blobs(entries) \cap ToSet(plan) :
            UnitMtime(entries, b) <= UnitMtime(entries, a)

PlanInv == Planning => /\ Exact /\ Passes /\ Untouched
                       /\ JunkSeen /\ BlobsSeen /\ Ordered

\* Junk goes alone, and is no blob and no blob's sidecar.
LEMMA JunkAlone ==
    ASSUME NEW d \in Directories, NEW n \in Junk(d)
    PROVE  /\ n \in DOMAIN d /\ n[2] # "bin"
           /\ ToSet(Unit(d, n)) = {n}
           /\ \A b \in Blobs(d) : n \notin ToSet(Unit(d, b))
           /\ \A b \in DOMAIN d : Sidecar(b) # n
<1>1. n \in DOMAIN d /\ DOMAIN d \subseteq Names
  BY DEF Junk, Directories
<1>2. n[2] # "bin"
  BY DEF Junk, IsSidecar
<1>3. \A b \in DOMAIN d : Sidecar(b) # n
  BY <1>1, SidecarOfOne DEF Junk
<1>4. \A b \in Blobs(d) : n \notin ToSet(Unit(d, b))
  BY <1>1, <1>2, <1>3, UnitFiles DEF Blobs
<1> QED BY <1>1, <1>2, <1>3, <1>4, UnitFiles

\* Two units of one pass share no file.
LEMMA UnitsApart ==
    ASSUME NEW d \in Directories, NEW a \in DOMAIN d, NEW b \in DOMAIN d, a # b,
           {a, b} \subseteq Junk(d) \/ {a, b} \subseteq Blobs(d)
    PROVE  ToSet(Unit(d, a)) \cap ToSet(Unit(d, b)) = {}
<1>1. CASE {a, b} \subseteq Junk(d)
  BY <1>1, JunkAlone
<1>2. CASE {a, b} \subseteq Blobs(d)
  <2>1. a[2] = "bin" /\ b[2] = "bin" /\ a \in Names /\ b \in Names
    BY <1>2 DEF Blobs, Directories
  <2>2. Sidecar(a) # b /\ Sidecar(b) # a /\ Sidecar(a) # Sidecar(b)
    BY <2>1, SidecarOfOne
  <2> QED BY <2>2, UnitFiles
<1> QED BY <1>1, <1>2

\* Planning one more unit.
LEMMA TakeKeepsPlan ==
    ASSUME QuotaTyped, PlanInv, NEW n \in Names, Take(n)
    PROVE  PlanInv'
<1> DEFINE unit == ToSet(Unit(entries, n))
           old  == ToSet(plan)
<1>1. /\ entries \in Directories /\ n \in todo /\ n \in DOMAIN entries
      /\ UNCHANGED entries /\ todo' = todo \ {n}
      /\ ToSet(plan') = old \cup unit
      /\ unit \subseteq DOMAIN entries
      /\ freed' = freed + UnitLen(entries, n)
  BY TakeType
<1>2. /\ phase \in {"junk", "pairs"} /\ phase' = phase
      /\ plan' = plan \o Unit(entries, n)
      /\ IsOldest(n)
      /\ ~Fits
  BY DEF Take
<1>3. /\ Exact /\ Passes /\ Untouched /\ JunkSeen /\ BlobsSeen /\ Ordered
      /\ unit \cap old = {}
      /\ DOMAIN entries \subseteq Names
  BY <1>1, <1>2 DEF PlanInv, Planning, Untouched, Directories
<1>4. Exact'
  <2>1. Bytes(old \cup unit) = Bytes(old) + Bytes(unit)
    BY <1>1, <1>3, BytesAssumption DEF Exact
  <2>2. IsInjective(plan')
    BY <1>1, <1>2, <1>3, UnitFiles, Joined DEF Exact, QuotaTyped
  <2> QED BY <1>1, <1>3, <2>1, <2>2 DEF Exact, UnitLen
<1>5. Passes'
  <2>1. n \in Junk(entries) => unit = {n}
    BY <1>1, JunkAlone
  <2> QED BY <1>1, <1>2, <1>3, <2>1 DEF Passes
<1>6. Untouched'
  <2> SUFFICES ASSUME NEW m \in todo \ {n}
               PROVE  ToSet(Unit(entries, m)) \cap (old \cup unit) = {}
    BY <1>1 DEF Untouched
  <2>1. m \in DOMAIN entries /\ ({m, n} \subseteq Junk(entries)
                                     \/ {m, n} \subseteq Blobs(entries))
    BY <1>1, <1>2, <1>3 DEF Passes, QuotaTyped, TypeOK
  <2> QED BY <1>1, <1>3, <2>1, UnitsApart DEF Untouched
<1>7. n \in unit
  BY <1>1, UnitFiles
<1>8. JunkSeen'
  BY <1>1, <1>2, <1>3, <1>7 DEF JunkSeen
<1>9. BlobsSeen'
  BY <1>1, <1>2, <1>3, <1>7 DEF BlobsSeen
<1>10. Ordered'
  <2> SUFFICES ASSUME phase = "pairs", NEW a \in todo \ {n},
                      NEW b \in Blobs(entries) \cap (old \cup unit)
               PROVE  UnitMtime(entries, b) <= UnitMtime(entries, a)
    BY <1>1, <1>2 DEF Ordered
  <2>1. CASE b \in old
    BY <1>3, <2>1 DEF Ordered
  <2>2. CASE b \in unit
    <3>1. n \in Blobs(entries)
      BY <1>1, <1>3 DEF Passes
    <3>2. b = n
      BY <1>1, <1>3, <2>2, <3>1, UnitFiles, SidecarOfOne DEF Blobs
    <3> QED BY <1>2, <3>2 DEF IsOldest
  <2> QED BY <2>1, <2>2
<1> QED BY <1>4, <1>5, <1>6, <1>8, <1>9, <1>10 DEF PlanInv

\* Passing over a fresh unit.
LEMMA SkipKeepsPlan ==
    ASSUME QuotaTyped, PlanInv, NEW n \in Names, Skip(n)
    PROVE  PlanInv'
<1>1. /\ entries \in Directories /\ n \in todo /\ n \in DOMAIN entries
      /\ phase \in {"junk", "pairs"} /\ ~Fits
      /\ Fresh(UnitMtime(entries, n))
      /\ todo' = todo \ {n}
      /\ UNCHANGED <<phase, entries, plan, freed>>
  BY DEF Skip, IsOldest, QuotaTyped, TypeOK, Planning
<1>2. /\ Exact /\ Passes /\ Untouched /\ JunkSeen /\ BlobsSeen /\ Ordered
  BY <1>1 DEF PlanInv, Planning
<1>3. Exact' /\ Passes' /\ Untouched' /\ Ordered' /\ BlobsSeen'
  BY <1>1, <1>2 DEF Exact, Passes, Untouched, Ordered, BlobsSeen
<1>4. JunkSeen'
  <2>1. n \in Junk(entries) => Fresh(entries[n])
    BY <1>1, UnitAge, JunkAlone
  <2> QED BY <1>1, <1>2, <2>1 DEF JunkSeen
<1> QED BY <1>3, <1>4 DEF PlanInv

\* The first pass ends and leaves the blobs to the second.
LEMMA EndPassKeepsPlan ==
    ASSUME QuotaTyped, PlanInv, EndPass
    PROVE  PlanInv'
<1> SUFFICES ASSUME phase = "junk" PROVE PlanInv'
  BY DEF EndPass, PlanInv, Planning
<1>1. /\ entries \in Directories
      /\ todo = {} \/ Fits
      /\ phase' = "pairs" /\ todo' = Blobs(entries)
      /\ UNCHANGED <<entries, plan, freed>>
  BY DEF EndPass, QuotaTyped, Planning
<1>2. Exact /\ Passes /\ JunkSeen
  BY DEF PlanInv, Planning
<1>3. Exact' /\ Passes' /\ JunkSeen' /\ BlobsSeen'
  BY <1>1, <1>2 DEF Exact, Passes, JunkSeen, BlobsSeen, Fits
<1>4. Untouched'
  BY <1>1, <1>2, JunkAlone DEF Untouched, Passes
<1>5. Ordered'
  BY <1>1, <1>2, JunkAlone DEF Ordered, Passes, Blobs
<1> QED BY <1>3, <1>4, <1>5 DEF PlanInv

\* An enforcement begins with an empty plan.
LEMMA ScanKeepsPlan ==
    ASSUME QuotaTyped, Scan
    PROVE  PlanInv'
<1>1. /\ phase' = "junk" /\ todo' = Junk(entries')
      /\ ToSet(plan') = {} /\ IsInjective(plan') /\ freed' = 0
  BY NothingPlanned DEF Scan
<1>2. Exact'
  BY <1>1, BytesOfNothing DEF Exact
<1>3. Passes' /\ Untouched' /\ JunkSeen' /\ BlobsSeen' /\ Ordered'
  BY <1>1 DEF Passes, Untouched, JunkSeen, BlobsSeen, Ordered
<1> QED BY <1>2, <1>3 DEF PlanInv

\* Every other step leaves the plan, and what it was made from, alone, or
\* belongs to its execution.
LEMMA PlanFrame ==
    ASSUME [Next]_vars
    PROVE  \/ UNCHANGED <<phase, entries, todo, plan, freed>>
           \/ \E n \in Names : Skip(n) \/ Take(n)
           \/ Scan \/ EndPass
           \/ ~Planning'
  BY DEF Next, Write, RemovedElsewhere, TurnEnds, WithinLimit, RemoveFile,
         RemoveFailed, Finish, Planning, vars, planVars

LEMMA PlanKept == Spec => [](QuotaTyped /\ PlanInv)
<1>1. Init => PlanInv
  BY DEF Init, PlanInv, Planning
<1>2. QuotaTyped /\ PlanInv /\ [Next]_vars => PlanInv'
  <2> SUFFICES ASSUME QuotaTyped, PlanInv, [Next]_vars PROVE PlanInv'
    OBVIOUS
  <2>1. CASE UNCHANGED <<phase, entries, todo, plan, freed>>
    BY <2>1 DEF PlanInv, Planning, Exact, Passes, Untouched, JunkSeen, BlobsSeen,
                Ordered, Fits
  <2>2. CASE ~Planning'
    BY <2>2 DEF PlanInv
  <2> QED
    BY <2>1, <2>2, PlanFrame, SkipKeepsPlan, TakeKeepsPlan, ScanKeepsPlan,
       EndPassKeepsPlan
<1> QED BY <1>1, <1>2, QuotaTypedAlways, PTL DEF Spec

\* u64 arithmetic never wraps: what is freed is the length of the files
\* planned, no file twice, and no more than the directory holds.
THEOREM FreedExactly == Spec => []FreedIsExact
<1>1. QuotaTyped /\ PlanInv => FreedIsExact
  <2> SUFFICES ASSUME QuotaTyped, PlanInv, Planning
               PROVE  /\ freed = Bytes(ToSet(plan))
                      /\ IsInjective(plan)
                      /\ freed <= Usage(entries)
    BY DEF FreedIsExact
  <2>1. Exact /\ DOMAIN entries \in SUBSET Names
    BY DEF PlanInv, QuotaTyped, TypeOK
  <2> QED BY <2>1, BytesMonotone DEF Exact, Usage
<1> QED BY <1>1, PlanKept, PTL

\* LRU: no blob is planned while an older pair that may go is kept.
THEOREM OldestGoFirst == Spec => []OldestFirst
<1>1. QuotaTyped /\ PlanInv => OldestFirst
  <2> SUFFICES ASSUME QuotaTyped, PlanInv, Planning,
                      NEW a \in Blobs(entries), NEW b \in Blobs(entries),
                      b \in ToSet(plan), a \notin ToSet(plan)
               PROVE  \/ UnitMtime(entries, a) >= UnitMtime(entries, b)
                      \/ Fresh(UnitMtime(entries, a))
    BY DEF OldestFirst
  <2>1. entries \in Directories /\ a \in DOMAIN entries /\ b \in DOMAIN entries
    BY DEF QuotaTyped, Blobs
  <2>2. phase = "pairs"
    BY <2>1, JunkAlone DEF Planning, PlanInv, Passes, Blobs
  <2>3. a \in todo \/ Fresh(UnitMtime(entries, a))
    BY <2>2 DEF PlanInv, Planning, BlobsSeen
  <2>4. UnitMtime(entries, a) \in Nat /\ UnitMtime(entries, b) \in Nat
    BY <2>1, UnitAge
  <2> QED BY <2>2, <2>3, <2>4 DEF PlanInv, Planning, Ordered
<1> QED BY <1>1, PlanKept, PTL

\* How a plan grows: not at all, from nothing, or by one unit that was to be
\* looked at, out of its grace period, while the rest did not fit.
LEMMA PlanGrows ==
    ASSUME QuotaTyped, PlanInv, [Next]_vars, Planning'
    PROVE  \/ Planning /\ UNCHANGED <<entries, plan, freed>>
           \/ plan' = <<>>
           \/ \E n \in todo :
                  /\ Planning /\ UNCHANGED entries /\ entries \in Directories
                  /\ n \in Junk(entries) \cup Blobs(entries)
                  /\ ~Fits /\ ~Fresh(UnitMtime(entries, n))
                  /\ plan' = plan \o Unit(entries, n)
                  /\ freed' = freed + UnitLen(entries, n)
<1>1. CASE UNCHANGED <<phase, entries, todo, plan, freed>>
  BY <1>1 DEF Planning
<1>2. ASSUME NEW n \in Names, Skip(n)
      PROVE  Planning /\ UNCHANGED <<entries, plan, freed>>
  BY <1>2 DEF Skip, Planning
<1>3. ASSUME NEW n \in Names, Take(n)
      PROVE  /\ n \in todo
             /\ Planning /\ UNCHANGED entries /\ entries \in Directories
             /\ n \in Junk(entries) \cup Blobs(entries)
             /\ ~Fits /\ ~Fresh(UnitMtime(entries, n))
             /\ plan' = plan \o Unit(entries, n)
             /\ freed' = freed + UnitLen(entries, n)
  BY <1>3, TakeType DEF Take, Planning, PlanInv, Passes
<1>4. CASE Scan
  BY <1>4 DEF Scan
<1>5. CASE EndPass
  BY <1>5 DEF EndPass, Planning
<1> QED BY <1>1, <1>2, <1>3, <1>4, <1>5, PlanFrame

\* "Never orphan the sidecar": blob and sidecar are planned together.
THEOREM PairsPlannedTogether == Spec => []PairsTogether
<1>1. Init => PairsTogether
  BY DEF Init, PairsTogether, Planning
<1>2. QuotaTyped /\ PlanInv /\ PairsTogether /\ [Next]_vars => PairsTogether'
  <2> SUFFICES ASSUME QuotaTyped, PlanInv, PairsTogether, [Next]_vars, Planning'
               PROVE  PairsTogether'
    BY DEF PairsTogether
  <2>1. CASE Planning /\ UNCHANGED <<entries, plan, freed>>
    BY <2>1 DEF PairsTogether
  <2>2. CASE plan' = <<>>
    BY <2>2, NothingPlanned DEF PairsTogether
  <2>3. ASSUME NEW n \in todo,
               Planning /\ UNCHANGED entries /\ entries \in Directories,
               n \in Junk(entries) \cup Blobs(entries),
               plan' = plan \o Unit(entries, n)
        PROVE  PairsTogether'
    <3>1. n \in DOMAIN entries /\ DOMAIN entries \subseteq Names
      BY <2>3 DEF QuotaTyped, TypeOK
    <3>2. ToSet(plan') = ToSet(plan) \cup ToSet(Unit(entries, n))
      BY <2>3, <3>1, UnitFiles, Joined DEF QuotaTyped
    <3>3. ASSUME NEW b \in Blobs(entries), Sidecar(b) \in DOMAIN entries
          PROVE  b \in ToSet(Unit(entries, n)) <=> Sidecar(b) \in ToSet(Unit(entries, n))
      <4>0. b \in DOMAIN entries /\ b[2] = "bin"
        BY DEF Blobs
      <4>1. CASE n \in Junk(entries)
        BY <2>3, <3>3, <4>0, <4>1, JunkAlone
      <4>2. CASE n \in Blobs(entries)
        <5>1. n[2] = "bin"
          BY <4>2 DEF Blobs
        <5>2. /\ Sidecar(b) # n /\ Sidecar(n) # b
              /\ Sidecar(b) = Sidecar(n) => b = n
          BY <3>1, <4>0, <5>1, SidecarOfOne
        <5> QED BY <2>3, <3>1, <3>3, <4>0, <5>1, <5>2, UnitFiles
      <4> QED BY <2>3, <4>1, <4>2
    <3> QED BY <2>3, <3>2, <3>3 DEF PairsTogether
  <2> QED BY <2>1, <2>2, <2>3, PlanGrows
<1> QED BY <1>1, <1>2, PlanKept, PTL DEF Spec

\* A complete plan reaches the limit, or everything it leaves is fresh, half
\* of a fresh pair, or a scratch file's sidecar.
LEMMA PlanReaches ==
    ASSUME QuotaTyped, PlanInv, PairsTogether
    PROVE  ReachesLimit
<1> SUFFICES ASSUME PlanComplete, ~Fits, NEW n \in DOMAIN entries \ ToSet(plan)
             PROVE  Spared(n)
  BY DEF ReachesLimit
<1>1. phase = "pairs" /\ todo = {} /\ JunkSeen /\ BlobsSeen /\ Planning
  BY DEF PlanComplete, PlanInv, Planning
<1>2. n \in Names /\ n[2] \in Kinds
  BY NamesAssumption DEF QuotaTyped, TypeOK
<1>3. CASE n \in Junk(entries)
  BY <1>1, <1>3 DEF JunkSeen, Spared
<1>4. CASE n \in Blobs(entries)
  BY <1>1, <1>4 DEF BlobsSeen, Blobs, Spared
<1>5. CASE IsSidecar(n) /\ n \notin Junk(entries)
  <2>1. PICK b \in DOMAIN entries : Sidecar(b) = n
    BY <1>5 DEF Junk
  <2>2. b[2] \in {"bin", "save"}
    BY <1>5, <2>1, NamesAssumption DEF Sidecar, IsSidecar, Kinds, QuotaTyped, TypeOK
  <2>3. ASSUME b[2] = "bin" PROVE Fresh(UnitMtime(entries, b))
    <3>1. b \in Blobs(entries)
      BY <2>3 DEF Blobs
    <3>2. b \notin ToSet(plan)
      BY <1>1, <2>1, <3>1 DEF PairsTogether
    <3> QED BY <1>1, <3>1, <3>2 DEF BlobsSeen
  <2> QED BY <2>1, <2>2, <2>3 DEF Spared
<1> QED BY <1>2, <1>3, <1>4, <1>5 DEF Kinds, Junk, Blobs, IsSidecar

THEOREM LimitReached == Spec => []ReachesLimit
BY PlanReaches, PlanKept, PairsPlannedTogether, PTL

\* What an enforcement may rely on while nobody writes and every file can be
\* removed: the directory has no file it did not read, and what it has not
\* planned fits or may stay.
Left == DOMAIN dir \ ToSet(plan)

Undisturbed ==
    ~disturbed =>
        /\ Planning \/ phase = "delete" => DOMAIN dir \subseteq DOMAIN entries
        /\ phase = "delete" => Bytes(Left) <= Limit \/ \A n \in Left : Spared(n)

LEMMA SparedKept ==
    ASSUME UNCHANGED entries
    PROVE  \A n : Spared(n)' <=> Spared(n)
BY DEF Spared, UnitMtime, Unit

\* Where less is left, it still fits or may stay.
LEMMA LessLeft ==
    ASSUME QuotaTyped, Undisturbed, ~disturbed, phase = "delete",
           ToSet(plan') \subseteq Names, Left' \subseteq Left, UNCHANGED entries
    PROVE  Bytes(Left') <= Limit \/ \A n \in Left' : Spared(n)'
<1>1. /\ DOMAIN dir \subseteq Names
      /\ Left \in SUBSET Names
  BY DEF QuotaTyped, TypeOK, Directories, Left
<1>2. Bytes(Left') <= Bytes(Left) /\ Bytes(Left') \in Nat /\ Bytes(Left) \in Nat
  BY <1>1, BytesMonotone
<1>3. CASE Bytes(Left) <= Limit
  BY <1>2, <1>3, NumberAssumption
<1>4. CASE \A n \in Left : Spared(n)
  BY <1>4, SparedKept
<1> QED BY <1>3, <1>4 DEF Undisturbed

LEMMA UndisturbedAlways == Spec => []Undisturbed
<1>1. Init => Undisturbed
  BY DEF Init, Undisturbed, Planning
<1>2. QuotaTyped /\ PlanInv /\ FreedIsExact /\ ReachesLimit /\ Undisturbed /\ [Next]_vars
          => Undisturbed'
  <2> SUFFICES ASSUME QuotaTyped, PlanInv, FreedIsExact, ReachesLimit, Undisturbed,
                      [Next]_vars, ~disturbed'
               PROVE  Undisturbed'
    BY DEF Undisturbed
  <2> USE DEF Planning
  <2>1. CASE UNCHANGED <<dir, phase, entries, plan, disturbed>>
    <3>1. Left' = Left
      BY <2>1 DEF Left
    <3> QED BY <2>1, <3>1, SparedKept DEF Undisturbed
  <2>2. ASSUME NEW n \in Names, Write(n) PROVE Undisturbed'
    BY <2>2 DEF Write, Undisturbed
  <2>3. ASSUME NEW n \in Names, RemovedElsewhere(n) PROVE Undisturbed'
    <3>1. /\ DOMAIN dir' = DOMAIN dir \ {n}
          /\ UNCHANGED <<phase, entries, plan, disturbed>>
      BY <2>3 DEF RemovedElsewhere, planVars
    <3>2. Left' \subseteq Left /\ ToSet(plan') \subseteq Names
      BY <3>1 DEF Left, QuotaTyped, TypeOK
    <3> QED BY <3>1, <3>2, LessLeft DEF Undisturbed
  <2>4. ASSUME NEW n \in Names, Skip(n) \/ Take(n) PROVE Undisturbed'
    BY <2>4 DEF Skip, Take, Undisturbed
  <2>5. CASE Scan
    BY <2>5 DEF Scan, Undisturbed
  <2>6. CASE EndPass
    <3>1. /\ UNCHANGED <<dir, entries, plan, freed, disturbed>>
          /\ phase \in {"junk", "pairs"} /\ phase' \in {"pairs", "delete"}
          /\ phase' = "delete" => PlanComplete
      BY <2>6 DEF EndPass, PlanComplete
    <3>2. DOMAIN dir \subseteq DOMAIN entries
      BY <3>1 DEF Undisturbed
    <3>3. ASSUME phase' = "delete"
          PROVE  Bytes(Left') <= Limit \/ \A n \in Left' : Spared(n)'
      <4>1. Left' = Left
        BY <3>1 DEF Left
      <4>2. \A n : Spared(n)' <=> Spared(n)
        BY <3>1, SparedKept
      <4>3. CASE Fits
        <5>1. /\ DOMAIN entries \in SUBSET Names /\ ToSet(plan) \subseteq DOMAIN entries
          BY <3>1 DEF QuotaTyped, TypeOK, PlanInv, Exact
        <5> DEFINE kept == DOMAIN entries \ ToSet(plan)
        <5>2. kept \in SUBSET Names /\ Left \in SUBSET kept
          BY <3>2, <5>1 DEF Left
        <5>3. Bytes(Left) <= Bytes(kept) /\ Bytes(kept) \in Nat /\ Bytes(Left) \in Nat
          BY <5>2, BytesMonotone
        <5>4. Bytes(DOMAIN entries) = Bytes(ToSet(plan)) + Bytes(kept)
          <6>1. /\ ToSet(plan) \in SUBSET Names /\ kept \in SUBSET (Names \ ToSet(plan))
                /\ ToSet(plan) \cup kept = DOMAIN entries
            BY <5>1
          <6> QED BY <6>1, BytesAssumption
        <5>5. freed = Bytes(ToSet(plan)) /\ freed \in Nat
          BY <3>1 DEF FreedIsExact, QuotaTyped, TypeOK
        <5>6. Bytes(kept) <= Limit
          <6> HIDE DEF kept
          <6> QED BY <4>3, <5>3, <5>4, <5>5, NumberAssumption DEF Fits, Usage
        <5> QED BY <4>1, <5>3, <5>6, NumberAssumption
      <4>4. CASE ~Fits
        BY <3>1, <3>2, <3>3, <4>1, <4>2, <4>4 DEF ReachesLimit, Left
      <4> QED BY <4>3, <4>4
    <3> QED BY <3>1, <3>2, <3>3 DEF Undisturbed
  <2>7. CASE RemoveFile \/ RemoveFailed
    <3>1. /\ phase = "delete" /\ plan # <<>> /\ plan \in Seq(Names)
          /\ plan' = Tail(plan) /\ UNCHANGED <<phase, entries>>
          /\ ~disturbed
          /\ DOMAIN dir' = DOMAIN dir \ {Head(plan)}
      BY <2>7 DEF RemoveFile, RemoveFailed, QuotaTyped, TypeOK
    <3>2. /\ ToSet(plan) = {Head(plan)} \cup ToSet(plan')
          /\ ToSet(plan') \subseteq Names
      BY <3>1, HeadAndTail, TailType
    <3>3. Left' \subseteq Left
      BY <3>1, <3>2 DEF Left
    <3> QED BY <3>1, <3>2, <3>3, LessLeft DEF Undisturbed
  <2>8. CASE Finish \/ TurnEnds \/ WithinLimit
    BY <2>8 DEF Finish, TurnEnds, WithinLimit, Undisturbed
  <2> QED
    BY <2>1, <2>2, <2>3, <2>4, <2>5, <2>6, <2>7, <2>8 DEF Next, vars, planVars
<1> QED
  BY <1>1, <1>2, QuotaTypedAlways, PlanKept, FreedExactly, LimitReached, PTL DEF Spec

\* One enforcement is enough, for any directory, lengths and limit, whatever
\* other enforcements remove meanwhile: with no file written and no removal
\* failing, what it leaves fits, or may stay.
THEOREM OneEnforcementSuffices == Spec => []EnforcementSuffices
<1>1. QuotaTyped /\ Undisturbed => EnforcementSuffices
  <2> SUFFICES ASSUME QuotaTyped, Undisturbed, phase = "delete", plan = <<>>, ~disturbed
               PROVE  Usage(dir) <= Limit \/ \A n \in DOMAIN dir : Spared(n)
    BY DEF EnforcementSuffices
  <2>1. Left = DOMAIN dir
    BY NothingPlanned DEF Left
  <2> QED BY <2>1 DEF Undisturbed, Usage
<1> QED BY <1>1, QuotaTypedAlways, UndisturbedAlways, PTL

\* The grace period: no planned file, and no other half of a planned pair,
\* was written or served within it when the directory was read.
THEOREM GraceAlwaysHonoured == Spec => []GraceHonoured
<1>1. Init => GraceHonoured
  BY DEF Init, GraceHonoured, Planning
<1>2. QuotaTyped /\ PlanInv /\ GraceHonoured /\ [Next]_vars => GraceHonoured'
  <2> SUFFICES ASSUME QuotaTyped, PlanInv, GraceHonoured, [Next]_vars, Planning'
               PROVE  GraceHonoured'
    BY DEF GraceHonoured
  <2>1. CASE Planning /\ UNCHANGED <<entries, plan, freed>>
    BY <2>1 DEF GraceHonoured
  <2>2. CASE plan' = <<>>
    BY <2>2, NothingPlanned DEF GraceHonoured
  <2>3. ASSUME NEW n \in todo,
               Planning /\ UNCHANGED entries /\ entries \in Directories,
               ~Fresh(UnitMtime(entries, n)),
               plan' = plan \o Unit(entries, n)
        PROVE  GraceHonoured'
    <3>1. n \in DOMAIN entries
      BY DEF QuotaTyped, TypeOK
    <3>2. ToSet(plan') = ToSet(plan) \cup ToSet(Unit(entries, n))
      BY <2>3, <3>1, UnitFiles, Joined DEF QuotaTyped
    <3>3. \A m \in ToSet(Unit(entries, n)) : ~Fresh(entries[m])
      BY <2>3, <3>1, UnitAge, FreshMonotone
    <3> QED BY <2>3, <3>2, <3>3 DEF GraceHonoured
  <2> QED BY <2>1, <2>2, <2>3, PlanGrows
<1> QED BY <1>1, <1>2, PlanKept, PTL DEF Spec

\* "Stops as soon as projected usage <= limit": without its last unit no plan
\* reaches the limit.
THEOREM LimitStops == Spec => []StopsAtLimit
<1>1. Init => StopsAtLimit
  BY DEF Init, StopsAtLimit, Planning
<1>2. QuotaTyped /\ PlanInv /\ StopsAtLimit /\ [Next]_vars => StopsAtLimit'
  <2> SUFFICES ASSUME QuotaTyped, PlanInv, StopsAtLimit, [Next]_vars, Planning'
               PROVE  StopsAtLimit'
    BY DEF StopsAtLimit
  <2>1. CASE Planning /\ UNCHANGED <<entries, plan, freed>>
    BY <2>1 DEF StopsAtLimit
  <2>2. CASE plan' = <<>>
    BY <2>2 DEF StopsAtLimit
  <2>3. ASSUME NEW n \in todo,
               Planning /\ UNCHANGED entries /\ entries \in Directories,
               n \in Junk(entries) \cup Blobs(entries),
               ~Fits,
               plan' = plan \o Unit(entries, n),
               freed' = freed + UnitLen(entries, n)
        PROVE  StopsAtLimit'
    <3> DEFINE unit == Unit(entries, n)
               l    == Last(unit)
               last == {l} \cup {b \in Blobs(entries) : Sidecar(b) = l}
    <3>1. n \in DOMAIN entries /\ DOMAIN entries \subseteq Names
      BY <2>3 DEF QuotaTyped, TypeOK
    <3>2. Last(plan') = l
      BY <2>3, <3>1, UnitFiles, Joined DEF QuotaTyped
    <3>3. last = ToSet(unit)
      <4>1. CASE n[2] = "bin" /\ Sidecar(n) \in DOMAIN entries
        <5>1. l = Sidecar(n) /\ ToSet(unit) = {n, l}
          BY <2>3, <3>1, <4>1, UnitFiles DEF Unit, Last
        <5>2. n \in Blobs(entries)
          BY <3>1, <4>1 DEF Blobs
        <5>3. \A b \in Blobs(entries) : Sidecar(b) = l => b = n
          BY <3>1, <5>1, SidecarOfOne DEF Blobs
        <5> QED BY <5>1, <5>2, <5>3
      <4>2. CASE ~(n[2] = "bin" /\ Sidecar(n) \in DOMAIN entries)
        <5>1. l = n /\ ToSet(unit) = {n}
          BY <2>3, <3>1, <4>2, UnitFiles DEF Unit, Last
        <5>2. \A b \in Blobs(entries) : Sidecar(b) # n
          BY <2>3, <3>1, SidecarOfOne, JunkAlone DEF Blobs
        <5> QED BY <5>1, <5>2
      <4> QED BY <4>1, <4>2
    <3>4. /\ freed \in Nat /\ Usage(entries) \in Nat
          /\ Bytes(last) = UnitLen(entries, n) /\ Bytes(last) \in Nat
      <4>1. ToSet(unit) \subseteq Names
        BY <2>3, <3>1, UnitFiles
      <4> QED BY <3>1, <3>3, <4>1, BytesAssumption
              DEF QuotaTyped, TypeOK, Usage, UnitLen
    <3>5. Usage(entries) - freed > Limit
      BY <2>3, <3>4, NumberAssumption DEF Fits
    <3>6. Usage(entries) - (freed + UnitLen(entries, n)) + Bytes(last) > Limit
      BY <3>4, <3>5, NumberAssumption
    <3> HIDE DEF l
    <3> QED BY <2>3, <3>2, <3>6 DEF StopsAtLimit
  <2> QED BY <2>1, <2>2, <2>3, PlanGrows
<1> QED BY <1>1, <1>2, PlanKept, PTL DEF Spec
=============================================================================
