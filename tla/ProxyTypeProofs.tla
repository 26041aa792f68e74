--------------------------- MODULE ProxyTypeProofs ---------------------------
(***************************************************************************)
(* Every reachable state of Proxy is well typed, for any turns, sessions   *)
(* and slots, any traffic, faults, departures and crashes.  First what     *)
(* each operation of the composed modules preserves, then what the ways    *)
(* to update a turn preserve, then each step of the request path.          *)
(***************************************************************************)
EXTENDS Proxy, TLAPS

-----------------------------------------------------------------------------
(***************************************************************************)
(* The operations of the backend, the cache directory and the registry.    *)
(***************************************************************************)

\* The backend's slots hold KV and serve at most one turn each.
LEMMA ServerType ==
    ASSUME ServerTypeOK
    PROVE  /\ \A r \in Reqs, i \in SlotIds : StartDecode(i, r) => ServerTypeOK'
           /\ \A r \in Reqs : EndDecode(r) => ServerTypeOK'
           /\ \A i \in SlotIds, c \in Contents : LoadSlot(i, c) => ServerTypeOK'
           /\ ServerRestart => ServerTypeOK'
<1> USE DEF ServerTypeOK, Contents
<1>1. ASSUME NEW r \in Reqs, NEW i \in SlotIds, StartDecode(i, r)
      PROVE  ServerTypeOK'
  BY <1>1 DEF StartDecode
<1>2. ASSUME NEW r \in Reqs, EndDecode(r) PROVE ServerTypeOK'
  BY <1>2 DEF EndDecode
<1>3. ASSUME NEW i \in SlotIds, NEW c \in Contents, LoadSlot(i, c)
      PROVE  ServerTypeOK'
  BY <1>3 DEF LoadSlot
<1>4. ASSUME ServerRestart PROVE ServerTypeOK'
  BY <1>4 DEF ServerRestart
<1> QED BY <1>1, <1>2, <1>3, <1>4

\* The directory's paths hold complete files, torn files or nothing.
LEMMA DirType ==
    ASSUME DirTypeOK
    PROVE  /\ \A s \in Sessions : OpenScratch(s) \/ RenameScratch(s) => DirTypeOK'
           /\ \A s \in Sessions, c \in Contents : CloseScratch(s, c) => DirTypeOK'
           /\ \A files : Remove(files) => DirTypeOK'
<1> USE DEF DirTypeOK, Files
<1>1. ASSUME NEW s \in Sessions, OpenScratch(s) PROVE DirTypeOK'
  BY <1>1 DEF OpenScratch
<1>2. ASSUME NEW s \in Sessions, RenameScratch(s) PROVE DirTypeOK'
  BY <1>2 DEF RenameScratch
<1>3. ASSUME NEW s \in Sessions, NEW c \in Contents, CloseScratch(s, c)
      PROVE  DirTypeOK'
  BY <1>3 DEF CloseScratch
<1>4. ASSUME NEW files, Remove(files) PROVE DirTypeOK'
  BY <1>4 DEF Remove
<1> QED BY <1>1, <1>2, <1>3, <1>4

\* The registry's operations keep every slot a SlotInfo.
LEMMA SlotsType ==
    ASSUME RegistryTypeOK, NEW i \in SlotIds
    PROVE  /\ \A s \in Sessions : MarkDirty(i, s) \/ Claim(i, s) => RegistryTypeOK'
           /\ MarkClean(i) \/ Abandon(i) => RegistryTypeOK'
<1>1. ASSUME NEW s \in Sessions, MarkDirty(i, s) PROVE RegistryTypeOK'
  BY <1>1 DEF MarkDirty, RegistryTypeOK, SlotInfo
<1>2. ASSUME NEW s \in Sessions, Claim(i, s) PROVE RegistryTypeOK'
  BY <1>2 DEF Claim, RegistryTypeOK, SlotInfo
<1>3. ASSUME MarkClean(i) PROVE RegistryTypeOK'
  BY <1>3 DEF MarkClean, RegistryTypeOK, SlotInfo
<1>4. ASSUME Abandon(i) PROVE RegistryTypeOK'
  BY <1>4 DEF Abandon, RegistryTypeOK, SlotInfo, Unclaimed
<1> QED BY <1>1, <1>2, <1>3, <1>4

-----------------------------------------------------------------------------
(***************************************************************************)
(* The ways a step updates its turn.                                       *)
(***************************************************************************)

\* A turn that starts over with its session is a turn.
LEMMA FreshType ==
    ASSUME NEW s \in Sessions \cup {None}
    PROVE  /\ Fresh(s) \in Turn
           /\ Fresh(s).session = s
           /\ Fresh(s).steer = None
  BY DEF Fresh, Turn

\* A turn that is where passed-through requests never are has a session.
LEMMA Keyed ==
    ASSUME TurnsOK, NEW r \in Reqs, pc[r] \notin Sessionless
    PROVE  turn[r].session \in Sessions
  BY DEF TurnsOK, LocalsOK, Turn

\* r goes to l and its locals become t.
LEMMA PutTurn ==
    ASSUME TurnsOK, NEW r \in Reqs, NEW t \in Turn, NEW l \in PCs,
           Goto(r, l), turn' = [turn EXCEPT ![r] = t],
           t.session = None => l \in Sessionless /\ t.steer = None,
           l \in Steered => t.steer \in SlotIds,
           l \in Named => t.name \in Sessions
    PROVE  TurnsOK'
  BY DEF TurnsOK, Goto, LocalsOK

\* r goes to l and its locals stay.
LEMMA MoveTurn ==
    ASSUME TurnsOK, NEW r \in Reqs, NEW l \in PCs, Goto(r, l), UNCHANGED turn,
           pc[r] \in Sessionless => l \in Sessionless,
           l \in Steered => turn[r].steer \in SlotIds,
           l \in Named => turn[r].name \in Sessions
    PROVE  TurnsOK'
  BY DEF TurnsOK, Goto, LocalsOK

\* r goes to l and one of its locals changes.
LEMMA SetSteer ==
    ASSUME TurnsOK, NEW r \in Reqs, NEW l \in PCs, Goto(r, l),
           turn[r].session \in Sessions,
           NEW i \in SlotIds, Set(r, "steer", i), l \notin Named
    PROVE  TurnsOK'
<1>1. /\ [turn[r] EXCEPT !.steer = i] \in Turn
      /\ [turn[r] EXCEPT !.steer = i].steer = i
      /\ [turn[r] EXCEPT !.steer = i].session = turn[r].session
  BY DEF TurnsOK, Turn
<1> QED BY <1>1, PutTurn, NoneAssumption DEF Set, TurnsOK, LocalsOK

LEMMA SetName ==
    ASSUME TurnsOK, NEW r \in Reqs, NEW l \in PCs, Goto(r, l),
           turn[r].session \in Sessions,
           NEW s \in Sessions \cup {None}, Set(r, "name", s),
           l \in Steered => turn[r].steer \in SlotIds,
           l \in Named => s \in Sessions
    PROVE  TurnsOK'
<1>1. /\ [turn[r] EXCEPT !.name = s] \in Turn
      /\ [turn[r] EXCEPT !.name = s].name = s
      /\ [turn[r] EXCEPT !.name = s].steer = turn[r].steer
      /\ [turn[r] EXCEPT !.name = s].session = turn[r].session
  BY DEF TurnsOK, Turn
<1> QED BY <1>1, PutTurn, NoneAssumption DEF Set, TurnsOK, LocalsOK

LEMMA SetSeen ==
    ASSUME TurnsOK, NEW r \in Reqs, NEW l \in PCs, Goto(r, l),
           turn[r].session \in Sessions,
           NEW S \in SUBSET SlotIds, Set(r, "seen", S), l \notin Steered \cup Named
    PROVE  TurnsOK'
<1>1. /\ [turn[r] EXCEPT !.seen = S] \in Turn
      /\ [turn[r] EXCEPT !.seen = S].session = turn[r].session
  BY DEF TurnsOK, Turn
<1> QED BY <1>1, PutTurn, NoneAssumption DEF Set, TurnsOK, LocalsOK

LEMMA SetFlag ==
    ASSUME TurnsOK, NEW r \in Reqs, NEW l \in PCs, Goto(r, l),
           turn[r].session \in Sessions,
           \E b \in BOOLEAN : Set(r, "hit", b) \/ Set(r, "post", b),
           l \in Steered => turn[r].steer \in SlotIds,
           l \notin Named
    PROVE  TurnsOK'
<1>1. ASSUME NEW b \in BOOLEAN, Set(r, "hit", b) PROVE TurnsOK'
  <2>1. /\ [turn[r] EXCEPT !.hit = b] \in Turn
        /\ [turn[r] EXCEPT !.hit = b].steer = turn[r].steer
        /\ [turn[r] EXCEPT !.hit = b].session = turn[r].session
    BY DEF TurnsOK, Turn
  <2> QED BY <1>1, <2>1, PutTurn, NoneAssumption DEF Set, TurnsOK, LocalsOK
<1>2. ASSUME NEW b \in BOOLEAN, Set(r, "post", b) PROVE TurnsOK'
  <2>1. /\ [turn[r] EXCEPT !.post = b] \in Turn
        /\ [turn[r] EXCEPT !.post = b].steer = turn[r].steer
        /\ [turn[r] EXCEPT !.post = b].session = turn[r].session
    BY DEF TurnsOK, Turn
  <2> QED BY <1>2, <2>1, PutTurn, NoneAssumption DEF Set, TurnsOK, LocalsOK
<1> QED BY <1>1, <1>2

\* r is over: nothing but its session stays.
LEMMA RetireTurn ==
    ASSUME TurnsOK, NEW r \in Reqs, NEW l \in Terminal \cup {"drop"},
           Retire(r, l)
    PROVE  TurnsOK'
<1>1. turn[r].session \in Sessions \cup {None}
  BY DEF TurnsOK, Turn
<1>2. l \in (PCs \cap Sessionless) \ (Steered \cup Named)
  BY DEF PCs, Terminal, Detached, Steered, Named, Saving, Sessionless
<1> QED BY <1>1, <1>2, FreshType, PutTurn DEF Retire

-----------------------------------------------------------------------------
(***************************************************************************)
(* The steps.                                                              *)
(***************************************************************************)

\* Lookup, eviction and placement are well typed.
LEMMA AdmissionType ==
    ASSUME TypeOK, NEW r \in Reqs, Admission(r)
    PROVE  TypeOK'
<1> USE DEF TypeOK, At, GateTypeOK, gateVars, serverVars, dirVars
<1> USE DEF PCs, Saving, Matching, Detached, Terminal, Steered, Named, Sessionless
<1>0. /\ TurnsOK
      /\ turn[r].session \in Sessions /\ turn[r].session # None
      /\ AfterPlacement(r) \in {"restore", "mark"}
  BY Keyed, NoneAssumption
  DEF Admission, MatchHot, MatchCold, PickQuery, PickError, Choose, EvictQuery,
      EvictError, Victim, Restore, Mark, AfterPlacement
<1>1. CASE MatchHot(r)
  <2>1. PICK i \in SlotIds : Set(r, "steer", i)
    BY <1>1 DEF MatchHot, HotSlots
  <2>2. TurnsOK'
    BY <1>0, <1>1, <2>1, SetSteer DEF MatchHot
  <2> QED BY <1>1, <2>2 DEF MatchHot, RegistryTypeOK, ServerTypeOK, DirTypeOK
<1>2. CASE MatchCold(r)
  <2>1. TurnsOK'
    BY <1>0, <1>2, SetFlag DEF MatchCold, Exists
  <2> QED BY <1>2, <2>1 DEF MatchCold, AcquireShared, RegistryTypeOK, ServerTypeOK, DirTypeOK
<1>3. CASE PickQuery(r)
  <2>1. TurnsOK'
    BY <1>0, <1>3, SetSeen DEF PickQuery, Processing
  <2> QED BY <1>3, <2>1 DEF PickQuery, RegistryTypeOK, ServerTypeOK, DirTypeOK
<1>4. CASE PickError(r)
  <2>1. TurnsOK'
    BY <1>0, <1>4, MoveTurn DEF PickError
  <2> QED BY <1>4, <2>1 DEF PickError, ReleaseShared, RegistryTypeOK, ServerTypeOK, DirTypeOK
<1>5. CASE Choose(r)
  <2>1. TurnsOK'
    <3>1. CASE FreeSlots(turn[r].seen) = {}
      BY <1>0, <1>5, <3>1, SetSeen DEF Choose
    <3>2. ASSUME NEW i \in FreeSlots(turn[r].seen),
                 turn' = [turn EXCEPT ![r] = [@ EXCEPT !.steer = i, !.seen = {}]],
                 Goto(r, AfterPlacement(r))
          PROVE  TurnsOK'
      <4> DEFINE t == [turn[r] EXCEPT !.steer = i, !.seen = {}]
      <4>1. i \in SlotIds
        BY DEF FreeSlots
      <4>2. t \in Turn /\ t.session = turn[r].session /\ t.steer = i
        BY <1>0, <4>1 DEF TurnsOK, Turn
      <4> QED BY <1>0, <1>5, <3>2, <4>1, <4>2, PutTurn DEF Choose
    <3> QED BY <1>5, <3>1, <3>2 DEF Choose
  <2> QED BY <1>5, <2>1 DEF Choose, ReleaseShared, RegistryTypeOK, ServerTypeOK, DirTypeOK
<1>6. CASE EvictQuery(r)
  <2>1. TurnsOK'
    BY <1>0, <1>6, SetSeen DEF EvictQuery, Processing
  <2> QED BY <1>6, <2>1 DEF EvictQuery, RegistryTypeOK, ServerTypeOK, DirTypeOK
<1>7. CASE EvictError(r)
  <2>1. TurnsOK'
    BY <1>0, <1>7, MoveTurn DEF EvictError
  <2> QED BY <1>7, <2>1 DEF EvictError, RegistryTypeOK, ServerTypeOK, DirTypeOK
<1>8. CASE Victim(r)
  <2>1. TurnsOK'
    <3>1. CASE EvictableSlots(turn[r].seen) = {}
      BY <1>0, <1>8, <3>1, SetSeen DEF Victim
    <3>2. ASSUME NEW i \in EvictableSlots(turn[r].seen), VictimName(r, i),
                 Goto(r, IF slots[i].session = None THEN AfterPlacement(r)
                                                    ELSE "gate")
          PROVE  TurnsOK'
      <4> DEFINE n == slots[i].session
                 t == [turn[r] EXCEPT !.seen = {}, !.steer = i, !.name = n]
      <4>1. i \in SlotIds /\ n \in Sessions \cup {None}
        BY DEF EvictableSlots, RegistryTypeOK, SlotInfo
      <4>2. /\ t \in Turn
            /\ t.session = turn[r].session /\ t.steer = i /\ t.name = n
        BY <1>0, <4>1 DEF TurnsOK, Turn
      <4>3. turn' = [turn EXCEPT ![r] = t]
        BY <3>2 DEF VictimName
      <4>4. turn[r].session \in Sessions
        BY <1>0, <1>8 DEF Victim
      <4>5. CASE n = None
        BY <1>0, <3>2, <4>1, <4>2, <4>3, <4>4, <4>5, PutTurn
      <4>6. CASE n # None
        BY <1>0, <3>2, <4>1, <4>2, <4>3, <4>4, <4>6, PutTurn
      <4> QED BY <4>5, <4>6
    <3> QED BY <1>8, <3>1, <3>2 DEF Victim
  <2> QED BY <1>8, <2>1 DEF Victim, RegistryTypeOK, ServerTypeOK, DirTypeOK
<1>9. CASE Restore(r)
  <2>1. TurnsOK'
    BY <1>0, <1>9, MoveTurn DEF Restore, TurnsOK, LocalsOK
  <2>2. PICK c : LoadSlot(turn[r].steer, c) /\ c \in Contents
    <3>1. turn[r].steer \in SlotIds
      BY <1>0, <1>9 DEF Restore, TurnsOK, LocalsOK
    <3>2. Loadable(turn[r].session) => blob[turn[r].session] \in Contents
      BY <1>0, <1>9 DEF Restore, Loadable, DirTypeOK, Files
    <3>3. {kv[turn[r].steer], Empty} \subseteq Contents
      BY <3>1 DEF ServerTypeOK, Contents
    <3> QED BY <1>9, <3>2, <3>3 DEF Restore
  <2>3. turn[r].steer \in SlotIds
    BY <1>0, <1>9 DEF Restore, TurnsOK, LocalsOK
  <2>4. ServerTypeOK'
    BY <2>2, <2>3, ServerType
  <2> QED BY <1>9, <2>1, <2>4 DEF Restore, RegistryTypeOK, DirTypeOK
<1>10. CASE Mark(r)
  <2>1. turn[r].steer \in SlotIds /\ turn[r].session \in Sessions
    BY <1>0, <1>10 DEF Mark, TurnsOK, LocalsOK
  <2>2. TurnsOK'
    BY <1>0, <1>10, SetFlag DEF Mark
  <2>3. RegistryTypeOK'
    BY <1>10, <2>1, SlotsType DEF Mark
  <2> QED BY <1>10, <2>2, <2>3 DEF Mark, ServerTypeOK, DirTypeOK
<1> QED
  BY <1>1, <1>2, <1>3, <1>4, <1>5, <1>6, <1>7, <1>8, <1>9, <1>10 DEF Admission

\* So is save_slot, for a victim and for a finished turn.
LEMMA SaveSlotType ==
    ASSUME TypeOK, NEW r \in Reqs, SaveSlot(r)
    PROVE  TypeOK'
<1> USE DEF TypeOK, At, GateTypeOK, gateVars, serverVars, dirVars
<1> USE DEF PCs, Saving, Matching, Detached, Terminal, Steered, Named, Sessionless
<1>0. /\ TurnsOK
      /\ turn[r].session \in Sessions /\ turn[r].session # None
      /\ turn[r].steer \in SlotIds
      /\ turn[r].name \in Sessions
      /\ AfterPlacement(r) \in {"restore", "mark"}
  BY Keyed, NoneAssumption
  DEF SaveSlot, GateExclusive, SaveStart, SaveEnd, SaveError, Publish,
      PublishError, Published, NotPublished, TurnsOK, LocalsOK, AfterPlacement
<1>1. CASE GateExclusive(r)
  <2>1. TurnsOK'
    BY <1>0, <1>1, MoveTurn DEF GateExclusive
  <2> QED BY <1>1, <2>1 DEF GateExclusive, AcquireExclusive, RegistryTypeOK, ServerTypeOK, DirTypeOK
<1>2. CASE SaveStart(r)
  <2>1. TurnsOK'
    BY <1>0, <1>2, MoveTurn DEF SaveStart
  <2>2. DirTypeOK'
    BY <1>0, <1>2, DirType DEF SaveStart
  <2> QED BY <1>2, <2>1, <2>2 DEF SaveStart, RegistryTypeOK, ServerTypeOK
<1>3. CASE SaveEnd(r)
  <2>1. TurnsOK'
    BY <1>0, <1>3, MoveTurn DEF SaveEnd
  <2>2. DirTypeOK'
    BY <1>0, <1>3, DirType DEF SaveEnd, ServerTypeOK
  <2> QED BY <1>3, <2>1, <2>2 DEF SaveEnd, RegistryTypeOK, ServerTypeOK
<1>4. CASE SaveError(r)
  <2>1. TurnsOK'
    BY <1>0, <1>4, MoveTurn DEF SaveError
  <2> QED BY <1>4, <2>1 DEF SaveError, RegistryTypeOK, ServerTypeOK, DirTypeOK
<1>5. CASE Publish(r)
  <2>1. TurnsOK'
    BY <1>0, <1>5, MoveTurn DEF Publish
  <2>2. DirTypeOK'
    BY <1>0, <1>5, DirType DEF Publish
  <2> QED BY <1>5, <2>1, <2>2 DEF Publish, RegistryTypeOK, ServerTypeOK
<1>6. CASE PublishError(r)
  <2>1. TurnsOK'
    BY <1>0, <1>6, MoveTurn DEF PublishError
  <2> QED BY <1>6, <2>1 DEF PublishError, RegistryTypeOK, ServerTypeOK, DirTypeOK
<1>7. CASE Published(r)
  <2>1. TurnsOK'
    BY <1>0, <1>7, SetName DEF Published
  <2>2. RegistryTypeOK'
    BY <1>0, <1>7, SlotsType DEF Published
  <2> QED BY <1>7, <2>1, <2>2 DEF Published, ReleaseExclusive, ServerTypeOK, DirTypeOK
<1>8. CASE NotPublished(r)
  <2> DEFINE t == [turn[r] EXCEPT !.name = None, !.steer = None]
  <2>1. t \in Turn /\ t.session = turn[r].session
    BY <1>0 DEF TurnsOK, Turn
  <2>2. TurnsOK'
    BY <1>0, <1>8, <2>1, PutTurn DEF NotPublished
  <2> QED BY <1>8, <2>2 DEF NotPublished, ReleaseExclusive, RegistryTypeOK, ServerTypeOK, DirTypeOK
<1> QED BY <1>1, <1>2, <1>3, <1>4, <1>5, <1>6, <1>7, <1>8 DEF SaveSlot
\* So are decoding, the end of a turn and the quota.
LEMMA ServiceType ==
    ASSUME TypeOK, NEW r \in Reqs, Service(r)
    PROVE  TypeOK'
<1> USE DEF TypeOK, At, GateTypeOK, gateVars, serverVars, dirVars
<1> USE DEF PCs, Saving, Matching, Detached, Terminal, Steered, Named, Sessionless
<1>0. /\ TurnsOK
      /\ turn[r].steer \in SlotIds \/ pc[r] \in {"claim", "scan", "unlink"}
             => turn[r].session \in Sessions /\ turn[r].session # None
  BY NoneAssumption DEF TurnsOK, LocalsOK, Turn
<1>1. CASE Decode(r)
  <2>1. TurnsOK'
    BY <1>0, <1>1, MoveTurn DEF Decode
  <2>2. PICK i \in SlotIds : StartDecode(i, r)
    BY <1>0, <1>1 DEF Decode, TurnsOK, Turn
  <2>3. ServerTypeOK'
    BY <2>2, ServerType
  <2> QED BY <1>1, <2>1, <2>3 DEF Decode, RegistryTypeOK, DirTypeOK
<1>2. CASE ChatError(r)
  <2>1. TurnsOK'
    BY <1>0, <1>2, RetireTurn DEF ChatError
  <2> QED BY <1>2, <2>1 DEF ChatError, RegistryTypeOK, ServerTypeOK, DirTypeOK
<1>3. CASE RunError(r)
  <2>1. TurnsOK'
    BY <1>0, <1>3, RetireTurn DEF RunError
  <2> QED BY <1>3, <2>1 DEF RunError, RegistryTypeOK, ServerTypeOK, DirTypeOK
<1>4. CASE Finish(r)
  <2>1. TurnsOK'
    <3>1. CASE turn[r].steer = None
      BY <1>0, <1>4, <3>1, RetireTurn DEF Finish
    <3>2. CASE turn[r].steer # None
      <4>1. turn[r].steer \in SlotIds
        BY <1>0, <3>2 DEF TurnsOK, Turn
      <4> QED BY <1>0, <1>4, <3>2, <4>1, SetFlag DEF Finish
    <3> QED BY <3>1, <3>2
  <2>2. ServerTypeOK'
    BY <1>4, ServerType DEF Finish
  <2> QED BY <1>4, <2>1, <2>2 DEF Finish, RegistryTypeOK, DirTypeOK
<1>5. CASE ClaimSlot(r)
  <2>1. turn[r].steer \in SlotIds
    BY <1>0, <1>5 DEF ClaimSlot, TurnsOK, LocalsOK
  <2>2. TurnsOK'
    BY <1>0, <1>5, <2>1, SetName DEF ClaimSlot
  <2>3. RegistryTypeOK'
    BY <1>0, <1>5, <2>1, SlotsType DEF ClaimSlot
  <2> QED BY <1>5, <2>2, <2>3 DEF ClaimSlot, ServerTypeOK, DirTypeOK
<1>6. CASE Scan(r)
  <2>1. PICK plan \in SUBSET Present :
            turn' = [turn EXCEPT ![r] = [Fresh(@.session) EXCEPT
                                            !.post = TRUE, !.doomed = plan]]
    BY <1>6 DEF Scan
  <2> DEFINE t == [Fresh(turn[r].session) EXCEPT !.post = TRUE, !.doomed = plan]
  <2>2. t \in Turn /\ t.session = turn[r].session /\ t.session # None
    BY <1>0, <1>6 DEF Scan, Fresh, Turn, Present
  <2>3. TurnsOK'
    BY <1>0, <1>6, <2>1, <2>2, PutTurn DEF Scan
  <2> QED BY <1>6, <2>3 DEF Scan, RegistryTypeOK, ServerTypeOK, DirTypeOK
<1>7. CASE Unlink(r)
  <2>1. TurnsOK'
    BY <1>0, <1>7, RetireTurn DEF Unlink
  <2>2. DirTypeOK'
    BY <1>7, DirType DEF Unlink
  <2> QED BY <1>7, <2>1, <2>2 DEF Unlink, RegistryTypeOK, ServerTypeOK
<1> QED BY <1>1, <1>2, <1>3, <1>4, <1>5, <1>6, <1>7 DEF Service

\* So is what the backend and the blocking pool do for a turn that is gone.
LEMMA LeftoverType ==
    ASSUME TypeOK, NEW r \in Reqs, Leftover(r)
    PROVE  TypeOK'
<1> USE DEF TypeOK, At, GateTypeOK, gateVars, serverVars, dirVars
<1> USE DEF PCs, Saving, Matching, Detached, Terminal, Steered, Named, Sessionless
<1>0. TurnsOK
  OBVIOUS
<1>1. CASE Cancel(r)
  <2>1. TurnsOK'
    BY <1>0, <1>1, MoveTurn DEF Cancel
  <2>2. ServerTypeOK'
    BY <1>1, ServerType DEF Cancel
  <2> QED BY <1>1, <2>1, <2>2 DEF Cancel, RegistryTypeOK, DirTypeOK
<1>2. CASE LostWrite(r)
  <2>1. turn[r].steer \in SlotIds /\ turn[r].name \in Sessions
    BY <1>0, <1>2 DEF LostWrite, TurnsOK, LocalsOK
  <2>2. TurnsOK'
    BY <1>0, <1>2, RetireTurn DEF LostWrite
  <2>3. DirTypeOK'
    BY <1>2, <2>1, DirType DEF LostWrite, ServerTypeOK
  <2> QED BY <1>2, <2>2, <2>3 DEF LostWrite, RegistryTypeOK, ServerTypeOK
<1>3. CASE LostPublish(r)
  <2>1. turn[r].name \in Sessions
    BY <1>0, <1>3 DEF LostPublish, TurnsOK, LocalsOK
  <2>2. TurnsOK'
    BY <1>0, <1>3, RetireTurn DEF LostPublish
  <2>3. DirTypeOK'
    BY <1>3, <2>1, DirType DEF LostPublish, DirTypeOK
  <2> QED BY <1>3, <2>2, <2>3 DEF LostPublish, RegistryTypeOK, ServerTypeOK
<1> QED BY <1>1, <1>2, <1>3 DEF Leftover

\* So is what clients do.
LEMMA EnvironmentType ==
    ASSUME TypeOK, NEW r \in Reqs, Environment(r)
    PROVE  TypeOK'
<1> USE DEF TypeOK, At, GateTypeOK, gateVars, serverVars, dirVars
<1> USE DEF PCs, Saving, Matching, Detached, Terminal, Steered, Named, Sessionless
<1>0. TurnsOK
  OBVIOUS
<1>1. CASE Arrive(r)
  <2>1. PICK s \in Sessions, b \in BOOLEAN :
            turn' = [turn EXCEPT ![r] = [Fresh(s) EXCEPT !.stream = b]]
    BY <1>1 DEF Arrive
  <2> DEFINE t == [Fresh(s) EXCEPT !.stream = b]
  <2>2. t \in Turn /\ t.session = s
    BY DEF Fresh, Turn
  <2>3. TurnsOK'
    BY <1>0, <1>1, <2>1, <2>2, PutTurn, NoneAssumption DEF Arrive
  <2> QED BY <1>1, <2>3 DEF Arrive, RegistryTypeOK, ServerTypeOK, DirTypeOK
<1>2. CASE Hangup(r)
  <2>1. TurnsOK'
    BY <1>0, <1>2, RetireTurn DEF Hangup
  <2>2. RegistryTypeOK'
    <3>1. CASE turn[r].steer = None
      BY <1>2, <3>1 DEF Hangup, RegistryTypeOK
    <3>2. CASE turn[r].steer # None
      <4>1. turn[r].steer \in SlotIds
        BY <3>2 DEF TurnsOK, Turn
      <4> QED BY <1>2, <3>2, <4>1, SlotsType DEF Hangup
    <3> QED BY <3>1, <3>2
  <2> QED BY <1>2, <2>1, <2>2 DEF Hangup, ServerTypeOK, DirTypeOK
<1>3. CASE HandlerDrop(r)
  <2>2. TurnsOK'
    <3>1. CASE pc[r] \in {"write", "publish"}
      BY <1>0, <1>3, <3>1, MoveTurn DEF HandlerDrop, AfterDrop, TurnsOK, LocalsOK
    <3>2. CASE pc[r] \notin {"write", "publish"}
      BY <1>0, <1>3, <3>2, RetireTurn DEF HandlerDrop, AfterDrop
    <3> QED BY <3>1, <3>2
  <2> QED BY <1>3, <2>2 DEF HandlerDrop, DropGuards, RegistryTypeOK, ServerTypeOK, DirTypeOK
<1>4. CASE Bypass(r)
  <2> DEFINE t == [turn[r] EXCEPT !.stream = TRUE]
  <2>1. t \in Turn /\ t.session = turn[r].session /\ t.steer = turn[r].steer
    BY <1>0 DEF TurnsOK, Turn
  <2>2. turn[r].session = None => turn[r].steer = None
    BY <1>0 DEF TurnsOK, LocalsOK
  <2>3. TurnsOK'
    BY <1>0, <1>4, <2>1, <2>2, PutTurn DEF Bypass, Set
  <2> QED BY <1>4, <2>3 DEF Bypass, RegistryTypeOK, ServerTypeOK, DirTypeOK
<1> QED BY <1>1, <1>2, <1>3, <1>4 DEF Environment

\* So are crashes.
LEMMA CrashType ==
    ASSUME TypeOK, ProxyCrash \/ BackendCrash
    PROVE  TypeOK'
<1> USE DEF TypeOK, gateVars, serverVars, dirVars
<1> USE DEF PCs, Saving, Matching, Detached, Terminal, Steered, Named, Sessionless
<1>0. /\ TurnsOK
      /\ \A r \in Reqs : Fresh(turn[r].session) \in Turn
      /\ \A r \in Reqs : /\ Fresh(turn[r].session).session = turn[r].session
                         /\ Fresh(turn[r].session).steer = None
  BY FreshType DEF TurnsOK, Turn
<1>1. CASE ProxyCrash
  <2>1. TurnsOK'
    <3>1. pc' \in [Reqs -> PCs] /\ turn' \in [Reqs -> Turn]
      BY <1>0, <1>1 DEF ProxyCrash, AfterProxyCrash, TurnsOK
    <3>2. LocalsOK'
      BY <1>0, <1>1 DEF ProxyCrash, AfterProxyCrash, TurnsOK, LocalsOK
    <3> QED BY <3>1, <3>2 DEF TurnsOK
  <2>2. GateTypeOK' /\ RegistryTypeOK'
    BY <1>1 DEF ProxyCrash, GateTypeOK, RegistryTypeOK, SlotInfo, Unclaimed
  <2> QED BY <1>1, <2>1, <2>2 DEF ProxyCrash, ServerTypeOK, DirTypeOK
<1>2. CASE BackendCrash
  <2>1. TurnsOK'
    <3>1. pc' \in [Reqs -> PCs] /\ turn' \in [Reqs -> Turn]
      BY <1>0, <1>2 DEF BackendCrash, AfterBackendCrash, TurnsOK
    <3>2. LocalsOK'
      BY <1>0, <1>2 DEF BackendCrash, AfterBackendCrash, TurnsOK, LocalsOK
    <3> QED BY <3>1, <3>2 DEF TurnsOK
  <2>2. ServerTypeOK'
    BY <1>2, ServerType DEF BackendCrash
  <2> QED BY <1>2, <2>1, <2>2 DEF BackendCrash, GateTypeOK, RegistryTypeOK, DirTypeOK
<1> QED BY <1>1, <1>2

-----------------------------------------------------------------------------
\* The proxy starts with no turn in service and nothing claimed or kept.
LEMMA InitType == Init => TypeOK
  BY FreshType
  DEF Init, GateInit, RegistryInit, ServerInit, DirInit, TypeOK, GateTypeOK,
      RegistryTypeOK, ServerTypeOK, DirTypeOK, TurnsOK, LocalsOK, SlotInfo,
      Unclaimed, Contents, Files, PCs, Steered, Named, Saving, Sessionless

\* Every step keeps every variable in its type.
LEMMA NextType == TypeOK /\ [Next]_vars => TypeOK'
<1> SUFFICES ASSUME TypeOK, [Next]_vars PROVE TypeOK'
  OBVIOUS
<1>1. ASSUME NEW r \in Reqs, Progress(r) PROVE TypeOK'
  BY <1>1, AdmissionType, SaveSlotType, ServiceType, LeftoverType DEF Progress
<1>2. ASSUME NEW r \in Reqs, Environment(r) PROVE TypeOK'
  BY <1>2, EnvironmentType
<1>3. CASE ProxyCrash \/ BackendCrash
  BY <1>3, CrashType
<1>4. CASE UNCHANGED vars
  BY <1>4
  DEF vars, gateVars, serverVars, dirVars, TypeOK, GateTypeOK, RegistryTypeOK,
      ServerTypeOK, DirTypeOK, TurnsOK, LocalsOK
<1> QED BY <1>1, <1>2, <1>3, <1>4 DEF Next, Quiet

\* Type correctness: in every reachable state the gate, the registry, the
\* backend, the directory and every turn's locals are well typed, and a
\* task that is about to save, restore or mark a slot knows which slot and
\* under whose name.
THEOREM TypeCorrect == Spec => []TypeOK
<1>1. Init => TypeOK
  BY InitType
<1>2. TypeOK /\ [Next]_vars => TypeOK'
  BY NextType
<1> QED BY <1>1, <1>2, PTL DEF Spec
=============================================================================
