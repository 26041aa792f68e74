----------------------------- MODULE ProxyProofs -----------------------------
(***************************************************************************)
(* What the request path keeps for any turns, sessions and slots and any   *)
(* traffic: the gate's discipline (R1) and dirty slots that name an owner  *)
(* (R3) whatever fails or crashes; where no handler is dropped, whole      *)
(* blobs (R2) and the abstract store of Forest; and where no save can      *)
(* fail, that every slot is saved in the end.                              *)
(***************************************************************************)
EXTENDS ProxyTypeProofs

-----------------------------------------------------------------------------
(***************************************************************************)
(* What the steps of a turn touch.                                         *)
(***************************************************************************)

\* Where a turn is under way.
UnderWay == PCs \ ({"new"} \cup Detached \cup Terminal)

\* Steps of r leave the locals of other turns alone.
LEMMA OwnLocals ==
    ASSUME TypeOK, NEW r \in Reqs, Progress(r) \/ Environment(r)
    PROVE  \A q \in Reqs \ {r} : turn'[q] = turn[q]
<1> USE DEF TypeOK, TurnsOK, Set, Retire
<1>1. CASE Admission(r)
  BY <1>1 DEF Admission, MatchHot, MatchCold, PickQuery, PickError, Choose,
              EvictQuery, EvictError, Victim, VictimName, Restore, Mark
<1>2. CASE SaveSlot(r)
  BY <1>2 DEF SaveSlot, GateExclusive, SaveStart, SaveEnd, SaveError, Publish,
              PublishError, Published, NotPublished
<1>3. CASE Service(r)
  BY <1>3 DEF Service, Decode, ChatError, RunError, Finish, ClaimSlot, Scan, Unlink
<1>4. CASE Leftover(r)
  BY <1>4 DEF Leftover, Cancel, LostWrite, LostPublish
<1>5. CASE Environment(r)
  BY <1>5 DEF Environment, Arrive, Bypass, Hangup, HandlerDrop
<1> QED BY <1>1, <1>2, <1>3, <1>4, <1>5 DEF Progress

\* A step of r moves r only, never back to its arrival, and brings it under
\* way only when it arrives or is passed through.
LEMMA StepsMove ==
    ASSUME TypeOK, NEW r \in Reqs, Progress(r) \/ Environment(r)
    PROVE  \E l \in PCs \ {"new"} :
               /\ pc' = [pc EXCEPT ![r] = l]
               /\ l \in UnderWay => Arrive(r) \/ Bypass(r) \/ pc[r] \in UnderWay
<1> USE DEF Goto, Retire, At, UnderWay, PCs, Saving, Matching, Detached, Terminal
<1>0. AfterPlacement(r) \in {"restore", "mark"}
  BY DEF AfterPlacement
<1>1. CASE Admission(r)
  BY <1>0, <1>1
  DEF Admission, MatchHot, MatchCold, PickQuery, PickError, Choose,
      EvictQuery, EvictError, Victim, Restore, Mark
<1>2. CASE SaveSlot(r)
  BY <1>0, <1>2
  DEF SaveSlot, GateExclusive, SaveStart, SaveEnd, SaveError, Publish,
      PublishError, Published, NotPublished
<1>3. CASE Service(r)
  BY <1>3
  DEF Service, Decode, ChatError, RunError, Finish, ClaimSlot, Scan, Unlink
<1>4. CASE Leftover(r)
  BY <1>4 DEF Leftover, Cancel, LostWrite, LostPublish
<1>5. CASE Environment(r)
  BY <1>5 DEF Environment, Arrive, Bypass, Hangup, HandlerDrop, AfterDrop
<1> QED BY <1>1, <1>2, <1>3, <1>4, <1>5 DEF Progress

\* Steps of r leave other turns where they are.
LEMMA OthersStay ==
    ASSUME TypeOK, NEW r \in Reqs, Progress(r) \/ Environment(r)
    PROVE  \A q \in Reqs \ {r} : pc'[q] = pc[q] /\ turn'[q] = turn[q]
<1>1. pc \in [Reqs -> PCs]
  BY DEF TypeOK, TurnsOK
<1> QED BY <1>1, StepsMove, OwnLocals

\* Four steps of a turn write the registry: its mark and its claim, the mark
\* clean of its save and the pump's hangup.
LEMMA RegistryWriters ==
    ASSUME NEW r \in Reqs, Progress(r) \/ Environment(r)
    PROVE  UNCHANGED slots \/ Mark(r) \/ Published(r) \/ ClaimSlot(r) \/ Hangup(r)
<1>1. CASE Admission(r)
  BY <1>1 DEF Admission, MatchHot, MatchCold, PickQuery, PickError, Choose,
              EvictQuery, EvictError, Victim, Restore
<1>2. CASE SaveSlot(r)
  BY <1>2 DEF SaveSlot, GateExclusive, SaveStart, SaveEnd, SaveError, Publish,
              PublishError, NotPublished
<1>3. CASE Service(r) \/ Leftover(r)
  BY <1>3 DEF Service, Decode, ChatError, RunError, Finish, Scan, Unlink,
              Leftover, Cancel, LostWrite, LostPublish
<1>4. CASE Environment(r)
  BY <1>4 DEF Environment, Arrive, Bypass, HandlerDrop
<1> QED BY <1>1, <1>2, <1>3, <1>4 DEF Progress

\* Two steps of a turn write KV: its decode and its restore.
LEMMA KvWriters ==
    ASSUME NEW r \in Reqs, Progress(r) \/ Environment(r)
    PROVE  UNCHANGED kv \/ Decode(r) \/ Restore(r)
<1> USE DEF serverVars, EndDecode
<1>1. CASE Admission(r)
  BY <1>1 DEF Admission, MatchHot, MatchCold, PickQuery, PickError, Choose,
              EvictQuery, EvictError, Victim, Mark
<1>2. CASE SaveSlot(r)
  BY <1>2 DEF SaveSlot, GateExclusive, SaveStart, SaveEnd, SaveError, Publish,
              PublishError, Published, NotPublished
<1>3. CASE Service(r) \/ Leftover(r)
  BY <1>3 DEF Service, ChatError, RunError, Finish, ClaimSlot, Scan, Unlink,
              Leftover, Cancel, LostWrite, LostPublish
<1>4. CASE Environment(r)
  BY <1>4 DEF Environment, Arrive, Bypass, Hangup, HandlerDrop
<1> QED BY <1>1, <1>2, <1>3, <1>4 DEF Progress

\* Three steps of a turn write which slots decode.
LEMMA ProcessingWriters ==
    ASSUME NEW r \in Reqs, Progress(r) \/ Environment(r)
    PROVE  UNCHANGED processing \/ Decode(r) \/ Finish(r) \/ Cancel(r)
<1> USE DEF serverVars, LoadSlot
<1>1. CASE Admission(r)
  BY <1>1 DEF Admission, MatchHot, MatchCold, PickQuery, PickError, Choose,
              EvictQuery, EvictError, Victim, Restore, Mark
<1>2. CASE SaveSlot(r)
  BY <1>2 DEF SaveSlot, GateExclusive, SaveStart, SaveEnd, SaveError, Publish,
              PublishError, Published, NotPublished
<1>3. CASE Service(r) \/ Leftover(r)
  BY <1>3 DEF Service, ChatError, RunError, ClaimSlot, Scan, Unlink, Leftover,
              LostWrite, LostPublish
<1>4. CASE Environment(r)
  BY <1>4 DEF Environment, Arrive, Bypass, Hangup, HandlerDrop
<1> QED BY <1>1, <1>2, <1>3, <1>4 DEF Progress

\* The six steps that write files.
LEMMA DirWriters ==
    ASSUME NEW r \in Reqs, Progress(r) \/ Environment(r)
    PROVE  \/ UNCHANGED dirVars
           \/ SaveStart(r) \/ SaveEnd(r) \/ Publish(r)
           \/ Unlink(r) \/ LostWrite(r) \/ LostPublish(r)
<1>1. CASE Admission(r)
  BY <1>1 DEF Admission, MatchHot, MatchCold, PickQuery, PickError, Choose,
              EvictQuery, EvictError, Victim, Restore, Mark
<1>2. CASE SaveSlot(r)
  BY <1>2 DEF SaveSlot, GateExclusive, SaveError, PublishError, Published,
              NotPublished
<1>3. CASE Service(r)
  BY <1>3 DEF Service, Decode, ChatError, RunError, Finish, ClaimSlot, Scan
<1>4. CASE Leftover(r)
  BY <1>4 DEF Leftover, Cancel
<1>5. CASE Environment(r)
  BY <1>5 DEF Environment, Arrive, Bypass, Hangup, HandlerDrop
<1> QED BY <1>1, <1>2, <1>3, <1>4, <1>5 DEF Progress

\* Only an arrival gives a turn its session, only the quota's scan a plan.
LEMMA SessionsStay ==
    ASSUME TypeOK, NEW r \in Reqs, Progress(r) \/ Environment(r)
    PROVE  /\ turn'[r].session = turn[r].session \/ Arrive(r)
           /\ turn'[r].doomed \in {turn[r].doomed, {}} \/ Scan(r)
<1> USE DEF Set, Retire, Fresh
<1>0. turn \in [Reqs -> Turn] /\ turn[r] \in Turn
  BY DEF TypeOK, TurnsOK
<1>1. CASE MatchHot(r) \/ MatchCold(r) \/ PickQuery(r) \/ PickError(r)
  BY <1>0, <1>1 DEF MatchHot, MatchCold, PickQuery, PickError, Turn
<1>2. CASE EvictQuery(r) \/ EvictError(r)
  BY <1>0, <1>2 DEF EvictQuery, EvictError, Turn
<1>3. CASE Choose(r)
  <2>1. CASE Set(r, "seen", {})
    BY <1>0, <2>1 DEF Turn
  <2>2. ASSUME NEW i \in FreeSlots(turn[r].seen),
               turn' = [turn EXCEPT ![r] =
                                  [@ EXCEPT !.steer = i, !.seen = {}]]
        PROVE  /\ turn'[r].session = turn[r].session
               /\ turn'[r].doomed = turn[r].doomed
    BY <1>0, <2>2 DEF Turn
  <2> QED BY <1>3, <2>1, <2>2 DEF Choose
<1>4. CASE Victim(r)
  <2>1. CASE Set(r, "seen", {})
    BY <1>0, <2>1 DEF Turn
  <2>2. ASSUME NEW i \in EvictableSlots(turn[r].seen), VictimName(r, i)
        PROVE  /\ turn'[r].session = turn[r].session
               /\ turn'[r].doomed = turn[r].doomed
    BY <1>0, <2>2 DEF VictimName, Turn
  <2> QED BY <1>4, <2>1, <2>2 DEF Victim
<1>5. CASE Restore(r) \/ Mark(r)
  BY <1>0, <1>5 DEF Restore, Mark, Turn
<1>6. CASE SaveSlot(r)
  BY <1>0, <1>6
  DEF SaveSlot, GateExclusive, SaveStart, SaveEnd, SaveError, Publish,
      PublishError, Published, NotPublished, Turn
<1>7. CASE Decode(r) \/ ChatError(r) \/ RunError(r) \/ Finish(r)
  BY <1>0, <1>7 DEF Decode, ChatError, RunError, Finish, Turn
<1>8. CASE ClaimSlot(r) \/ Unlink(r)
  BY <1>0, <1>8 DEF ClaimSlot, Unlink, Turn
<1>9. CASE Scan(r)
  <2>1. PICK plan : turn' = [turn EXCEPT ![r] = [Fresh(@.session) EXCEPT
                                                     !.post = TRUE, !.doomed = plan]]
    BY <1>9 DEF Scan
  <2> QED BY <1>0, <1>9, <2>1
<1>10. CASE Leftover(r)
  BY <1>0, <1>10 DEF Leftover, Cancel, LostWrite, LostPublish, Turn
<1>11. CASE Arrive(r)
  BY <1>0, <1>11 DEF Arrive
<1>12. CASE Bypass(r) \/ Hangup(r) \/ HandlerDrop(r)
  BY <1>0, <1>12 DEF Bypass, Hangup, HandlerDrop, Turn
<1> QED
  BY <1>1, <1>2, <1>3, <1>4, <1>5, <1>6, <1>7, <1>8, <1>9, <1>10, <1>11, <1>12
  DEF Progress, Admission, Service, Environment

-----------------------------------------------------------------------------
(***************************************************************************)
(* The gate.                                                               *)
(***************************************************************************)

\* A step of one turn that touches no guard keeps the gate's discipline if
\* it stays inside, or outside, each of the two critical sections.
LEMMA GateFrame ==
    ASSUME TypeOK, GateExclusion, NEW r \in Reqs, NEW l \in PCs, Goto(r, l),
           UNCHANGED gateVars,
           pc[r] \in Saving <=> l \in Saving,
           pc[r] \in Matching <=> l \in Matching
    PROVE  GateExclusion'
  BY DEF TypeOK, TurnsOK, GateExclusion, Goto, gateVars

\* Lookup takes the guard shared and gives it back; nothing else of an
\* admission touches it.
LEMMA AdmissionGate ==
    ASSUME TypeOK, GateExclusion, NEW r \in Reqs, Admission(r)
    PROVE  GateExclusion'
<1> USE DEF PCs, Saving, Matching, Detached, Terminal, At
<1>0. AfterPlacement(r) \in {"restore", "mark"}
  BY DEF AfterPlacement
<1>1. CASE MatchHot(r)
  BY <1>1, GateFrame DEF MatchHot
<1>2. CASE MatchCold(r)
  BY <1>2 DEF MatchCold, AcquireShared, CanShare, Goto, GateExclusion, TypeOK,
              TurnsOK
<1>3. CASE PickQuery(r)
  BY <1>3, GateFrame DEF PickQuery
<1>4. CASE PickError(r)
  BY <1>4 DEF PickError, ReleaseShared, Goto, GateExclusion, TypeOK, TurnsOK
<1>5. CASE Choose(r)
  BY <1>0, <1>5 DEF Choose, ReleaseShared, Goto, GateExclusion, TypeOK, TurnsOK
<1>6. CASE EvictQuery(r)
  BY <1>6, GateFrame DEF EvictQuery
<1>7. CASE EvictError(r)
  BY <1>7, GateFrame DEF EvictError
<1>8. CASE Victim(r)
  BY <1>0, <1>8, GateFrame DEF Victim
<1>9. CASE Restore(r)
  BY <1>9, GateFrame DEF Restore
<1>10. CASE Mark(r)
  BY <1>10, GateFrame DEF Mark
<1> QED
  BY <1>1, <1>2, <1>3, <1>4, <1>5, <1>6, <1>7, <1>8, <1>9, <1>10 DEF Admission

\* save_slot takes the guard exclusively and, on every way out, gives it back.
LEMMA SaveSlotGate ==
    ASSUME TypeOK, GateExclusion, NEW r \in Reqs, SaveSlot(r)
    PROVE  GateExclusion'
<1> USE DEF PCs, Saving, Matching, Detached, Terminal, At
<1>1. CASE GateExclusive(r)
  BY <1>1 DEF GateExclusive, AcquireExclusive, Goto, GateExclusion, TypeOK,
              TurnsOK
<1>2. CASE SaveStart(r)
  BY <1>2, GateFrame DEF SaveStart
<1>3. CASE SaveEnd(r)
  BY <1>3, GateFrame DEF SaveEnd
<1>4. CASE SaveError(r)
  BY <1>4, GateFrame DEF SaveError
<1>5. CASE Publish(r)
  BY <1>5, GateFrame DEF Publish
<1>6. CASE PublishError(r)
  BY <1>6, GateFrame DEF PublishError
<1>7. CASE Published(r)
  BY <1>7 DEF Published, ReleaseExclusive, AfterPlacement, Goto, GateExclusion,
              TypeOK, TurnsOK
<1>8. CASE NotPublished(r)
  BY <1>8 DEF NotPublished, ReleaseExclusive, Goto, GateExclusion, TypeOK,
              TurnsOK
<1> QED BY <1>1, <1>2, <1>3, <1>4, <1>5, <1>6, <1>7, <1>8 DEF SaveSlot

\* Decoding, the quota and what is left of a turn that is gone hold no guard.
LEMMA ServiceGate ==
    ASSUME TypeOK, GateExclusion, NEW r \in Reqs, Service(r) \/ Leftover(r)
    PROVE  GateExclusion'
<1> USE DEF PCs, Saving, Matching, Detached, Terminal, At, Retire
<1>1. CASE Decode(r)
  BY <1>1, GateFrame DEF Decode
<1>2. CASE ChatError(r)
  BY <1>2, GateFrame DEF ChatError
<1>3. CASE RunError(r)
  BY <1>3, GateFrame DEF RunError
<1>4. CASE Finish(r)
  BY <1>4, GateFrame DEF Finish
<1>5. CASE ClaimSlot(r)
  BY <1>5, GateFrame DEF ClaimSlot
<1>6. CASE Scan(r)
  BY <1>6, GateFrame DEF Scan
<1>7. CASE Unlink(r)
  BY <1>7, GateFrame DEF Unlink
<1>8. CASE Cancel(r)
  BY <1>8, GateFrame DEF Cancel
<1>9. CASE LostWrite(r)
  BY <1>9, GateFrame DEF LostWrite
<1>10. CASE LostPublish(r)
  BY <1>10, GateFrame DEF LostPublish
<1> QED
  BY <1>1, <1>2, <1>3, <1>4, <1>5, <1>6, <1>7, <1>8, <1>9, <1>10
  DEF Service, Leftover

\* A dropped handler drops its guards with it, and so does a dead proxy.
LEMMA EnvironmentGate ==
    ASSUME TypeOK, GateExclusion,
           (\E r \in Reqs : Environment(r)) \/ ProxyCrash \/ BackendCrash
    PROVE  GateExclusion'
<1> USE DEF PCs, Saving, Matching, Detached, Terminal, At, Retire
<1>1. ASSUME NEW r \in Reqs, Arrive(r) PROVE GateExclusion'
  BY <1>1, GateFrame DEF Arrive
<1>2. ASSUME NEW r \in Reqs, Hangup(r) PROVE GateExclusion'
  BY <1>2, GateFrame DEF Hangup
<1>3. ASSUME NEW r \in Reqs, HandlerDrop(r) PROVE GateExclusion'
  <2>1. /\ AfterDrop(pc[r]) \notin Saving \cup Matching
        /\ pc' = [pc EXCEPT ![r] = AfterDrop(pc[r])]
    BY <1>3 DEF HandlerDrop, AfterDrop, Goto
  <2> QED BY <1>3, <2>1 DEF HandlerDrop, DropGuards, GateExclusion, TypeOK, TurnsOK
<1>4. CASE ProxyCrash
  <2>1. \A r \in Reqs : pc'[r] \notin Saving \cup Matching
    BY <1>4 DEF ProxyCrash, AfterProxyCrash
  <2> QED BY <1>4, <2>1 DEF ProxyCrash, GateExclusion
<1>5. CASE BackendCrash
  <2>1. \A r \in Reqs : /\ pc'[r] \in Saving <=> pc[r] \in Saving
                        /\ pc'[r] \in Matching <=> pc[r] \in Matching
    BY <1>5 DEF BackendCrash, AfterBackendCrash, TypeOK, TurnsOK
  <2> QED BY <1>5, <2>1 DEF BackendCrash, GateExclusion, gateVars
<1>6. ASSUME NEW r \in Reqs, Bypass(r) PROVE GateExclusion'
  BY <1>6, GateFrame DEF Bypass
<1> QED BY <1>1, <1>2, <1>3, <1>4, <1>5, <1>6 DEF Environment

\* R1: the write gate is held exactly over save_slot's body and over the
\* lookup, by one save or by lookups, whatever fails, leaves or crashes.
THEOREM GateCorrect == Spec => []GateExclusion
<1>1. Init => GateExclusion
  BY DEF Init, GateInit, GateExclusion, Saving, Matching
<1>2. TypeOK /\ GateExclusion /\ [Next]_vars => GateExclusion'
  <2> SUFFICES ASSUME TypeOK, GateExclusion, [Next]_vars PROVE GateExclusion'
    OBVIOUS
  <2>1. CASE UNCHANGED vars
    BY <2>1 DEF vars, gateVars, GateExclusion
  <2>2. CASE Next
    BY <2>1, <2>2, AdmissionGate, SaveSlotGate, ServiceGate, EnvironmentGate
    DEF Next, Progress, Quiet
  <2> QED BY <2>1, <2>2
<1> QED BY <1>1, <1>2, TypeCorrect, PTL DEF Spec

-----------------------------------------------------------------------------
(***************************************************************************)
(* Waiting.                                                                *)
(***************************************************************************)

\* The backend decodes for the turns that are running or whose client left,
\* and for no other.
DecodesMatch ==
    \A r \in Reqs :
        pc[r] \in {"running", "drop"} <=> \E i \in SlotIds : processing[i] = r

\* Three steps begin or end a turn's decode, three others go on with it.
LEMMA TurnKeepsDecodes ==
    ASSUME TypeOK, DecodesMatch, NEW r \in Reqs, Progress(r) \/ Environment(r)
    PROVE  DecodesMatch'
<1> USE DEF At, Goto, Retire, DecodesMatch
<1>0. /\ pc \in [Reqs -> PCs] /\ processing \in [SlotIds -> Reqs \cup {None}]
      /\ \A q \in Reqs \ {r} : pc'[q] = pc[q]
  BY OthersStay DEF TypeOK, TurnsOK, ServerTypeOK
<1>1. CASE Decode(r)
  <2>1. PICK i \in SlotIds : StartDecode(i, r)
    <3>1. turn[r].steer \in SlotIds \cup {None}
      BY DEF TypeOK, TurnsOK, Turn
    <3> QED BY <1>1, <3>1 DEF Decode
  <2>2. /\ processing[i] = None /\ processing' = [processing EXCEPT ![i] = r]
        /\ pc' = [pc EXCEPT ![r] = "running"]
    BY <1>1, <2>1 DEF StartDecode, Idle, Decode
  <2>3. \A q \in Reqs \ {r} : \A j \in SlotIds :
            processing'[j] = q <=> processing[j] = q
    BY <1>0, <2>2, NoneAssumption
  <2> QED BY <1>0, <2>2, <2>3
<1>2. CASE Finish(r) \/ Cancel(r)
  <2>1. \A j \in SlotIds :
            processing'[j] = IF processing[j] = r THEN None ELSE processing[j]
    BY <1>2 DEF Finish, Cancel, EndDecode
  <2>2. pc'[r] \notin {"running", "drop"}
    BY <1>0, <1>2 DEF Finish, Cancel
  <2>3. \A q \in Reqs \ {r} : \A j \in SlotIds :
            processing'[j] = q <=> processing[j] = q
    BY <2>1, NoneAssumption
  <2>4. \A j \in SlotIds : processing'[j] # r
    BY <2>1, NoneAssumption
  <2> QED BY <1>0, <2>2, <2>3, <2>4
<1>3. CASE UNCHANGED processing /\ ~Decode(r) /\ ~Finish(r) /\ ~Cancel(r)
  <2>1. pc'[r] \in {"running", "drop"} <=> pc[r] \in {"running", "drop"}
    <3> USE <1>0, <1>3
    <3>1. AfterPlacement(r) \in {"restore", "mark"}
      BY DEF AfterPlacement
    <3>2. CASE Admission(r)
      BY <3>1, <3>2
      DEF Admission, MatchHot, MatchCold, PickQuery, PickError, Choose,
          EvictQuery, EvictError, Victim, Restore, Mark
    <3>3. CASE SaveSlot(r)
      BY <3>1, <3>3
      DEF SaveSlot, GateExclusive, SaveStart, SaveEnd, SaveError, Publish,
          PublishError, Published, NotPublished, Saving
    <3>4. CASE Service(r) \/ Leftover(r)
      BY <3>4 DEF Service, ChatError, RunError, ClaimSlot, Scan, Unlink, Leftover,
                  LostWrite, LostPublish
    <3>5. CASE Environment(r)
      BY <3>5 DEF Environment, Arrive, Bypass, Hangup, HandlerDrop, InHandler,
                  Attended, AfterDrop, Detached, Terminal
    <3> QED BY <3>2, <3>3, <3>4, <3>5 DEF Progress
  <2> QED BY <1>0, <1>3, <2>1
<1> QED BY <1>1, <1>2, <1>3, ProcessingWriters DEF Decode, Finish, Cancel

LEMMA DecodesCorrect == Spec => []DecodesMatch
<1>1. Init => DecodesMatch
  BY NoneAssumption DEF Init, ServerInit, DecodesMatch
<1>2. TypeOK /\ DecodesMatch /\ [Next]_vars => DecodesMatch'
  <2> SUFFICES ASSUME TypeOK, DecodesMatch, [Next]_vars PROVE DecodesMatch'
    OBVIOUS
  <2>1. CASE ProxyCrash
    <3>1. \A r \in Reqs :
              pc'[r] \in {"running", "drop"} <=> pc[r] \in {"running", "drop"}
      BY <2>1 DEF ProxyCrash, AfterProxyCrash, Terminal, TypeOK, TurnsOK
    <3> QED BY <2>1, <3>1 DEF ProxyCrash, serverVars, DecodesMatch
  <2>2. CASE BackendCrash
    <3>1. \A r \in Reqs : pc'[r] \notin {"running", "drop"}
      BY <2>2 DEF BackendCrash, AfterBackendCrash
    <3> QED BY <2>2, <3>1, NoneAssumption DEF BackendCrash, ServerRestart, DecodesMatch
  <2>3. CASE UNCHANGED vars
    BY <2>3 DEF vars, serverVars, DecodesMatch
  <2> QED BY <2>1, <2>2, <2>3, TurnKeepsDecodes DEF Next, Quiet
<1> QED BY <1>1, <1>2, TypeCorrect, PTL DEF Spec

\* Who needs a slot or the backend waits for a decode or a write, which go on.
LEMMA BackendGoesOn ==
    ASSUME TypeOK, DecodesMatch, SlotIds # {}, NEW r \in Reqs,
           pc[r] \in {"save", "restore", "queued"}
    PROVE  CanGo(r) \/ \E q \in Reqs : WaitsFor(r, q) /\ CanGo(q)
<1> USE DEF At
<1>1. CASE ~ServerFree
  <2>1. PICK q \in Reqs : pc[q] \in {"write", "lostWrite"}
    BY <1>1 DEF ServerFree
  <2> QED BY <2>1 DEF WaitsFor, CanGo, Unguarded, Detached
<1>2. CASE ServerFree /\ ~CanGo(r)
  <2>1. turn[r].steer \in SlotIds \cup {None}
        /\ (pc[r] \in {"save", "restore"} => turn[r].steer \in SlotIds)
    BY DEF TypeOK, TurnsOK, Turn, LocalsOK, Steered, Saving
  <2>2. PICK i \in SlotIds : /\ ~Idle(i)
                             /\ At(r, "queued") => i \in WouldDo(r)
                             /\ pc[r] \in {"save", "restore"} => i = turn[r].steer
    BY <1>2, <2>1 DEF CanGo, WouldDo
  <2>3. processing[i] \in Reqs
    BY <2>2 DEF TypeOK, ServerTypeOK, Idle
  <2>4. WaitsFor(r, processing[i])
    BY <2>2 DEF WaitsFor
  <2>5. CanGo(processing[i])
    BY <2>3 DEF DecodesMatch, CanGo
  <2> QED BY <2>3, <2>4, <2>5
<1> QED BY <1>1, <1>2

\* Who needs the gate waits for a lookup, which goes on, or for a save, which
\* goes on or waits for the backend.
LEMMA GateGoesOn ==
    ASSUME TypeOK, DecodesMatch, GateExclusion, SlotIds # {}, NEW r \in Reqs,
           pc[r] \in {"match", "gate"}
    PROVE  \/ CanGo(r)
           \/ \E q \in Reqs : /\ WaitsFor(r, q)
                              /\ \/ CanGo(q)
                                 \/ \E p \in Reqs : WaitsFor(q, p) /\ CanGo(p)
<1> SUFFICES ASSUME ~CanGo(r)
             PROVE  \E q \in Reqs : /\ WaitsFor(r, q)
                                    /\ \/ CanGo(q)
                                       \/ \E p \in Reqs : WaitsFor(q, p) /\ CanGo(p)
  OBVIOUS
<1>1. PICK q \in writers \cup readers : At(r, "match") => q \in writers
  BY DEF CanGo, CanShare, At
<1>2. q \in Reqs /\ pc[q] \in Saving \cup Matching
  BY <1>1 DEF GateExclusion
<1>3. WaitsFor(r, q)
  BY <1>1 DEF WaitsFor, At
<1>4. CASE At(q, "save")
  BY <1>2, <1>3, <1>4, BackendGoesOn DEF At
<1>5. CASE ~At(q, "save")
  <2>1. CanGo(q)
    BY <1>2, <1>5 DEF CanGo, Unguarded, Saving, Matching, At
  <2> QED BY <1>2, <1>3, <2>1
<1> QED BY <1>4, <1>5

\* Whatever the traffic and whatever fails, leaves, crashes or goes around
\* oLLM: nobody waits in a circle.  Who cannot go on waits, over at most the
\* gate's holder, for a turn that can: App.write_gate is never held by a turn
\* that waits for the gate, and a decode or a write waits for nothing.
THEOREM NobodyWaitsInCircle ==
    ASSUME SlotIds # {}
    PROVE  Spec => []NobodyStuck
<1>1. TypeOK /\ DecodesMatch /\ GateExclusion => NobodyStuck
  <2> SUFFICES ASSUME TypeOK, DecodesMatch, GateExclusion, NEW r \in Reqs,
                      pc[r] \notin {"new"} \cup Terminal
               PROVE  \/ CanGo(r)
                      \/ \E q \in Reqs :
                             /\ WaitsFor(r, q)
                             /\ \/ CanGo(q)
                                \/ \E p \in Reqs : WaitsFor(q, p) /\ CanGo(p)
    BY DEF NobodyStuck
  <2>1. CASE pc[r] \in {"save", "restore", "queued"}
    BY <2>1, BackendGoesOn
  <2>2. CASE pc[r] \in {"match", "gate"}
    BY <2>2, GateGoesOn
  <2>3. CASE pc[r] \in {"running", "drop"}
    BY <2>3 DEF CanGo, DecodesMatch
  <2>4. CASE pc[r] \in Unguarded
    BY <2>4 DEF CanGo
  <2>5. pc[r] \in PCs
    BY DEF TypeOK, TurnsOK
  <2> QED BY <2>1, <2>2, <2>3, <2>4, <2>5
          DEF PCs, Unguarded, Saving, Matching, Detached
<1> QED BY <1>1, TypeCorrect, DecodesCorrect, GateCorrect, PTL

-----------------------------------------------------------------------------
(***************************************************************************)
(* The registry.                                                           *)
(***************************************************************************)

\* R3: a dirty slot always names the session whose state it holds back, so
\* find_evictable's victim is never taken without publishing it.
THEOREM DirtyOwned == Spec => []DirtyIsOwned
<1>1. Init => DirtyIsOwned
  BY DEF Init, RegistryInit, DirtyIsOwned, Unclaimed
<1>2. TypeOK /\ DirtyIsOwned /\ [Next]_vars => DirtyIsOwned'
  <2> SUFFICES ASSUME TypeOK, DirtyIsOwned, [Next]_vars PROVE DirtyIsOwned'
    OBVIOUS
  <2> USE DEF TypeOK, RegistryTypeOK, TurnsOK, LocalsOK, At, Steered, Saving
  <2>1. CASE UNCHANGED slots
    BY <2>1 DEF DirtyIsOwned
  <2>2. ASSUME NEW r \in Reqs, Mark(r) PROVE DirtyIsOwned'
    BY <2>2, NoneAssumption DEF Mark, MarkDirty, DirtyIsOwned
  <2>3. ASSUME NEW r \in Reqs, Published(r) PROVE DirtyIsOwned'
    BY <2>3 DEF Published, MarkClean, DirtyIsOwned, SlotInfo
  <2>4. ASSUME NEW r \in Reqs, ClaimSlot(r) PROVE DirtyIsOwned'
    BY <2>4, NoneAssumption DEF ClaimSlot, Claim, DirtyIsOwned, SlotInfo
  <2>5. ASSUME NEW r \in Reqs, Hangup(r) PROVE DirtyIsOwned'
    BY <2>5 DEF Hangup, Abandon, Unclaimed, DirtyIsOwned
  <2>6. CASE ProxyCrash
    BY <2>6 DEF ProxyCrash, Unclaimed, DirtyIsOwned
  <2>7. CASE UNCHANGED vars \/ BackendCrash
    BY <2>1, <2>7 DEF vars, BackendCrash
  <2> QED
    BY <2>1, <2>2, <2>3, <2>4, <2>5, <2>6, <2>7, RegistryWriters
    DEF Next, Quiet
<1> QED BY <1>1, <1>2, TypeCorrect, PTL DEF Spec
-----------------------------------------------------------------------------
(***************************************************************************)
(* The directory, where the server does not drop handlers ("handler" is    *)
(* not in Leaves).  WholeBlobs is not inductive: a rename publishes what   *)
(* the scratch file is by then.  What keeps it whole between the backend's *)
(* answer and the rename is the gate, which keeps other saves out.         *)
(***************************************************************************)

\* A turn that is going to rename finds its scratch file complete or gone,
\* and no rename is left behind by a dropped handler.
ScratchWhole ==
    \A r \in Reqs :
        /\ At(r, "publish") => scratch[turn[r].name] # Torn
        /\ ~At(r, "lostPublish")

BlobInv == WholeBlobs /\ ScratchWhole

\* A step of one turn that touches no file and does not go to a rename.
LEMMA BlobFrame ==
    ASSUME TypeOK, BlobInv, NEW r \in Reqs, NEW l \in PCs, Goto(r, l),
           l \notin {"publish", "lostPublish"},
           \A q \in Reqs \ {r} : turn'[q] = turn[q],
           UNCHANGED dirVars
    PROVE  BlobInv'
  BY DEF TypeOK, TurnsOK, BlobInv, WholeBlobs, ScratchWhole, At, Goto, dirVars

\* Only the backend's answer and a failed call lead to a rename, and no
\* handler is dropped at one.
LEMMA RenameReached ==
    ASSUME TypeOK, NEW r \in Reqs, Progress(r) \/ Environment(r),
           "handler" \notin Leaves
    PROVE  \/ SaveEnd(r)
           \/ \E l \in PCs \ {"publish", "lostPublish"} : Goto(r, l)
<1> USE DEF PCs, Saving, Matching, Detached, Terminal, Retire
<1>1. CASE Admission(r)
  BY <1>1 DEF Admission, MatchHot, MatchCold, PickQuery, PickError, Choose,
              EvictQuery, EvictError, Victim, Restore, Mark, AfterPlacement
<1>2. CASE SaveSlot(r)
  BY <1>2 DEF SaveSlot, GateExclusive, SaveStart, SaveError, Publish,
              PublishError, Published, NotPublished, AfterPlacement
<1>3. CASE Service(r)
  BY <1>3 DEF Service, Decode, ChatError, RunError, Finish, ClaimSlot, Scan, Unlink
<1>4. CASE Leftover(r)
  BY <1>4 DEF Leftover, Cancel, LostWrite, LostPublish
<1>5. CASE Environment(r)
  BY <1>5 DEF Environment, Arrive, Bypass, Hangup, HandlerDrop
<1> QED BY <1>1, <1>2, <1>3, <1>4, <1>5 DEF Progress

\* Every step of a turn keeps blobs whole.
LEMMA TurnKeepsBlobs ==
    ASSUME TypeOK, GateExclusion, BlobInv, "handler" \notin Leaves,
           NEW r \in Reqs, Progress(r) \/ Environment(r)
    PROVE  BlobInv'
<1> USE DEF BlobInv, WholeBlobs, ScratchWhole, At
<1>0. /\ TurnsOK /\ DirTypeOK /\ ServerTypeOK
      /\ \A q \in Reqs \ {r} : turn'[q] = turn[q]
  BY OwnLocals DEF TypeOK
<1>1. CASE SaveStart(r)
  <2>1. /\ pc' = [pc EXCEPT ![r] = "write"]
        /\ blob' = blob
        /\ \A q \in Reqs : pc[q] # "publish"
    BY <1>1 DEF SaveStart, OpenScratch, Goto, GateExclusion, Saving
  <2> QED BY <1>0, <2>1 DEF TurnsOK
<1>2. CASE SaveEnd(r)
  <2> DEFINE c == kv[turn[r].steer]
  <2>1. turn[r].name \in Sessions /\ turn[r].steer \in SlotIds
    BY <1>0, <1>2 DEF SaveEnd, TurnsOK, LocalsOK, Steered, Named, Saving
  <2>2. c \in Contents /\ c # Torn
    BY <1>0, <2>1, EmptyAssumption, TornAssumption DEF ServerTypeOK, Contents
  <2>3. CloseScratch(turn[r].name, c)
    BY <1>2 DEF SaveEnd
  <2>4. /\ \A s \in Sessions : blob'[s] # Torn
        /\ \A s \in Sessions : scratch[s] # Torn => scratch'[s] # Torn
        /\ scratch'[turn[r].name] # Torn
    BY <1>0, <2>1, <2>2, <2>3 DEF CloseScratch, DirTypeOK
  <2>5. turn' = turn /\ pc' = [pc EXCEPT ![r] = "publish"]
    BY <1>2 DEF SaveEnd, Goto
  <2>6. \A q \in Reqs : pc[q] = "publish" => turn[q].name \in Sessions
    BY <1>0 DEF TurnsOK, LocalsOK, Named, Saving
  <2> QED BY <1>0, <2>4, <2>5, <2>6 DEF TurnsOK
<1>3. CASE Publish(r)
  <2>1. turn[r].name \in Sessions /\ scratch[turn[r].name] # Torn
    BY <1>0, <1>3 DEF Publish, TurnsOK, LocalsOK, Named, Saving
  <2>2. /\ \A s \in Sessions : blob'[s] # Torn
        /\ \A s \in Sessions : scratch[s] # Torn => scratch'[s] # Torn
    BY <1>0, <1>3, <2>1, TornAssumption
    DEF Publish, RenameScratch, DirTypeOK
  <2>3. turn' = turn /\ pc' = [pc EXCEPT ![r] = "clean"]
    BY <1>3 DEF Publish, Goto
  <2>4. \A q \in Reqs : pc[q] = "publish" => turn[q].name \in Sessions
    BY <1>0 DEF TurnsOK, LocalsOK, Named, Saving
  <2> QED BY <1>0, <2>2, <2>3, <2>4 DEF TurnsOK
<1>4. CASE Unlink(r)
  <2>1. /\ \A s \in Sessions : blob'[s] # Torn
        /\ \A s \in Sessions : scratch[s] # Torn => scratch'[s] # Torn
    BY <1>4, TornAssumption DEF Unlink, Remove
  <2>2. pc' = [pc EXCEPT ![r] = "done"]
    BY <1>4 DEF Unlink, Retire, Goto
  <2>3. \A q \in Reqs : pc[q] = "publish" => turn[q].name \in Sessions
    BY <1>0 DEF TurnsOK, LocalsOK, Named, Saving
  <2> QED BY <1>0, <2>1, <2>2, <2>3 DEF TurnsOK
<1>5. CASE LostWrite(r)
  <2> DEFINE c == kv[turn[r].steer]
  <2>1. turn[r].name \in Sessions /\ turn[r].steer \in SlotIds
    BY <1>0, <1>5 DEF LostWrite, TurnsOK, LocalsOK, Steered, Named
  <2>2. c \in Contents /\ c # Torn
    BY <1>0, <2>1, EmptyAssumption, TornAssumption DEF ServerTypeOK, Contents
  <2>3. /\ \A s \in Sessions : blob'[s] # Torn
        /\ \A s \in Sessions : scratch[s] # Torn => scratch'[s] # Torn
    BY <1>0, <1>5, <2>1, <2>2 DEF LostWrite, CloseScratch, DirTypeOK
  <2>4. \E l \in {"lost", "gone"} : pc' = [pc EXCEPT ![r] = l]
    BY <1>5 DEF LostWrite, Retire, Goto
  <2>5. \A q \in Reqs : pc[q] = "publish" => turn[q].name \in Sessions
    BY <1>0 DEF TurnsOK, LocalsOK, Named, Saving
  <2> QED BY <1>0, <2>3, <2>4, <2>5 DEF TurnsOK
<1>6. CASE LostPublish(r)
  BY <1>6 DEF LostPublish
<1>7. CASE UNCHANGED dirVars /\ ~SaveEnd(r)
  <2>1. PICK l \in PCs \ {"publish", "lostPublish"} : Goto(r, l)
    BY <1>7, RenameReached
  <2> QED BY <1>0, <1>7, <2>1, BlobFrame
<1> QED BY <1>1, <1>2, <1>3, <1>4, <1>5, <1>6, <1>7, DirWriters

\* Crashes write no file, and the saves they cut short rename nothing.
LEMMA CrashKeepsBlobs ==
    ASSUME TypeOK, BlobInv, ProxyCrash \/ BackendCrash
    PROVE  BlobInv'
<1>1. CASE ProxyCrash
  <2>1. \A r \in Reqs : pc'[r] \notin {"publish", "lostPublish"}
    BY <1>1 DEF ProxyCrash, AfterProxyCrash, Terminal
  <2> QED BY <1>1, <2>1
          DEF ProxyCrash, BlobInv, WholeBlobs, ScratchWhole, At, dirVars
<1>2. CASE BackendCrash
  <2>1. \A r \in Reqs : pc'[r] \in {"publish", "lostPublish"} =>
                            pc'[r] = pc[r] /\ turn'[r] = turn[r]
    BY <1>2 DEF BackendCrash, AfterBackendCrash
  <2> QED BY <1>2, <2>1
          DEF BackendCrash, BlobInv, WholeBlobs, ScratchWhole, At, dirVars
<1> QED BY <1>1, <1>2

\* The strengthened invariant.
LEMMA BlobsCorrect ==
    ASSUME "handler" \notin Leaves
    PROVE  Spec => [](TypeOK /\ GateExclusion /\ BlobInv)
<1>1. Init => BlobInv
  BY TornAssumption
  DEF Init, DirInit, BlobInv, WholeBlobs, ScratchWhole, At
<1>2. TypeOK /\ GateExclusion /\ BlobInv /\ [Next]_vars => BlobInv'
  <2> SUFFICES ASSUME TypeOK, GateExclusion, BlobInv, [Next]_vars
               PROVE  BlobInv'
    OBVIOUS
  <2>1. CASE UNCHANGED vars
    BY <2>1 DEF vars, dirVars, BlobInv, WholeBlobs, ScratchWhole, At
  <2>2. CASE Next
    BY <2>1, <2>2, TurnKeepsBlobs, CrashKeepsBlobs DEF Next, Quiet
  <2> QED BY <2>1, <2>2
<1> QED BY <1>1, <1>2, TypeCorrect, GateCorrect, PTL DEF Spec

\* R2: as long as the server drops no handler, what can be found under a
\* blob's name is complete, whatever saves fail and whatever process dies.
THEOREM BlobsWhole ==
    ASSUME "handler" \notin Leaves
    PROVE  Spec => []WholeBlobs
  BY BlobsCorrect, PTL DEF BlobInv
-----------------------------------------------------------------------------
(***************************************************************************)
(* The abstract store, under the same assumption.                          *)
(***************************************************************************)

\* A step of the abstract store, seen through the published blobs.
ForestStep == ForestView!Next \/ UNCHANGED <<blob, readers>>

\* Lookup begins and ends lookups of the store and changes nothing in it.
LEMMA AdmissionForest ==
    ASSUME TypeOK, GateExclusion, NEW r \in Reqs, Admission(r)
    PROVE  ForestStep
<1> USE DEF ForestStep, gateVars, dirVars
<1>1. CASE MatchCold(r)
  <2>1. ForestView!BeginLookup(r)
    BY <1>1 DEF MatchCold, AcquireShared, ForestView!BeginLookup, dirVars
  <2> QED BY <2>1 DEF ForestView!Next
<1>2. CASE PickError(r) \/ Choose(r)
  <2>1. /\ r \in readers
        /\ readers' = readers \ {r}
        /\ UNCHANGED blob
    BY <1>2 DEF PickError, Choose, ReleaseShared, GateExclusion, At, Matching
  <2>2. ForestView!EndLookups({r})
    BY <2>1 DEF ForestView!EndLookups
  <2> QED BY <2>2 DEF ForestView!Next
<1>3. CASE UNCHANGED <<blob, readers>>
  BY <1>3
<1> QED
  BY <1>1, <1>2, <1>3
  DEF Admission, MatchHot, PickQuery, EvictQuery, EvictError, Victim, Restore, Mark

\* The rename of save_slot puts one complete state into the store, while no
\* lookup goes on; no other step of save_slot shows.
LEMMA SaveSlotForest ==
    ASSUME TypeOK, GateExclusion, BlobInv, NEW r \in Reqs, SaveSlot(r)
    PROVE  ForestStep
<1> USE DEF ForestStep, gateVars, dirVars
<1>1. CASE Publish(r)
  <2> DEFINE s == turn[r].name
             c == scratch[s]
  <2>1. s \in Sessions /\ c # Torn
    BY <1>1 DEF Publish, TypeOK, TurnsOK, LocalsOK, Named, Saving, At, BlobInv,
                ScratchWhole
  <2>2. c \in Contents
    BY <1>1, <2>1 DEF Publish, RenameScratch, CanRename, TypeOK, DirTypeOK, Files
  <2>3. readers = {} /\ UNCHANGED readers
    BY <1>1 DEF Publish, At, GateExclusion, Saving
  <2>4. ForestView!Put(s, c)
    BY <1>1, <2>3 DEF Publish, RenameScratch, ForestView!Put
  <2> QED BY <2>1, <2>2, <2>4 DEF ForestView!Next
<1>2. CASE SaveEnd(r)
  <2>1. \A s \in Sessions : blob[s] # Torn
    BY DEF BlobInv, WholeBlobs
  <2>2. blob' = blob
    BY <1>2, <2>1 DEF SaveEnd, CloseScratch, TypeOK, DirTypeOK
  <2> QED BY <1>2, <2>2 DEF SaveEnd
<1>3. CASE UNCHANGED <<blob, readers>>
  BY <1>3
<1> QED
  BY <1>1, <1>2, <1>3
  DEF SaveSlot, GateExclusive, AcquireExclusive, SaveStart, OpenScratch,
      SaveError, PublishError, Published, NotPublished, ReleaseExclusive

\* The quota evicts; a late write of the backend finds no torn blob to touch.
LEMMA ServiceForest ==
    ASSUME TypeOK, BlobInv, NEW r \in Reqs, Service(r) \/ Leftover(r)
    PROVE  ForestStep
<1> USE DEF ForestStep, gateVars, dirVars
<1>1. CASE Unlink(r)
  <2> DEFINE keys == {s \in Sessions : <<"blob", s>> \in turn[r].doomed}
  <2>1. ForestView!Evict(keys)
    BY <1>1 DEF Unlink, Remove, ForestView!Evict
  <2> QED BY <2>1 DEF ForestView!Next
<1>2. CASE LostWrite(r)
  <2>1. \A s \in Sessions : blob[s] # Torn
    BY DEF BlobInv, WholeBlobs
  <2>2. blob' = blob
    BY <1>2, <2>1 DEF LostWrite, CloseScratch, TypeOK, DirTypeOK
  <2> QED BY <1>2, <2>2 DEF LostWrite
<1>3. CASE LostPublish(r)
  BY <1>3 DEF LostPublish, BlobInv, ScratchWhole
<1>4. CASE UNCHANGED <<blob, readers>>
  BY <1>4
<1> QED
  BY <1>1, <1>2, <1>3, <1>4
  DEF Service, Decode, ChatError, RunError, Finish, ClaimSlot, Scan, Leftover,
      Cancel

\* Clients do not show, and a dead proxy only ends the lookups it was in.
LEMMA EnvironmentForest ==
    ASSUME TypeOK, "handler" \notin Leaves,
           (\E r \in Reqs : Environment(r)) \/ ProxyCrash \/ BackendCrash
    PROVE  ForestStep
<1> USE DEF ForestStep, gateVars, dirVars
<1>1. CASE (\E r \in Reqs : Environment(r)) \/ BackendCrash
  BY <1>1 DEF Environment, Arrive, Bypass, Hangup, HandlerDrop, BackendCrash
<1>2. CASE ProxyCrash /\ readers = {}
  BY <1>2 DEF ProxyCrash
<1>3. CASE ProxyCrash /\ readers # {}
  <2>1. ForestView!EndLookups(readers)
    BY <1>3 DEF ProxyCrash, ForestView!EndLookups
  <2> QED BY <2>1 DEF ForestView!Next, TypeOK, GateTypeOK
<1> QED BY <1>1, <1>2, <1>3

\* Every step is a step of the store or shows as none.
LEMMA NextForest ==
    ASSUME TypeOK, GateExclusion, BlobInv, "handler" \notin Leaves, [Next]_vars
    PROVE  ForestStep
<1>1. CASE UNCHANGED vars
  BY <1>1 DEF vars, gateVars, dirVars, ForestStep
<1>2. CASE Next
  BY <1>1, <1>2, AdmissionForest, SaveSlotForest, ServiceForest,
     EnvironmentForest DEF Next, Progress, Quiet
<1> QED BY <1>1, <1>2

\* R1 and R2 together: the request path implements the store of complete
\* states, one for each session, that nobody puts into during a lookup.
THEOREM StoreImplemented ==
    ASSUME "handler" \notin Leaves
    PROVE  Spec => ImplementsForest
<1>1. Init => ForestView!Init
  BY DEF Init, GateInit, DirInit, ForestView!Init
<1>2. TypeOK /\ GateExclusion /\ BlobInv /\ [Next]_vars
        => [ForestView!Next]_<<blob, readers>>
  BY NextForest DEF ForestStep
<1> QED
  BY <1>1, <1>2, BlobsCorrect, PTL DEF Spec, ImplementsForest, ForestView!Spec

\* R1: while a lookup holds the gate no blob appears or changes; at most it
\* is evicted.
THEOREM ForestSettled ==
    ASSUME "handler" \notin Leaves
    PROVE  Spec => SettledForest
<1>1. TypeOK /\ GateExclusion /\ BlobInv /\ [Next]_vars
        => \A s \in Sessions : blob'[s] \notin {blob[s], None} => readers = {}
  <2> SUFFICES ASSUME TypeOK, GateExclusion, BlobInv, [Next]_vars,
                      NEW s \in Sessions, blob'[s] \notin {blob[s], None}
               PROVE  readers = {}
    OBVIOUS
  <2>1. ForestView!Next
    BY NextForest DEF ForestStep
  <2> QED
    BY <2>1
    DEF ForestView!Next, ForestView!BeginLookup, ForestView!EndLookups,
        ForestView!Put, ForestView!Evict
<1> QED BY <1>1, BlobsCorrect, PTL DEF Spec, SettledForest

-----------------------------------------------------------------------------
(***************************************************************************)
(* Dirty slots and the turns that will save them.                          *)
(***************************************************************************)

\* A dirty slot has a turn that will save it.
DirtyHeld(i) ==
    slots[i].dirty =>
        \E r \in Reqs : /\ turn[r].steer = i
                        /\ pc[r] \in {"queued", "running", "claim", "gate"} \cup Saving

\* A turn that made a slot dirty goes on to save it, unless its backend call
\* or its save fails or its handler is dropped.
LEMMA DirtyStaysHeld ==
    ASSUME TypeOK, NEW r \in Reqs, Progress(r) \/ Environment(r),
           ~ChatError(r), ~RunError(r), ~HandlerDrop(r), ~NotPublished(r),
           NEW i \in SlotIds, DirtyHeld(i)
    PROVE  DirtyHeld(i)'
<1> DEFINE Held(l) == l \in {"queued", "running", "claim", "gate"} \cup Saving
<1> USE DEF At, Goto, Set, Saving
<1>0. /\ pc \in [Reqs -> PCs] /\ turn \in [Reqs -> Turn] /\ turn[r] \in Turn
      /\ slots \in [SlotIds -> SlotInfo]
      /\ \A q \in Reqs \ {r} : pc'[q] = pc[q] /\ turn'[q] = turn[q]
  BY OthersStay DEF TypeOK, TurnsOK, RegistryTypeOK
<1>1. SUFFICES ASSUME slots'[i].dirty
               PROVE  \E q \in Reqs : turn'[q].steer = i /\ Held(pc'[q])
  BY DEF DirtyHeld
<1>2. CASE Mark(r)
  <2>1. /\ turn'[r].steer = turn[r].steer /\ pc'[r] = "queued"
        /\ turn[r].steer \in SlotIds
    BY <1>0, <1>2 DEF Mark, TypeOK, TurnsOK, LocalsOK, Steered, Turn
  <2>2. CASE turn[r].steer = i
    BY <2>1, <2>2
  <2>3. CASE turn[r].steer # i
    <3>1. slots[i].dirty
      BY <1>0, <1>1, <1>2, <2>1, <2>3 DEF Mark, MarkDirty
    <3>2. PICK q \in Reqs : turn[q].steer = i /\ Held(pc[q])
      BY <3>1 DEF DirtyHeld
    <3> QED BY <1>0, <2>3, <3>2
  <2> QED BY <2>2, <2>3
<1>3. CASE ~Mark(r)
  <2>1. slots[i].dirty
    <3>1. CASE Published(r) \/ ClaimSlot(r)
      BY <1>0, <1>1, <3>1 DEF Published, MarkClean, ClaimSlot, Claim, SlotInfo
    <3>2. CASE Hangup(r)
      BY <1>0, <1>1, <3>2 DEF Hangup, Abandon, Unclaimed
    <3> QED BY <1>1, <1>3, <3>1, <3>2, RegistryWriters
  <2>2. PICK q \in Reqs : turn[q].steer = i /\ Held(pc[q])
    BY <2>1 DEF DirtyHeld
  <2>3. CASE q # r
    BY <1>0, <2>2, <2>3
  <2>4. CASE q = r
    <3>0. turn[r].steer = i /\ i # None /\ Held(pc[r])
      BY <2>2, <2>4, NoneAssumption
    <3>1. ~Published(r)
      <4>1. Published(r) => ~slots'[i].dirty
        BY <1>0, <3>0 DEF Published, MarkClean, SlotInfo
      <4> QED BY <1>1, <4>1
    <3>2. ~Hangup(r)
      <4>1. Hangup(r) => ~slots'[i].dirty
        BY <1>0, <3>0 DEF Hangup, Abandon, Unclaimed
      <4> QED BY <1>1, <4>1
    <3>3. CASE \/ GateExclusive(r) \/ SaveStart(r) \/ SaveEnd(r) \/ SaveError(r)
               \/ Publish(r) \/ PublishError(r) \/ Decode(r)
      BY <1>0, <3>0, <3>3
      DEF GateExclusive, SaveStart, SaveEnd, SaveError, Publish, PublishError,
          Decode
    <3>4. CASE Finish(r)
      BY <1>0, <3>0, <3>4 DEF Finish, Turn
    <3>5. CASE ClaimSlot(r)
      BY <1>0, <3>0, <3>5 DEF ClaimSlot, Turn
    <3>6. CASE \/ Admission(r) \/ Scan(r) \/ Unlink(r) \/ Leftover(r)
               \/ Arrive(r) \/ Bypass(r)
      BY <3>0, <3>6
      DEF Admission, MatchHot, MatchCold, PickQuery, PickError, Choose,
          EvictQuery, EvictError, Victim, Restore, Mark, Scan, Unlink, Leftover,
          Cancel, LostWrite, LostPublish, Arrive, Bypass
    <3> QED
      BY <3>1, <3>2, <3>3, <3>4, <3>5, <3>6
      DEF Progress, SaveSlot, Service, Environment
  <2> QED BY <2>3, <2>4
<1> QED BY <1>2, <1>3

\* GET /slots and restores may fail, clients may hang up and may go around
\* oLLM.
QuietWorld == /\ Faults \subseteq {"slots", "restore"}
              /\ "handler" \notin Leaves /\ Crashes = {}

\* A save finds the scratch file it renames: no turn plans to delete a
\* scratch file, as all there are belong to a save that goes on.
QuietTurn(r) ==
    /\ pc[r] \notin {"unsaved", "lostWrite", "lostPublish"}
    /\ pc[r] \in {"write", "publish"} => scratch[turn[r].name] # None
    /\ \A s \in Sessions : <<"scratch", s>> \notin turn[r].doomed

ScratchHeld(s) ==
    scratch[s] # None =>
        \E r \in Reqs : turn[r].name = s /\ pc[r] \in {"write", "publish"}

QuietInv == /\ \A i \in SlotIds : DirtyHeld(i)
            /\ \A r \in Reqs : QuietTurn(r)
            /\ \A s \in Sessions : ScratchHeld(s)

\* Saves fail only with the backend or the filesystem.
LEMMA SavesSucceed ==
    ASSUME QuietWorld, NEW r \in Reqs, QuietTurn(r)
    PROVE  /\ ~SaveError(r) /\ ~PublishError(r) /\ ~NotPublished(r)
           /\ ~ChatError(r) /\ ~RunError(r) /\ ~HandlerDrop(r)
           /\ ~LostWrite(r) /\ ~LostPublish(r)
  BY DEF QuietWorld, QuietTurn, SaveError, PublishError, CanRename,
         NotPublished, ChatError, RunError, HandlerDrop, LostWrite, LostPublish, At

\* The scratch files of saves that go on are left alone by other turns.
LEMMA ScratchStays ==
    ASSUME QuietWorld, TypeOK, GateExclusion, QuietInv,
           NEW r \in Reqs, Progress(r) \/ Environment(r)
    PROVE  /\ \A q \in Reqs : QuietTurn(q)'
           /\ \A s \in Sessions : ScratchHeld(s)'
<1> USE DEF At, Goto, Saving
<1>0. /\ QuietTurn(r) /\ pc \in [Reqs -> PCs] /\ turn \in [Reqs -> Turn]
      /\ scratch \in [Sessions -> Files]
      /\ \A q \in Reqs \ {r} : pc'[q] = pc[q] /\ turn'[q] = turn[q]
      /\ pc[r] \in {"save", "write", "publish"} =>
             turn[r].name \in Sessions /\ turn[r].steer \in SlotIds
      /\ \A q \in Reqs : pc[q] \in {"write", "publish"} => turn[q].name \in Sessions
  BY OthersStay
  DEF QuietInv, TypeOK, TurnsOK, DirTypeOK, LocalsOK, Named, Steered
<1>1. \A s \in Sessions : <<"scratch", s>> \notin turn'[r].doomed
  <2>1. CASE Scan(r)
    <3>1. PICK plan \in SUBSET {f \in Present : ~(f[1] = "scratch" /\ InFlight(f[2]))} :
              turn' = [turn EXCEPT ![r] = [Fresh(@.session) EXCEPT
                                               !.post = TRUE, !.doomed = plan]]
      BY <2>1 DEF Scan
    <3>2. turn'[r].doomed = plan
      BY <1>0, <3>1 DEF Fresh
    <3>3. ASSUME NEW s \in Sessions, <<"scratch", s>> \in plan PROVE FALSE
      <4>1. <<"scratch", s>> \in Present /\ ~InFlight(s)
        BY <3>1, <3>3
      <4>2. scratch[s] # None
        BY <4>1 DEF Present
      <4> QED BY <4>1, <4>2 DEF QuietInv, ScratchHeld, InFlight
    <3> QED BY <3>2, <3>3
  <2>2. CASE ~Scan(r)
    BY <1>0, <2>2, SessionsStay DEF QuietTurn
  <2> QED BY <2>1, <2>2
<1>2. CASE SaveStart(r)
  <2>1. /\ turn' = turn /\ pc'[r] = "write" /\ pc[r] = "save"
        /\ scratch' = [scratch EXCEPT ![turn[r].name] = Torn]
        /\ turn[r].name \in Sessions
    BY <1>0, <1>2 DEF SaveStart, OpenScratch
  <2>2. \A q \in Reqs : pc[q] \notin {"write", "publish"}
    BY <2>1 DEF GateExclusion
  <2> QED BY <1>0, <1>1, <2>1, <2>2, TornAssumption DEF QuietInv, QuietTurn, ScratchHeld
<1>3. CASE SaveEnd(r)
  <2>1. /\ turn' = turn /\ pc'[r] = "publish" /\ pc[r] = "write"
        /\ turn[r].name \in Sessions /\ kv[turn[r].steer] # None
        /\ scratch' = [scratch EXCEPT ![turn[r].name] =
                           IF @ = Torn THEN kv[turn[r].steer] ELSE @]
    BY <1>0, <1>3, NoneAssumption, EmptyAssumption
    DEF SaveEnd, CloseScratch, TypeOK, ServerTypeOK, Contents
  <2>2. \A s \in Sessions : scratch'[s] # None <=> scratch[s] # None
    BY <1>0, <2>1, TornAssumption
  <2> QED BY <1>0, <1>1, <2>1, <2>2 DEF QuietInv, QuietTurn, ScratchHeld
<1>4. CASE Publish(r)
  <2>1. /\ turn' = turn /\ pc'[r] = "clean" /\ pc[r] = "publish"
        /\ scratch' = [scratch EXCEPT ![turn[r].name] = None]
    BY <1>0, <1>4 DEF Publish, RenameScratch
  <2>2. \A q \in Reqs \ {r} : pc[q] \notin {"write", "publish"}
    BY <2>1 DEF GateExclusion
  <2> QED BY <1>0, <1>1, <2>1, <2>2 DEF QuietInv, QuietTurn, ScratchHeld
<1>5. ASSUME ~SaveStart(r), ~SaveEnd(r), ~Publish(r)
      PROVE  /\ \A q \in Reqs : QuietTurn(q)'
             /\ \A s \in Sessions : ScratchHeld(s)'
  <2>1. ~LostWrite(r) /\ ~LostPublish(r)
    BY <1>0, SavesSucceed
  <2>2. scratch' = scratch
    <3>1. CASE Unlink(r)
      BY <1>0, <3>1 DEF Unlink, Remove, QuietTurn
    <3> QED BY <1>5, <2>1, <3>1, DirWriters DEF dirVars
  <2>3. /\ pc[r] \notin {"write", "publish"}
        /\ pc'[r] \notin {"write", "publish", "unsaved", "lostWrite", "lostPublish"}
    <3> USE <1>0, <1>5, SavesSucceed DEF Retire, AfterPlacement, Terminal
    <3>1. CASE Admission(r)
      BY <3>1 DEF Admission, MatchHot, MatchCold, PickQuery, PickError, Choose,
                  EvictQuery, EvictError, Victim, Restore, Mark
    <3>2. CASE SaveSlot(r)
      BY <3>2 DEF SaveSlot, GateExclusive, Published
    <3>3. CASE Service(r) \/ Leftover(r)
      BY <3>3 DEF Service, Decode, Finish, ClaimSlot, Scan, Unlink, Leftover, Cancel
    <3>4. CASE Environment(r)
      BY <3>4 DEF Environment, Arrive, Bypass, Hangup
    <3> QED BY <3>1, <3>2, <3>3, <3>4 DEF Progress
  <2> QED BY <1>0, <1>1, <2>2, <2>3 DEF QuietInv, QuietTurn, ScratchHeld
<1> QED BY <1>2, <1>3, <1>4, <1>5

LEMMA QuietCorrect ==
    ASSUME QuietWorld
    PROVE  Spec => []QuietInv
<1>1. Init => QuietInv
  BY DEF Init, RegistryInit, DirInit, QuietInv, DirtyHeld, QuietTurn,
         ScratchHeld, Unclaimed, Fresh
<1>2. TypeOK /\ GateExclusion /\ QuietInv /\ [Next]_vars => QuietInv'
  <2> SUFFICES ASSUME TypeOK, GateExclusion, QuietInv, [Next]_vars
               PROVE  QuietInv'
    OBVIOUS
  <2>1. CASE UNCHANGED vars
    BY <2>1 DEF vars, dirVars, QuietInv, DirtyHeld, QuietTurn, ScratchHeld
  <2>2. ASSUME NEW r \in Reqs, Progress(r) \/ Environment(r) PROVE QuietInv'
    <3>1. ASSUME NEW i \in SlotIds PROVE DirtyHeld(i)'
      BY <2>2, SavesSucceed, DirtyStaysHeld DEF QuietInv
    <3> QED BY <2>2, <3>1, ScratchStays DEF QuietInv
  <2> QED
    BY <2>1, <2>2 DEF Next, ProxyCrash, BackendCrash, Quiet, QuietWorld
<1> QED BY <1>1, <1>2, TypeCorrect, GateCorrect, PTL DEF Spec

\* Nothing is left unpublished once every turn has been served: however
\* turns, saves, evictions and steals interleave, whatever goes around oLLM,
\* and whichever clients hang up, the last turn steered to a slot is
\* followed by a save of that slot.
THEOREM NothingLeftUnsaved ==
    ASSUME QuietWorld
    PROVE  Spec => []QuietIsClean
<1>1. QuietInv => QuietIsClean
  BY DEF QuietInv, DirtyHeld, QuietIsClean, Terminal, Saving
<1> QED BY <1>1, QuietCorrect, PTL
=============================================================================
