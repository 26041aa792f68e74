---------------------------- MODULE SettledProofs ----------------------------
(***************************************************************************)
(* What the request path keeps of settled traffic, where a turn arrives    *)
(* only when the one before is answered and saved, for any number of       *)
(* turns, sessions and slots.  Each theorem says which faults, departures  *)
(* and crashes it allows for.                                              *)
(***************************************************************************)
EXTENDS ProxyProofs

-----------------------------------------------------------------------------
(***************************************************************************)
(* One turn at a time.                                                     *)
(***************************************************************************)

\* A turn under way that did not come through the bypass.
KeyedTurn(r) == Attended(r) /\ turn[r].session # None

OneTurn == /\ \A q, r \in Reqs : KeyedTurn(q) /\ KeyedTurn(r) => q = r
           /\ \A r \in Reqs : At(r, "new") => turn[r].session = None

\* In settled traffic a turn arrives when no other is under way.
LEMMA TurnKeepsOne ==
    ASSUME Traffic = "settled", TypeOK, OneTurn, NEW r \in Reqs,
           Progress(r) \/ Environment(r)
    PROVE  OneTurn'
<1> USE DEF OneTurn, KeyedTurn, Attended, At
<1>0. /\ \A q \in Reqs \ {r} : pc'[q] = pc[q] /\ turn'[q] = turn[q]
      /\ pc \in [Reqs -> PCs] /\ turn \in [Reqs -> Turn]
  BY OthersStay DEF TypeOK, TurnsOK
<1>1. PICK l \in PCs \ {"new"} :
          /\ pc' = [pc EXCEPT ![r] = l]
          /\ l \in UnderWay => Arrive(r) \/ Bypass(r) \/ pc[r] \in UnderWay
  BY StepsMove
<1>2. CASE Arrive(r)
  <2>1. \A q \in Reqs : ~Attended(q)
    BY <1>2 DEF Arrive, MayArrive
  <2> QED BY <1>0, <1>1, <2>1
<1>3. CASE Bypass(r)
  <2>1. turn'[r].session = None
    BY <1>0, <1>3 DEF Bypass, Set, Turn
  <2> QED BY <1>0, <1>1, <2>1
<1>4. CASE ~Arrive(r) /\ ~Bypass(r)
  <2>1. turn'[r].session = turn[r].session
    BY <1>4, SessionsStay
  <2>2. pc'[r] = l /\ (l \in UnderWay => pc[r] \in UnderWay)
    BY <1>0, <1>1, <1>4
  <2>3. (pc'[r] \notin {"new"} \cup Detached \cup Terminal)
           => pc[r] \notin {"new"} \cup Detached \cup Terminal
    BY <2>2 DEF UnderWay
  <2> QED BY <1>0, <1>1, <2>1, <2>2, <2>3
<1> QED BY <1>2, <1>3, <1>4

\* A crash brings no turn under way.
LEMMA CrashKeepsOne ==
    ASSUME TypeOK, OneTurn, ProxyCrash \/ BackendCrash
    PROVE  OneTurn'
<1> USE DEF OneTurn, KeyedTurn, Attended, At, Detached, Terminal
<1>1. CASE ProxyCrash
  <2>1. \A r \in Reqs : /\ pc'[r] \in {"new"} \cup Detached \cup Terminal
                        /\ At(r, "new")' => At(r, "new")
                        /\ turn'[r].session = turn[r].session
    BY <1>1, FreshType DEF ProxyCrash, AfterProxyCrash, TypeOK, TurnsOK, Turn
  <2> QED BY <2>1
<1>2. CASE BackendCrash
  <2>1. \A r \in Reqs : /\ Attended(r)' => Attended(r)
                        /\ At(r, "new")' => At(r, "new")
                        /\ turn'[r].session = turn[r].session
    BY <1>2, FreshType DEF BackendCrash, AfterBackendCrash, TypeOK, TurnsOK, Turn
  <2> QED BY <2>1
<1> QED BY <1>1, <1>2

-----------------------------------------------------------------------------
(***************************************************************************)
(* What the steps that place a turn, and those that end a save, leave in   *)
(* its locals.                                                             *)
(***************************************************************************)

\* The locals that such a step leaves as they are.
SameTurn(r) == /\ turn'[r].session = turn[r].session
               /\ turn'[r].post = turn[r].post
               /\ turn'[r].hit = turn[r].hit

LEMMA ChooseLocals ==
    ASSUME TypeOK, NEW r \in Reqs, Choose(r)
    PROVE  /\ SameTurn(r)
           /\ \/ /\ pc'[r] = AfterPlacement(r)
                 /\ turn'[r].steer \in FreeSlots(turn[r].seen)
              \/ /\ pc'[r] = "evict" /\ FreeSlots(turn[r].seen) = {}
                 /\ turn'[r].steer = turn[r].steer
<1>0. pc \in [Reqs -> PCs] /\ turn \in [Reqs -> Turn] /\ turn[r] \in Turn
  BY DEF TypeOK, TurnsOK
<1>1. ASSUME NEW i \in FreeSlots(turn[r].seen), Goto(r, AfterPlacement(r)),
             turn' = [turn EXCEPT ![r] = [@ EXCEPT !.steer = i, !.seen = {}]]
      PROVE  /\ SameTurn(r) /\ pc'[r] = AfterPlacement(r)
             /\ turn'[r].steer = i
  BY <1>0, <1>1 DEF SameTurn, Goto, Turn
<1>2. ASSUME Set(r, "seen", {}), Goto(r, "evict")
      PROVE  SameTurn(r) /\ pc'[r] = "evict" /\ turn'[r].steer = turn[r].steer
  BY <1>0, <1>2 DEF SameTurn, Set, Goto, Turn
<1> QED BY <1>1, <1>2 DEF Choose

LEMMA VictimLocals ==
    ASSUME TypeOK, NEW r \in Reqs, Victim(r)
    PROVE  /\ SameTurn(r)
           /\ \/ \E i \in EvictableSlots(turn[r].seen) :
                    /\ pc'[r] = IF slots[i].session = None
                               THEN AfterPlacement(r) ELSE "gate"
                    /\ turn'[r].steer = i
                    /\ turn'[r].name = slots[i].session
              \/ pc'[r] = "queued" /\ turn'[r].steer = turn[r].steer
<1>0. pc \in [Reqs -> PCs] /\ turn \in [Reqs -> Turn] /\ turn[r] \in Turn
  BY DEF TypeOK, TurnsOK
<1>1. ASSUME NEW i \in EvictableSlots(turn[r].seen), VictimName(r, i),
             Goto(r, IF slots[i].session = None THEN AfterPlacement(r) ELSE "gate")
      PROVE  /\ SameTurn(r)
             /\ pc'[r] = IF slots[i].session = None
                        THEN AfterPlacement(r) ELSE "gate"
             /\ turn'[r].steer = i
             /\ turn'[r].name = slots[i].session
  BY <1>0, <1>1 DEF SameTurn, VictimName, Goto, Turn
<1>2. ASSUME Set(r, "seen", {}), Goto(r, "queued")
      PROVE  SameTurn(r) /\ pc'[r] = "queued" /\ turn'[r].steer = turn[r].steer
  BY <1>0, <1>2 DEF SameTurn, Set, Goto, Turn
<1> QED BY <1>1, <1>2 DEF Victim

LEMMA SavedLocals ==
    ASSUME TypeOK, NEW r \in Reqs
    PROVE  /\ Published(r) =>
                  /\ SameTurn(r) /\ turn'[r].steer = turn[r].steer
                  /\ pc'[r] = IF turn[r].post THEN "scan" ELSE AfterPlacement(r)
           /\ NotPublished(r) =>
                  /\ SameTurn(r) /\ turn'[r].steer = None
                  /\ pc'[r] = IF turn[r].post THEN "scan" ELSE "queued"
<1>0. pc \in [Reqs -> PCs] /\ turn \in [Reqs -> Turn] /\ turn[r] \in Turn
  BY DEF TypeOK, TurnsOK
<1>1. ASSUME Published(r)
      PROVE  /\ SameTurn(r) /\ turn'[r].steer = turn[r].steer
             /\ pc'[r] = IF turn[r].post THEN "scan" ELSE AfterPlacement(r)
  BY <1>0, <1>1 DEF Published, SameTurn, Set, Goto, Turn
<1>2. ASSUME NotPublished(r)
      PROVE  /\ SameTurn(r) /\ turn'[r].steer = None
             /\ pc'[r] = IF turn[r].post THEN "scan" ELSE "queued"
  BY <1>0, <1>2 DEF NotPublished, SameTurn, Goto, Turn
<1> QED BY <1>1, <1>2

-----------------------------------------------------------------------------
(***************************************************************************)
(* The stages of a turn, in any traffic.                                   *)
(***************************************************************************)

\* No slot is picked yet.
Unplaced == {"new", "match", "evict", "victim"} \cup Matching

\* The response has not ended.
Unanswered == Unplaced \cup {"restore", "mark", "queued", "running"}

Stage(r) == /\ pc[r] \in Unplaced => turn[r].steer = None
            /\ pc[r] \in Unanswered => ~turn[r].post
            /\ pc[r] \in {"claim", "scan", "unlink"} => turn[r].post

Stages == \A r \in Reqs : Stage(r)

\* The step of a turn leads to a stage its locals fit.
LEMMA TurnKeepsStages ==
    ASSUME TypeOK, Stages, NEW r \in Reqs, Progress(r) \/ Environment(r)
    PROVE  Stages'
<1>0. /\ pc \in [Reqs -> PCs] /\ turn \in [Reqs -> Turn] /\ turn[r] \in Turn
      /\ \A q \in Reqs \ {r} : pc'[q] = pc[q] /\ turn'[q] = turn[q]
  BY OthersStay DEF TypeOK, TurnsOK
<1>1. SUFFICES Stage(r)'
  BY <1>0 DEF Stages, Stage
<1> USE DEF Stage, Stages, Unplaced, Unanswered, At, Goto, Set, Retire, Fresh,
            Saving, Matching, Detached, Terminal
<1>2. AfterPlacement(r) \in {"restore", "mark"}
  BY DEF AfterPlacement
<1>3. CASE MatchHot(r) \/ MatchCold(r) \/ PickQuery(r) \/ PickError(r)
  BY <1>0, <1>3 DEF MatchHot, MatchCold, PickQuery, PickError, Turn
<1>4. CASE EvictQuery(r) \/ EvictError(r)
  BY <1>0, <1>4 DEF EvictQuery, EvictError, Turn
<1>5. CASE Choose(r)
  BY <1>2, <1>5, ChooseLocals DEF Choose, SameTurn
<1>6. CASE Victim(r)
  BY <1>2, <1>6, VictimLocals DEF Victim, SameTurn
<1>7. CASE Restore(r) \/ Mark(r)
  BY <1>0, <1>7 DEF Restore, Mark, Turn
<1>8. CASE SaveSlot(r)
  <2>1. CASE Published(r) \/ NotPublished(r)
    BY <1>2, <2>1, SavedLocals DEF Published, NotPublished, SameTurn
  <2>2. CASE ~Published(r) /\ ~NotPublished(r)
    BY <1>0, <1>8, <2>2
    DEF SaveSlot, GateExclusive, SaveStart, SaveEnd, SaveError, Publish,
        PublishError
  <2> QED BY <2>1, <2>2
<1>9. CASE Decode(r) \/ ChatError(r) \/ RunError(r)
  BY <1>0, <1>9 DEF Decode, ChatError, RunError, Turn
<1>10. CASE Finish(r)
  BY <1>0, <1>10 DEF Finish, Turn
<1>11. CASE ClaimSlot(r) \/ Unlink(r)
  BY <1>0, <1>11 DEF ClaimSlot, Unlink, Turn
<1>12. CASE Scan(r)
  <2>1. PICK plan : turn' = [turn EXCEPT ![r] = [Fresh(@.session) EXCEPT
                                                     !.post = TRUE, !.doomed = plan]]
    BY <1>12 DEF Scan
  <2> QED BY <1>0, <1>12, <2>1 DEF Scan
<1>13. CASE Leftover(r)
  BY <1>0, <1>13 DEF Leftover, Cancel, LostWrite, LostPublish, Turn
<1>14. CASE Arrive(r)
  BY <1>0, <1>14 DEF Arrive, Turn
<1>15. CASE Bypass(r) \/ Hangup(r)
  BY <1>0, <1>15 DEF Bypass, Hangup, Turn
<1>16. CASE HandlerDrop(r)
  BY <1>0, <1>16 DEF HandlerDrop, AfterDrop, Turn
<1> QED
  BY <1>3, <1>4, <1>5, <1>6, <1>7, <1>8, <1>9, <1>10, <1>11, <1>12, <1>13,
     <1>14, <1>15, <1>16
  DEF Progress, Admission, Service, Environment

LEMMA CrashKeepsStages ==
    ASSUME TypeOK, Stages, ProxyCrash \/ BackendCrash
    PROVE  Stages'
<1> USE DEF Stages, Stage, Unplaced, Unanswered, Saving, Matching, Terminal, Fresh
<1>1. CASE ProxyCrash
  BY <1>1 DEF ProxyCrash, AfterProxyCrash, TypeOK, TurnsOK
<1>2. CASE BackendCrash
  BY <1>2 DEF BackendCrash, AfterBackendCrash, TypeOK, TurnsOK
<1> QED BY <1>1, <1>2
-----------------------------------------------------------------------------
(***************************************************************************)
(* What the turn under way knows of its slot: no other turn writes the     *)
(* registry meanwhile, and those the registry does not know of never do.   *)
(***************************************************************************)

\* A slot is held for the session it was marked with, or for the one it is
\* saved for, until the save ends; one that was picked free or was saved is
\* not dirty.
ClaimHeld(r) ==
    LET i == turn[r].steer IN
    /\ pc[r] \in {"queued", "running", "claim"} /\ i # None =>
           slots[i] = [session |-> turn[r].session, dirty |-> TRUE]
    /\ pc[r] \in {"gate"} \cup Saving =>
           /\ slots[i] = [session |-> turn[r].name, dirty |-> TRUE]
           /\ turn[r].post => turn[r].name = turn[r].session
    /\ At(r, "restore") => ~slots[i].dirty
    /\ At(r, "mark") => ~slots[i].dirty \/ slots[i].session = turn[r].session

SettledInv == /\ TypeOK /\ Stages /\ OneTurn
              /\ \A r \in Reqs : ClaimHeld(r)

\* Where a turn holds a claim it is under way with a session.
LEMMA ClaimIsKeyed ==
    ASSUME TypeOK, NEW r \in Reqs
    PROVE  ClaimHeld(r) \/ KeyedTurn(r)
  BY NoneAssumption
  DEF TypeOK, TurnsOK, LocalsOK, ClaimHeld, KeyedTurn, Attended, At,
      Sessionless, Saving, Detached, Terminal

\* A turn without a session, or over, leaves the registry as it is.
LEMMA OthersKeepRegistry ==
    ASSUME TypeOK, NEW r \in Reqs, Progress(r) \/ Environment(r), ~KeyedTurn(r)
    PROVE  UNCHANGED slots
<1> USE DEF TypeOK, TurnsOK, LocalsOK, KeyedTurn, Attended, At, Sessionless,
            Saving, Detached, Terminal
<1>1. ~Mark(r) /\ ~Published(r) /\ ~ClaimSlot(r)
  BY DEF Mark, Published, ClaimSlot
<1>2. ASSUME Hangup(r) PROVE UNCHANGED slots
  BY <1>2 DEF Hangup
<1> QED BY <1>1, <1>2, RegistryWriters

\* A step of r leaves the claim of any other turn.
LEMMA OthersKeepClaims ==
    ASSUME SettledInv, NEW r \in Reqs, Progress(r) \/ Environment(r),
           TypeOK', OneTurn', NEW q \in Reqs \ {r}
    PROVE  ClaimHeld(q)'
<1>1. pc'[q] = pc[q] /\ turn'[q] = turn[q]
  BY OthersStay DEF SettledInv
<1>2. CASE ~KeyedTurn(q)
  <2>1. ~KeyedTurn(q)'
    BY <1>1, <1>2 DEF KeyedTurn, Attended
  <2> QED
    BY <2>1, NoneAssumption
    DEF TypeOK, TurnsOK, LocalsOK, ClaimHeld, KeyedTurn, Attended, At,
        Sessionless, Saving, Detached, Terminal
<1>3. CASE KeyedTurn(q)
  <2>1. ~KeyedTurn(r)
    BY <1>3 DEF SettledInv, OneTurn
  <2>2. UNCHANGED slots
    BY <2>1, OthersKeepRegistry DEF SettledInv
  <2> QED BY <1>1, <2>2 DEF SettledInv, ClaimHeld, At
<1> QED BY <1>2, <1>3

\* The steps of an admission find a slot that is free, or one whose dirty
\* owner they save first.
LEMMA AdmissionClaims ==
    ASSUME SettledInv, DirtyIsOwned, NEW r \in Reqs, Admission(r)
    PROVE  ClaimHeld(r)'
<1> USE DEF ClaimHeld, At, Goto, Set, Saving, Matching
<1>0. /\ TypeOK /\ Stage(r) /\ ClaimHeld(r)
      /\ pc \in [Reqs -> PCs] /\ turn \in [Reqs -> Turn] /\ turn[r] \in Turn
      /\ slots \in [SlotIds -> SlotInfo]
  BY DEF SettledInv, Stages, TypeOK, TurnsOK, RegistryTypeOK
<1>1. AfterPlacement(r) \in {"restore", "mark"}
  BY DEF AfterPlacement
<1>2. CASE MatchHot(r)
  <2>1. PICK i \in HotSlots(turn[r].session) :
            turn' = [turn EXCEPT ![r].steer = i] /\ pc' = [pc EXCEPT ![r] = "mark"]
    BY <1>2 DEF MatchHot
  <2>2. turn'[r].steer = i /\ turn'[r].session = turn[r].session /\ pc'[r] = "mark"
    BY <1>0, <2>1 DEF Turn
  <2> QED BY <1>2, <2>2 DEF MatchHot, HotSlots
<1>3. CASE MatchCold(r) \/ PickQuery(r) \/ PickError(r) \/ EvictQuery(r)
  BY <1>0, <1>3 DEF MatchCold, PickQuery, PickError, EvictQuery
<1>4. CASE EvictError(r)
  BY <1>0, <1>4 DEF EvictError, Stage, Unplaced
<1>5. CASE Choose(r)
  BY <1>0, <1>1, <1>5, ChooseLocals DEF Choose, FreeSlots
<1>6. CASE Victim(r)
  <2>1. turn[r].steer = None /\ ~turn[r].post
    BY <1>0, <1>6 DEF Victim, Stage, Unplaced, Unanswered
  <2>2. CASE pc'[r] = "queued" /\ turn'[r].steer = turn[r].steer
    BY <2>1, <2>2
  <2>3. ASSUME NEW i \in EvictableSlots(turn[r].seen),
               pc'[r] = IF slots[i].session = None THEN AfterPlacement(r) ELSE "gate",
               turn'[r].steer = i, turn'[r].name = slots[i].session
        PROVE  ClaimHeld(r)'
    <3>1. slots[i].session # None /\ slots[i].dirty /\ slots[i] \in SlotInfo
      BY <1>0 DEF EvictableSlots, DirtyIsOwned
    <3>2. slots[i] = [session |-> slots[i].session, dirty |-> TRUE]
      BY <3>1 DEF SlotInfo
    <3>3. ~turn'[r].post /\ slots' = slots
      BY <1>0, <1>6, <2>1, VictimLocals DEF SameTurn, Victim
    <3> QED BY <2>3, <3>1, <3>2, <3>3
  <2> QED BY <1>0, <1>6, <2>2, <2>3, VictimLocals
<1>7. CASE Restore(r)
  BY <1>0, <1>7 DEF Restore
<1>8. CASE Mark(r)
  <2>1. turn[r].steer \in SlotIds
    BY <1>0, <1>8 DEF Mark, TypeOK, TurnsOK, LocalsOK, Steered
  <2> QED BY <1>0, <1>8, <2>1 DEF Mark, MarkDirty, Turn
<1> QED
  BY <1>2, <1>3, <1>4, <1>5, <1>6, <1>7, <1>8 DEF Admission

\* A save keeps its slot dirty until it has published.
LEMMA SaveSlotClaims ==
    ASSUME SettledInv, NEW r \in Reqs, SaveSlot(r)
    PROVE  ClaimHeld(r)'
<1> USE DEF ClaimHeld, At, Goto, Saving
<1>0. /\ TypeOK /\ Stage(r) /\ ClaimHeld(r)
      /\ pc \in [Reqs -> PCs] /\ turn[r] \in Turn /\ slots \in [SlotIds -> SlotInfo]
  BY DEF SettledInv, Stages, TypeOK, TurnsOK, RegistryTypeOK
<1>1. CASE Published(r)
  <2>1. turn[r].steer \in SlotIds
    BY <1>0, <1>1 DEF Published, TypeOK, TurnsOK, LocalsOK, Steered
  <2>2. turn'[r].steer = turn[r].steer /\ pc'[r] \in {"scan", "restore", "mark"}
    BY <1>0, <1>1, SavedLocals DEF AfterPlacement
  <2>3. ~slots'[turn[r].steer].dirty
    BY <1>0, <1>1, <2>1 DEF Published, MarkClean, SlotInfo
  <2> QED BY <2>2, <2>3
<1>2. CASE NotPublished(r)
  BY <1>0, <1>2, SavedLocals
<1>3. CASE ~Published(r) /\ ~NotPublished(r)
  BY <1>0, <1>3
  DEF SaveSlot, GateExclusive, SaveStart, SaveEnd, SaveError, Publish,
      PublishError
<1> QED BY <1>1, <1>2, <1>3

\* Decoding leaves the mark; the claim and the save confirm it.
LEMMA ServiceClaims ==
    ASSUME SettledInv, NEW r \in Reqs, Service(r)
    PROVE  ClaimHeld(r)'
<1> USE DEF ClaimHeld, At, Goto, Set, Retire, Saving, Terminal
<1>0. /\ TypeOK /\ Stage(r) /\ ClaimHeld(r)
      /\ pc \in [Reqs -> PCs] /\ turn \in [Reqs -> Turn] /\ turn[r] \in Turn
      /\ slots \in [SlotIds -> SlotInfo]
  BY DEF SettledInv, Stages, TypeOK, TurnsOK, RegistryTypeOK
<1>1. CASE Decode(r) \/ ChatError(r) \/ RunError(r)
  BY <1>0, <1>1 DEF Decode, ChatError, RunError
<1>2. CASE Finish(r)
  <2>1. CASE turn[r].steer = None
    BY <1>0, <1>2, <2>1 DEF Finish
  <2>2. CASE turn[r].steer # None
    <3>1. /\ turn'[r].steer = turn[r].steer /\ turn'[r].session = turn[r].session
          /\ pc'[r] = "claim" /\ At(r, "running") /\ slots' = slots
      BY <1>0, <1>2, <2>2 DEF Finish, Turn
    <3> QED BY <1>0, <3>1
  <2> QED BY <2>1, <2>2
<1>3. CASE ClaimSlot(r)
  <2>1. turn[r].steer \in SlotIds
    BY <1>0, <1>3 DEF ClaimSlot, TypeOK, TurnsOK, LocalsOK, Steered
  <2>2. slots[turn[r].steer] = [session |-> turn[r].session, dirty |-> TRUE]
    BY <1>0, <1>3, <2>1, NoneAssumption DEF ClaimSlot
  <2>3. slots'[turn[r].steer] = [session |-> turn[r].session, dirty |-> TRUE]
    <3> DEFINE i == turn[r].steer  s == turn[r].session
    <3>1. slots' = [slots EXCEPT ![i] = [slots[i] EXCEPT !.session = s]]
      BY <1>3 DEF ClaimSlot, Claim
    <3>2. slots[i].session = s /\ slots[i].dirty = TRUE
      BY <2>2
    <3>3. [slots[i] EXCEPT !.session = s] = [session |-> s, dirty |-> TRUE]
      BY <1>0, <2>1, <3>2 DEF SlotInfo
    <3> QED BY <1>0, <2>1, <3>1, <3>3
  <2>4. /\ turn'[r].steer = turn[r].steer /\ turn'[r].session = turn[r].session
        /\ turn'[r].name = turn[r].session /\ pc'[r] = "gate"
    BY <1>0, <1>3 DEF ClaimSlot, Turn
  <2> QED BY <2>3, <2>4
<1>4. CASE Scan(r) \/ Unlink(r)
  BY <1>0, <1>4 DEF Scan, Unlink
<1> QED BY <1>1, <1>2, <1>3, <1>4 DEF Service

\* What is over, left behind or new holds no claim.
LEMMA EnvironmentClaims ==
    ASSUME SettledInv, NEW r \in Reqs, Leftover(r) \/ Environment(r)
    PROVE  ClaimHeld(r)'
<1> USE DEF ClaimHeld, At, Goto, Retire, Saving, Terminal, Detached
<1>0. /\ TypeOK /\ Stage(r) /\ ClaimHeld(r)
      /\ pc \in [Reqs -> PCs] /\ turn \in [Reqs -> Turn] /\ turn[r] \in Turn
  BY DEF SettledInv, Stages, TypeOK, TurnsOK
<1>1. CASE Leftover(r)
  BY <1>0, <1>1 DEF Leftover, Cancel, LostWrite, LostPublish
<1>2. CASE Arrive(r) \/ Hangup(r)
  BY <1>0, <1>2 DEF Arrive, Hangup
<1>3. CASE Bypass(r)
  BY <1>0, <1>3 DEF Bypass, Set, Stage, Unplaced, Turn
<1>4. CASE HandlerDrop(r)
  <2>1. pc'[r] = AfterDrop(pc[r])
    BY <1>0, <1>4 DEF HandlerDrop
  <2> QED BY <2>1 DEF AfterDrop
<1> QED BY <1>1, <1>2, <1>3, <1>4 DEF Environment

\* A crash leaves the claims of the turns that go on, or leaves none.
LEMMA CrashKeepsClaims ==
    ASSUME SettledInv, ProxyCrash \/ BackendCrash, NEW r \in Reqs
    PROVE  ClaimHeld(r)'
<1> USE DEF ClaimHeld, At, Saving, Terminal
<1>0. ClaimHeld(r)
  BY DEF SettledInv
<1>1. CASE ProxyCrash
  BY <1>1 DEF ProxyCrash, AfterProxyCrash
<1>2. CASE BackendCrash
  BY <1>0, <1>2 DEF BackendCrash, AfterBackendCrash
<1> QED BY <1>1, <1>2

\* The strengthened invariants.
LEMMA StagesCorrect == Spec => []Stages
<1>1. Init => Stages
  BY DEF Init, Stages, Stage, Unplaced, Unanswered, Saving, Matching, Fresh
<1>2. TypeOK /\ Stages /\ [Next]_vars => Stages'
  <2> SUFFICES ASSUME TypeOK, Stages, [Next]_vars PROVE Stages'
    OBVIOUS
  <2>1. CASE UNCHANGED vars
    BY <2>1 DEF vars, Stages, Stage
  <2>2. CASE Next
    BY <2>1, <2>2, TurnKeepsStages, CrashKeepsStages DEF Next, Quiet
  <2> QED BY <2>1, <2>2
<1> QED BY <1>1, <1>2, TypeCorrect, PTL DEF Spec

LEMMA SettledStep ==
    ASSUME Traffic = "settled", SettledInv, DirtyIsOwned, [Next]_vars,
           TypeOK', Stages'
    PROVE  SettledInv'
<1>1. ASSUME NEW r \in Reqs, Progress(r) \/ Environment(r) PROVE SettledInv'
  <2>1. OneTurn'
    BY <1>1, TurnKeepsOne DEF SettledInv
  <2>2. ClaimHeld(r)'
    BY <1>1, AdmissionClaims, SaveSlotClaims, ServiceClaims, EnvironmentClaims
    DEF Progress
  <2>3. \A q \in Reqs \ {r} : ClaimHeld(q)'
    BY <1>1, <2>1, OthersKeepClaims
  <2> QED BY <2>1, <2>2, <2>3 DEF SettledInv
<1>2. CASE ProxyCrash \/ BackendCrash
  BY <1>2, CrashKeepsOne, CrashKeepsClaims DEF SettledInv
<1>3. CASE UNCHANGED vars
  BY <1>3 DEF vars, SettledInv, OneTurn, KeyedTurn, Attended, ClaimHeld, At
<1> QED BY <1>1, <1>2, <1>3 DEF Next, Quiet

LEMMA SettledCorrect ==
    ASSUME Traffic = "settled"
    PROVE  Spec => []SettledInv
<1>1. Init => OneTurn /\ \A r \in Reqs : ClaimHeld(r)
  BY DEF Init, OneTurn, KeyedTurn, Attended, ClaimHeld, At, Saving, Fresh
<1>2. TypeOK /\ Stages => (SettledInv <=> OneTurn /\ \A r \in Reqs : ClaimHeld(r))
  BY DEF SettledInv
<1>3. SettledInv /\ DirtyIsOwned /\ [Next]_vars /\ TypeOK' /\ Stages' => SettledInv'
  BY SettledStep
<1> QED
  BY <1>1, <1>2, <1>3, TypeCorrect, StagesCorrect, DirtyOwned, PTL DEF Spec

LEMMA SteeredHolds ==
    ASSUME SettledInv, NEW r \in Reqs,
           pc[r] \in {"queued", "running", "claim"}, turn[r].steer # None
    PROVE  slots[turn[r].steer].session = turn[r].session /\ slots[turn[r].steer].dirty
<1>1. slots[turn[r].steer] = [session |-> turn[r].session, dirty |-> TRUE]
  BY DEF SettledInv, ClaimHeld
<1> QED BY <1>1

\* R3: a dirty slot is never given to another session; only the pump's
\* hangup and a new proxy forget whose it was.
THEOREM DirtyNotStolen ==
    ASSUME Traffic = "settled"
    PROVE  Spec => NeverStealDirty
<1>1. ASSUME SettledInv, [Next]_vars, NEW i \in SlotIds, slots[i].dirty
      PROVE  slots'[i].session \in {slots[i].session, None}
  <2>0. TypeOK /\ slots \in [SlotIds -> SlotInfo]
    BY <1>1 DEF SettledInv, TypeOK, RegistryTypeOK
  <2>1. ASSUME NEW r \in Reqs, Mark(r)
        PROVE  slots'[i].session \in {slots[i].session, None}
    BY <1>1, <2>0, <2>1 DEF Mark, MarkDirty, SettledInv, ClaimHeld
  <2>2. ASSUME NEW r \in Reqs, ClaimSlot(r)
        PROVE  slots'[i].session \in {slots[i].session, None}
    <3>1. turn[r].steer \in SlotIds /\ turn[r].steer # None
      BY <2>0, <2>2, NoneAssumption
      DEF ClaimSlot, At, TypeOK, TurnsOK, LocalsOK, Steered
    <3>2. slots[turn[r].steer].session = turn[r].session
      BY <1>1, <2>2, <3>1, SteeredHolds DEF ClaimSlot, At
    <3> QED BY <2>0, <2>2, <3>1, <3>2 DEF ClaimSlot, Claim, SlotInfo
  <2>3. ASSUME NEW r \in Reqs, Published(r) \/ Hangup(r)
        PROVE  slots'[i].session \in {slots[i].session, None}
    BY <2>0, <2>3
    DEF Published, MarkClean, Hangup, Abandon, Unclaimed, SlotInfo
  <2>4. CASE ProxyCrash
    BY <2>4 DEF ProxyCrash, Unclaimed
  <2>5. CASE UNCHANGED slots
    BY <2>5
  <2> QED
    BY <1>1, <2>1, <2>2, <2>3, <2>4, <2>5, RegistryWriters
    DEF Next, BackendCrash, Quiet, vars
<1>2. SettledInv /\ [Next]_vars =>
          \A i \in SlotIds : slots[i].dirty =>
              slots'[i].session \in {slots[i].session, None}
  BY <1>1
<1> QED BY <1>2, SettledCorrect, PTL DEF Spec, NeverStealDirty

\* "Never restored-over": a slot's KV that is not on disk yet is written
\* over by its own session, by a turn the proxy could not steer, or lost
\* with the backend; never by a restore.
THEOREM DirtyNotOverwritten ==
    ASSUME Traffic = "settled"
    PROVE  Spec => NeverOverwriteDirty
<1> DEFINE Allowed(i) == \/ turn[kv'[i]].session = slots[i].session
                         \/ \E r \in Reqs : /\ At(r, "queued") /\ pc'[r] = "running"
                                            /\ turn[r].steer = None
<1>1. ASSUME SettledInv, [Next]_vars, NEW i \in SlotIds, slots[i].dirty,
             kv'[i] \notin {kv[i], Empty}
      PROVE  Allowed(i)
  <2>0. /\ kv \in [SlotIds -> Contents] /\ pc \in [Reqs -> PCs]
        /\ \A r \in Reqs : ClaimHeld(r)
    BY <1>1 DEF SettledInv, TypeOK, ServerTypeOK, TurnsOK
  <2>1. ASSUME NEW r \in Reqs, Decode(r) PROVE Allowed(i)
    <3>1. PICK j \in IF turn[r].steer = None THEN SlotIds ELSE {turn[r].steer} :
              StartDecode(j, r)
      BY <2>1 DEF Decode
    <3>2. i = j /\ kv'[i] = r
      BY <1>1, <2>0, <3>1 DEF StartDecode
    <3>3. CASE turn[r].steer = None
      BY <2>0, <2>1, <3>3 DEF Decode, At, Goto
    <3>4. CASE turn[r].steer # None
      <4>1. slots[i].session = turn[r].session
        BY <1>1, <2>1, <3>1, <3>2, <3>4, SteeredHolds DEF Decode, At
      <4> QED BY <3>2, <4>1
    <3> QED BY <3>3, <3>4
  <2>2. ASSUME NEW r \in Reqs, Restore(r) PROVE FALSE
    <3>1. ~slots[turn[r].steer].dirty
      BY <2>0, <2>2 DEF Restore, ClaimHeld
    <3>2. \A j \in SlotIds : j # turn[r].steer => kv'[j] = kv[j]
      BY <2>0, <2>2 DEF Restore, LoadSlot
    <3> QED BY <1>1, <3>1, <3>2
  <2>3. CASE BackendCrash
    BY <1>1, <2>3 DEF BackendCrash, ServerRestart
  <2>4. CASE UNCHANGED kv
    BY <1>1, <2>4
  <2> QED
    BY <1>1, <2>1, <2>2, <2>3, <2>4, KvWriters
    DEF Next, ProxyCrash, Quiet, vars, serverVars
<1>2. SettledInv /\ [Next]_vars =>
          \A i \in SlotIds : slots[i].dirty /\ kv'[i] \notin {kv[i], Empty} => Allowed(i)
  BY <1>1
<1> QED BY <1>2, SettledCorrect, PTL DEF Spec, NeverOverwriteDirty
-----------------------------------------------------------------------------
(***************************************************************************)
(* Without the bypass: no slot but the turn's own starts to decode while   *)
(* it is under way, and no file but those of its save is touched.          *)
(***************************************************************************)

\* Every turn that arrived has a session.
AllKeyed == ~Bypassing => \A r \in Reqs : turn[r].session = None => At(r, "new")

LEMMA TurnKeepsKeyed ==
    ASSUME TypeOK, AllKeyed, NEW r \in Reqs, Progress(r) \/ Environment(r)
    PROVE  AllKeyed'
<1> USE DEF AllKeyed, At
<1>0. /\ pc \in [Reqs -> PCs] /\ turn \in [Reqs -> Turn]
      /\ \A q \in Reqs \ {r} : pc'[q] = pc[q] /\ turn'[q] = turn[q]
  BY OthersStay DEF TypeOK, TurnsOK
<1>1. CASE Arrive(r)
  <2>1. PICK s \in Sessions, b \in BOOLEAN :
            turn' = [turn EXCEPT ![r] = [Fresh(s) EXCEPT !.stream = b]]
    BY <1>1 DEF Arrive
  <2>2. turn'[r].session = s
    BY <1>0, <2>1 DEF Fresh
  <2> QED BY <1>0, <2>2, NoneAssumption
<1>2. CASE turn'[r].session = turn[r].session
  <2>1. pc[r] = "new" => Arrive(r) \/ Bypass(r)
    BY DEF Progress, Admission, SaveSlot, Service, Leftover, Environment,
           MatchHot, MatchCold, PickQuery, PickError, Choose, EvictQuery,
           EvictError, Victim, Restore, Mark, GateExclusive, SaveStart, SaveEnd,
           SaveError, Publish, PublishError, Published, NotPublished, Decode,
           ChatError, RunError, Finish, ClaimSlot, Scan, Unlink, Cancel,
           LostWrite, LostPublish, Hangup, HandlerDrop, InHandler, Attended
  <2>2. ~Bypassing /\ ~Arrive(r) => turn'[r].session # None
    BY <1>2, <2>1 DEF Bypass
  <2> QED BY <1>0, <1>1, <2>2
<1> QED BY <1>1, <1>2, SessionsStay

LEMMA CrashKeepsKeyed ==
    ASSUME TypeOK, AllKeyed, ProxyCrash \/ BackendCrash
    PROVE  AllKeyed'
<1>1. \A r \in Reqs : /\ turn'[r].session = turn[r].session
                      /\ pc[r] = "new" => pc'[r] = "new"
  BY FreshType
  DEF ProxyCrash, AfterProxyCrash, BackendCrash, AfterBackendCrash, TypeOK,
      TurnsOK, Turn
<1> QED BY <1>1 DEF AllKeyed, At

\* While a turn is under way only what is left of turns that are gone moves.
LEMMA OnlyLeftovers ==
    ASSUME Traffic = "settled", ~Bypassing, SettledInv, AllKeyed,
           NEW r \in Reqs, Progress(r) \/ Environment(r),
           NEW q \in Reqs \ {r}, Attended(q)
    PROVE  Leftover(r)
<1>1. ~Attended(r)
  BY DEF SettledInv, OneTurn, KeyedTurn, AllKeyed, Attended, At
<1>2. ~Arrive(r) /\ ~Bypass(r)
  BY DEF Arrive, MayArrive, Bypass
<1> QED
  BY <1>1, <1>2
  DEF Progress, Admission, SaveSlot, Service, Environment, Attended, At,
      MatchHot, MatchCold, PickQuery, PickError, Choose, EvictQuery, EvictError,
      Victim, Restore, Mark, GateExclusive, SaveStart, SaveEnd, SaveError,
      Publish, PublishError, Published, NotPublished, Decode, ChatError,
      RunError, Finish, ClaimSlot, Scan, Unlink, Hangup, HandlerDrop, InHandler,
      Saving, Detached, Terminal

\* A turn's slot decodes that turn or nothing, and is idle once it ended.
StaysIdle(r) ==
    LET i == turn[r].steer IN
    /\ At(r, "running") /\ i # None => processing[i] = r
    /\ pc[r] \in {"choose", "victim"} => \A j \in SlotIds \ turn[r].seen : Idle(j)
    /\ pc[r] \in {"claim", "gate"} \cup Saving => Idle(i)

IdleHeld == \A r \in Reqs : StaysIdle(r)

\* What is left of turns that are gone ends their decodes, and no other.
LEMMA LeftoverKeepsIdle ==
    ASSUME TypeOK, NEW r \in Reqs, Leftover(r), NEW q \in Reqs \ {r},
           StaysIdle(q), pc'[q] = pc[q], turn'[q] = turn[q]
    PROVE  StaysIdle(q)'
<1>0. processing \in [SlotIds -> Reqs \cup {None}]
  BY DEF TypeOK, ServerTypeOK
<1>1. CASE Cancel(r)
  <2>1. \A i \in SlotIds : processing'[i] = IF processing[i] = r THEN None
                                            ELSE processing[i]
    BY <1>1 DEF Cancel, EndDecode
  <2>2. pc[q] \in {"claim", "gate"} \cup Saving => turn[q].steer \in SlotIds
    BY DEF TypeOK, TurnsOK, LocalsOK, Steered
  <2>3. turn[q].steer \in SlotIds \cup {None}
    BY DEF TypeOK, TurnsOK, Turn
  <2> QED BY <1>0, <2>1, <2>2, <2>3 DEF StaysIdle, Idle, At
<1>2. CASE LostWrite(r) \/ LostPublish(r)
  BY <1>2 DEF LostWrite, LostPublish, serverVars, StaysIdle, Idle, At
<1> QED BY <1>1, <1>2 DEF Leftover

\* A turn waits for an idle slot and leaves it idle.
LEMMA OwnStepKeepsIdle ==
    ASSUME SettledInv, NEW r \in Reqs, StaysIdle(r), Progress(r) \/ Environment(r)
    PROVE  StaysIdle(r)'
<1> USE DEF StaysIdle, At, Goto, Set, Retire, Idle
<1>0. /\ TypeOK /\ TurnsOK
      /\ pc \in [Reqs -> PCs] /\ turn \in [Reqs -> Turn] /\ turn[r] \in Turn
      /\ processing \in [SlotIds -> Reqs \cup {None}]
  BY DEF SettledInv, TypeOK, TurnsOK, ServerTypeOK
<1>1. CASE PickQuery(r) \/ EvictQuery(r)
  <2>1. /\ turn'[r].seen = Processing /\ pc'[r] \in {"choose", "victim"}
        /\ processing' = processing
    BY <1>0, <1>1 DEF PickQuery, EvictQuery, serverVars, Turn
  <2> QED BY <2>1 DEF Processing, Saving
<1>2. CASE Victim(r)
  <2>1. processing' = processing
    BY <1>2 DEF Victim, serverVars
  <2>2. \A i \in EvictableSlots(turn[r].seen) : processing[i] = None
    BY <1>2 DEF Victim, EvictableSlots
  <2>3. AfterPlacement(r) \in {"restore", "mark"}
    BY DEF AfterPlacement
  <2> QED BY <1>0, <1>2, <2>1, <2>2, <2>3, VictimLocals DEF Saving
<1>3. CASE SaveSlot(r)
  <2>0. processing' = processing
    BY <1>3
    DEF SaveSlot, GateExclusive, SaveStart, SaveEnd, SaveError, Publish,
        PublishError, Published, NotPublished, serverVars
  <2>1. CASE Published(r) \/ NotPublished(r)
    BY <1>0, <2>1, SavedLocals DEF AfterPlacement, Saving
  <2>2. CASE ~Published(r) /\ ~NotPublished(r)
    BY <1>0, <1>3, <2>0, <2>2
    DEF SaveSlot, GateExclusive, SaveStart, SaveEnd, SaveError, Publish,
        PublishError, Saving
  <2> QED BY <2>1, <2>2
<1>4. CASE Decode(r)
  <2>1. CASE turn[r].steer = None
    BY <1>0, <1>4, <2>1 DEF Decode, Saving
  <2>2. CASE turn[r].steer # None
    <3>1. StartDecode(turn[r].steer, r) /\ turn[r].steer \in SlotIds
      BY <1>0, <1>4, <2>2 DEF Decode, Turn
    <3>2. processing'[turn[r].steer] = r
      BY <1>0, <3>1 DEF StartDecode
    <3> QED BY <1>0, <1>4, <3>2 DEF Decode, Saving
  <2> QED BY <2>1, <2>2
<1>5. CASE Finish(r)
  <2>1. CASE turn[r].steer = None
    BY <1>0, <1>5, <2>1 DEF Finish, Saving
  <2>2. CASE turn[r].steer # None
    <3>1. /\ turn'[r].steer = turn[r].steer /\ pc'[r] = "claim"
          /\ turn[r].steer \in SlotIds /\ processing[turn[r].steer] = r
      BY <1>0, <1>5, <2>2 DEF Finish, Turn
    <3>2. processing'[turn[r].steer] = None
      BY <1>5, <3>1 DEF Finish, EndDecode
    <3> QED BY <3>1, <3>2
  <2> QED BY <2>1, <2>2
<1>6. CASE ClaimSlot(r)
  BY <1>0, <1>6 DEF ClaimSlot, serverVars, Saving, Turn
<1>7. CASE \/ MatchHot(r) \/ MatchCold(r) \/ PickError(r) \/ EvictError(r)
           \/ Restore(r) \/ Mark(r) \/ ChatError(r) \/ RunError(r) \/ Scan(r)
           \/ Unlink(r)
  BY <1>0, <1>7
  DEF MatchHot, MatchCold, PickError, EvictError, Restore, Mark, ChatError,
      RunError, Scan, Unlink, Saving
<1>8. CASE Choose(r)
  BY <1>0, <1>8, ChooseLocals DEF AfterPlacement, Saving
<1>9. CASE Leftover(r)
  BY <1>0, <1>9 DEF Leftover, Cancel, LostWrite, LostPublish, Saving
<1>10. CASE Arrive(r) \/ Bypass(r) \/ Hangup(r)
  BY <1>0, <1>10 DEF Arrive, Bypass, Hangup, Saving
<1>11. CASE HandlerDrop(r)
  BY <1>0, <1>11 DEF HandlerDrop, AfterDrop, Saving
<1> QED
  BY <1>1, <1>2, <1>3, <1>4, <1>5, <1>6, <1>7, <1>8, <1>9, <1>10, <1>11
  DEF Progress, Admission, Service, Environment

LEMMA TurnKeepsIdle ==
    ASSUME Traffic = "settled", ~Bypassing, SettledInv, AllKeyed, IdleHeld,
           NEW r \in Reqs, Progress(r) \/ Environment(r)
    PROVE  IdleHeld'
<1>1. StaysIdle(r)'
  BY OwnStepKeepsIdle DEF IdleHeld
<1>2. ASSUME NEW q \in Reqs \ {r} PROVE StaysIdle(q)'
  <2>0. TypeOK /\ StaysIdle(q) /\ pc'[q] = pc[q] /\ turn'[q] = turn[q]
    BY OthersStay DEF SettledInv, IdleHeld
  <2>1. CASE Attended(q)
    BY <2>0, <2>1, OnlyLeftovers, LeftoverKeepsIdle
  <2>2. CASE ~Attended(q)
    BY <2>0, <2>2 DEF StaysIdle, Attended, At, Saving, Detached, Terminal
  <2> QED BY <2>1, <2>2
<1> QED BY <1>1, <1>2 DEF IdleHeld

LEMMA CrashKeepsIdle ==
    ASSUME SettledInv, IdleHeld, ProxyCrash \/ BackendCrash
    PROVE  IdleHeld'
<1> USE DEF IdleHeld, StaysIdle, At, Saving, Terminal
<1>1. CASE ProxyCrash
  BY <1>1 DEF ProxyCrash, AfterProxyCrash
<1>2. CASE BackendCrash
  <2>1. \A i \in SlotIds : processing'[i] = None
    BY <1>2 DEF BackendCrash, ServerRestart
  <2>2. \A r \in Reqs : /\ ~At(r, "running")'
                        /\ pc'[r] \in {"choose", "victim"} =>
                              pc'[r] = pc[r] /\ turn'[r] = turn[r]
                        /\ pc'[r] \in {"claim", "gate"} \cup Saving =>
                              /\ pc[r] \in {"claim", "gate"} \cup Saving
                              /\ turn'[r] = turn[r]
    BY <1>2 DEF BackendCrash, AfterBackendCrash
  <2>3. \A r \in Reqs : pc[r] \in {"claim", "gate"} \cup Saving =>
                            turn[r].steer \in SlotIds
    BY DEF SettledInv, TypeOK, TurnsOK, LocalsOK, Steered
  <2> QED BY <2>1, <2>2, <2>3 DEF Idle
<1> QED BY <1>1, <1>2

LEMMA KeyedCorrect == Spec => []AllKeyed
<1>1. Init => AllKeyed
  BY DEF Init, AllKeyed, At
<1>2. TypeOK /\ AllKeyed /\ [Next]_vars => AllKeyed'
  <2> SUFFICES ASSUME TypeOK, AllKeyed, [Next]_vars PROVE AllKeyed'
    OBVIOUS
  <2>1. CASE UNCHANGED vars
    BY <2>1 DEF vars, AllKeyed, At
  <2>2. CASE Next
    BY <2>1, <2>2, TurnKeepsKeyed, CrashKeepsKeyed DEF Next, Quiet
  <2> QED BY <2>1, <2>2
<1> QED BY <1>1, <1>2, TypeCorrect, PTL DEF Spec

LEMMA IdleCorrect ==
    ASSUME Traffic = "settled", ~Bypassing
    PROVE  Spec => []IdleHeld
<1>1. Init => IdleHeld
  BY DEF Init, IdleHeld, StaysIdle, At, Saving
<1>2. SettledInv /\ AllKeyed /\ IdleHeld /\ [Next]_vars => IdleHeld'
  <2> SUFFICES ASSUME SettledInv, AllKeyed, IdleHeld, [Next]_vars PROVE IdleHeld'
    OBVIOUS
  <2>1. CASE UNCHANGED vars
    BY <2>1 DEF vars, serverVars, IdleHeld, StaysIdle, Idle, At
  <2>2. CASE Next
    BY <2>1, <2>2, TurnKeepsIdle, CrashKeepsIdle DEF Next, Quiet
  <2> QED BY <2>1, <2>2
<1> QED BY <1>1, <1>2, SettledCorrect, KeyedCorrect, PTL DEF Spec

\* "A long generation never blocks the world": where oLLM's own turns are
\* all the server's work, a save that holds the gate finds its slot idle,
\* whatever fails, leaves or crashes.
THEOREM GateWaitsForNoDecode ==
    ASSUME Traffic = "settled", ~Bypassing
    PROVE  Spec => []DecodeOutsideGate
<1>1. IdleHeld => DecodeOutsideGate
  BY DEF IdleHeld, StaysIdle, DecodeOutsideGate, At, Saving
<1> QED BY <1>1, IdleCorrect, PTL

-----------------------------------------------------------------------------
(***************************************************************************)
(* The file of a save.                                                     *)
(***************************************************************************)

\* A write that its save left behind is the only one, and nobody else's save
\* is past its own.
OneWriter ==
    \A q \in Reqs : At(q, "lostWrite") =>
        \A r \in Reqs : /\ pc[r] \notin {"write", "publish", "clean"}
                        /\ At(r, "lostWrite") => q = r

LEMMA TurnKeepsOneWriter ==
    ASSUME TypeOK, GateExclusion, OneWriter, NEW r \in Reqs,
           Progress(r) \/ Environment(r)
    PROVE  OneWriter'
<1> USE DEF OneWriter, At
<1>0. pc \in [Reqs -> PCs] /\ \A q \in Reqs \ {r} : pc'[q] = pc[q]
  BY OthersStay DEF TypeOK, TurnsOK
<1>1. CASE SaveStart(r)
  <2>1. /\ \A q \in Reqs : pc[q] # "lostWrite"
        /\ pc'[r] = "write"
    BY <1>0, <1>1 DEF SaveStart, ServerFree, Goto
  <2> QED BY <1>0, <2>1
<1>2. CASE SaveEnd(r) \/ Publish(r)
  <2>1. pc[r] \in {"write", "publish"} /\ pc'[r] \in {"publish", "clean"}
    BY <1>0, <1>2 DEF SaveEnd, Publish, Goto
  <2> QED BY <1>0, <2>1
<1>3. CASE HandlerDrop(r) /\ pc[r] = "write"
  <2>1. pc'[r] = "lostWrite"
    BY <1>0, <1>3 DEF HandlerDrop, AfterDrop, Goto
  <2>2. \A q \in Reqs \ {r} : pc[q] \notin {"lostWrite", "write", "publish", "clean"}
    BY <1>3 DEF GateExclusion, Saving
  <2> QED BY <1>0, <2>1, <2>2
<1>4. CASE pc'[r] \notin {"write", "publish", "clean", "lostWrite"}
  BY <1>0, <1>4
<1>5. \/ SaveStart(r) \/ SaveEnd(r) \/ Publish(r)
      \/ HandlerDrop(r) /\ pc[r] = "write"
      \/ pc'[r] \notin {"write", "publish", "clean", "lostWrite"}
  <2> USE <1>0 DEF Goto, Retire, AfterPlacement, Terminal
  <2>1. CASE Admission(r)
    BY <2>1 DEF Admission, MatchHot, MatchCold, PickQuery, PickError, Choose,
                EvictQuery, EvictError, Victim, Restore, Mark
  <2>2. CASE SaveSlot(r)
    BY <2>2 DEF SaveSlot, GateExclusive, SaveError, PublishError, Published,
                NotPublished
  <2>3. CASE Service(r) \/ Leftover(r)
    BY <2>3 DEF Service, Decode, ChatError, RunError, Finish, ClaimSlot, Scan,
                Unlink, Leftover, Cancel, LostWrite, LostPublish
  <2>4. CASE Environment(r)
    BY <2>4 DEF Environment, Arrive, Bypass, Hangup, HandlerDrop, AfterDrop
  <2> QED BY <2>1, <2>2, <2>3, <2>4 DEF Progress
<1> QED BY <1>1, <1>2, <1>3, <1>4, <1>5

LEMMA CrashKeepsOneWriter ==
    ASSUME TypeOK, GateExclusion, OneWriter, ProxyCrash \/ BackendCrash
    PROVE  OneWriter'
<1> USE DEF OneWriter, At, Terminal
<1>1. CASE ProxyCrash
  <2>1. \A q \in Reqs : /\ pc'[q] = "lostWrite" => pc[q] \in {"write", "lostWrite"}
                        /\ pc'[q] \notin {"write", "publish", "clean"}
    BY <1>1 DEF ProxyCrash, AfterProxyCrash
  <2>2. \A q, r \in Reqs : pc[q] = "write" /\ pc[r] = "write" => q = r
    BY DEF GateExclusion, Saving
  <2> QED BY <2>1, <2>2
<1>2. CASE BackendCrash
  BY <1>2 DEF BackendCrash, AfterBackendCrash
<1> QED BY <1>1, <1>2

LEMMA OneWriterCorrect == Spec => []OneWriter
<1>1. Init => OneWriter
  BY DEF Init, OneWriter, At
<1>2. TypeOK /\ GateExclusion /\ OneWriter /\ [Next]_vars => OneWriter'
  <2> SUFFICES ASSUME TypeOK, GateExclusion, OneWriter, [Next]_vars
               PROVE  OneWriter'
    OBVIOUS
  <2>1. CASE UNCHANGED vars
    BY <2>1 DEF vars, OneWriter, At
  <2>2. CASE Next
    BY <2>1, <2>2, TurnKeepsOneWriter, CrashKeepsOneWriter DEF Next, Quiet
  <2> QED BY <2>1, <2>2
<1> QED BY <1>1, <1>2, TypeCorrect, GateCorrect, PTL DEF Spec

\* The scratch file of a save is torn or gone until the backend answers,
\* then holds the slot's KV or is gone, and it is the blob once published.
SaveTrue(r) ==
    LET n == turn[r].name
        c == kv[turn[r].steer] IN
    /\ At(r, "write") => scratch[n] \in {Torn, None}
    /\ At(r, "publish") => scratch[n] \in {None, c}
    /\ At(r, "clean") => scratch[n] = None /\ blob[n] = c

SavesTrue == \A r \in Reqs : SaveTrue(r)

LEMMA LeftoverKeepsSaves ==
    ASSUME TypeOK, OneWriter, NEW r \in Reqs, Leftover(r), NEW q \in Reqs \ {r},
           SaveTrue(q), pc'[q] = pc[q], turn'[q] = turn[q]
    PROVE  SaveTrue(q)'
<1> USE DEF SaveTrue, At
<1>0. /\ turn[r].name \in Sessions \cup {None}
      /\ pc[q] \in {"write", "publish", "clean"} => turn[q].name \in Sessions
      /\ DirTypeOK
  BY DEF TypeOK, TurnsOK, LocalsOK, Named, Saving, Turn
<1>1. kv' = kv
  BY DEF Leftover, Cancel, EndDecode, LostWrite, LostPublish, serverVars
<1>2. CASE Cancel(r)
  BY <1>1, <1>2 DEF Cancel, dirVars
<1>3. CASE LostWrite(r)
  BY <1>3 DEF LostWrite, OneWriter
<1>4. CASE LostPublish(r)
  <2>1. CASE RenameScratch(turn[r].name)
    <3>1. /\ scratch[turn[r].name] # None
          /\ scratch' = [scratch EXCEPT ![turn[r].name] = None]
          /\ blob' = [blob EXCEPT ![turn[r].name] = scratch[turn[r].name]]
      BY <2>1 DEF RenameScratch, CanRename
    <3> QED BY <1>0, <1>1, <3>1 DEF DirTypeOK
  <2>2. CASE UNCHANGED dirVars
    BY <1>1, <2>2 DEF dirVars
  <2> QED BY <1>4, <2>1, <2>2 DEF LostPublish
<1> QED BY <1>2, <1>3, <1>4 DEF Leftover

LEMMA OwnStepKeepsSaves ==
    ASSUME TypeOK, NEW r \in Reqs, SaveTrue(r), Progress(r) \/ Environment(r)
    PROVE  SaveTrue(r)'
<1> USE DEF SaveTrue, At
<1>0. /\ pc \in [Reqs -> PCs]
      /\ pc[r] \in {"save", "write", "publish", "clean"} =>
             turn[r].name \in Sessions /\ turn[r].steer \in SlotIds
      /\ scratch \in [Sessions -> Files] /\ blob \in [Sessions -> Files]
  BY DEF TypeOK, TurnsOK, LocalsOK, DirTypeOK, Named, Steered, Saving
<1>1. CASE SaveStart(r)
  <2>1. /\ pc'[r] = "write" /\ turn' = turn /\ turn[r].name \in Sessions
        /\ scratch' = [scratch EXCEPT ![turn[r].name] = Torn]
    BY <1>0, <1>1 DEF SaveStart, Goto, OpenScratch
  <2> QED BY <1>0, <2>1
<1>2. CASE SaveEnd(r)
  <2>1. /\ pc'[r] = "publish" /\ turn' = turn /\ kv' = kv
        /\ turn[r].name \in Sessions /\ scratch[turn[r].name] \in {Torn, None}
    BY <1>0, <1>2 DEF SaveEnd, Goto, serverVars
  <2>2. scratch'[turn[r].name] \in {None, kv[turn[r].steer]}
    BY <1>0, <1>2, <2>1 DEF SaveEnd, CloseScratch
  <2> QED BY <2>1, <2>2
<1>3. CASE Publish(r)
  <2>1. /\ pc'[r] = "clean" /\ turn' = turn /\ kv' = kv
        /\ turn[r].name \in Sessions /\ scratch[turn[r].name] # None
        /\ blob' = [blob EXCEPT ![turn[r].name] = scratch[turn[r].name]]
        /\ scratch' = [scratch EXCEPT ![turn[r].name] = None]
    BY <1>0, <1>3 DEF Publish, Goto, RenameScratch, CanRename, serverVars
  <2>2. scratch[turn[r].name] = kv[turn[r].steer]
    BY <1>3, <2>1 DEF Publish
  <2> QED BY <1>0, <2>1, <2>2
<1>4. CASE pc'[r] \notin {"write", "publish", "clean"}
  BY <1>4
<1>5. \/ SaveStart(r) \/ SaveEnd(r) \/ Publish(r)
      \/ pc'[r] \notin {"write", "publish", "clean"}
  <2> USE <1>0 DEF Goto, Retire, AfterPlacement, Terminal
  <2>1. CASE Admission(r)
    BY <2>1 DEF Admission, MatchHot, MatchCold, PickQuery, PickError, Choose,
                EvictQuery, EvictError, Victim, Restore, Mark
  <2>2. CASE SaveSlot(r)
    BY <2>2 DEF SaveSlot, GateExclusive, SaveError, PublishError, Published,
                NotPublished
  <2>3. CASE Service(r) \/ Leftover(r)
    BY <2>3 DEF Service, Decode, ChatError, RunError, Finish, ClaimSlot, Scan,
                Unlink, Leftover, Cancel, LostWrite, LostPublish
  <2>4. CASE Environment(r)
    BY <2>4 DEF Environment, Arrive, Bypass, Hangup, HandlerDrop, AfterDrop
  <2> QED BY <2>1, <2>2, <2>3, <2>4 DEF Progress
<1> QED BY <1>1, <1>2, <1>3, <1>4, <1>5

LEMMA SavesCorrect ==
    ASSUME Traffic = "settled", ~Bypassing, "backend" \notin Crashes
    PROVE  Spec => []SavesTrue
<1>1. Init => SavesTrue
  BY DEF Init, SavesTrue, SaveTrue, At
<1>2. SettledInv /\ AllKeyed /\ OneWriter /\ SavesTrue /\ [Next]_vars => SavesTrue'
  <2> SUFFICES ASSUME SettledInv, AllKeyed, OneWriter, SavesTrue, [Next]_vars
               PROVE  SavesTrue'
    OBVIOUS
  <2>1. CASE UNCHANGED vars
    BY <2>1 DEF vars, serverVars, dirVars, SavesTrue, SaveTrue, At
  <2>2. ASSUME NEW r \in Reqs, Progress(r) \/ Environment(r) PROVE SavesTrue'
    <3>1. SaveTrue(r)'
      BY <2>2, OwnStepKeepsSaves DEF SettledInv, SavesTrue
    <3>2. ASSUME NEW q \in Reqs \ {r} PROVE SaveTrue(q)'
      <4>0. TypeOK /\ SaveTrue(q) /\ pc'[q] = pc[q] /\ turn'[q] = turn[q]
        BY <2>2, OthersStay DEF SettledInv, SavesTrue
      <4>1. CASE Attended(q)
        BY <2>2, <4>0, <4>1, OnlyLeftovers, LeftoverKeepsSaves
      <4>2. CASE ~Attended(q)
        BY <4>0, <4>2 DEF SaveTrue, Attended, At, Detached, Terminal
      <4> QED BY <4>1, <4>2
    <3> QED BY <3>1, <3>2 DEF SavesTrue
  <2>3. CASE ProxyCrash
    BY <2>3 DEF ProxyCrash, AfterProxyCrash, SavesTrue, SaveTrue, At, Terminal
  <2> QED BY <2>1, <2>2, <2>3 DEF Next, BackendCrash, Quiet
<1> QED
  BY <1>1, <1>2, SettledCorrect, KeyedCorrect, OneWriterCorrect, PTL DEF Spec

\* "... until the post-turn save publishes": a slot that keeps its claim
\* becomes clean only when its session's blob is what the slot holds,
\* whatever saves fail and whoever leaves, even over a restart of the proxy.
THEOREM CleanPublished ==
    ASSUME Traffic = "settled", ~Bypassing, "backend" \notin Crashes
    PROVE  Spec => CleanIsPublished
<1>1. ASSUME SettledInv, SavesTrue, [Next]_vars, NEW i \in SlotIds,
             slots[i].dirty, ~slots'[i].dirty, slots'[i].session # None
      PROVE  blob[slots[i].session] = kv[i]
  <2>0. TypeOK /\ slots \in [SlotIds -> SlotInfo]
    BY <1>1 DEF SettledInv, TypeOK, RegistryTypeOK
  <2>1. ASSUME NEW r \in Reqs, Published(r) PROVE blob[slots[i].session] = kv[i]
    <3>1. turn[r].steer = i /\ At(r, "clean")
      BY <1>1, <2>0, <2>1 DEF Published, MarkClean, SlotInfo
    <3>2. slots[i] = [session |-> turn[r].name, dirty |-> TRUE]
      BY <1>1, <3>1 DEF SettledInv, ClaimHeld, At, Saving
    <3>3. slots[i].session = turn[r].name
      BY <3>2
    <3> QED BY <1>1, <3>1, <3>3 DEF SavesTrue, SaveTrue
  <2>2. ASSUME NEW r \in Reqs, Mark(r) \/ ClaimSlot(r) PROVE FALSE
    <3>1. CASE Mark(r)
      BY <1>1, <2>0, <3>1 DEF Mark, MarkDirty
    <3>2. CASE ClaimSlot(r)
      <4>1. slots' = [slots EXCEPT ![turn[r].steer] =
                                      [@ EXCEPT !.session = turn[r].session]]
        BY <3>2 DEF ClaimSlot, Claim
      <4>2. slots'[i].dirty = slots[i].dirty
        BY <2>0, <4>1 DEF SlotInfo
      <4> QED BY <1>1, <4>2
    <3> QED BY <2>2, <3>1, <3>2
  <2>3. ASSUME NEW r \in Reqs, Hangup(r) PROVE FALSE
    BY <1>1, <2>0, <2>3 DEF Hangup, Abandon, Unclaimed
  <2>4. CASE ProxyCrash
    BY <1>1, <2>4 DEF ProxyCrash, Unclaimed
  <2>5. CASE UNCHANGED slots
    BY <1>1, <2>5
  <2> QED
    BY <1>1, <2>1, <2>2, <2>3, <2>4, <2>5, RegistryWriters
    DEF Next, BackendCrash, Quiet, vars
<1>2. SettledInv /\ SavesTrue /\ [Next]_vars =>
          \A i \in SlotIds : /\ slots[i].dirty /\ ~slots'[i].dirty
                             /\ slots'[i].session # None
                             => blob[slots[i].session] = kv[i]
  BY <1>1
<1> QED BY <1>2, SettledCorrect, SavesCorrect, PTL DEF Spec, CleanIsPublished
=============================================================================
