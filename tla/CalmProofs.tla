----------------------------- MODULE CalmProofs ------------------------------
(***************************************************************************)
(* What the request path keeps of settled traffic when nothing but a       *)
(* restore or GET /slots fails: streams may be hung up and the proxy may   *)
(* die, but no handler is dropped, the backend stays up and nobody goes    *)
(* around oLLM.  Then every turn that is steered is saved, and every file  *)
(* holds a turn of its session that was answered; and if GET /slots        *)
(* answers, every claim of the registry is true.                           *)
(***************************************************************************)
EXTENDS SettledProofs

CalmWorld == /\ Traffic = "settled" /\ ~Bypassing
             /\ Faults \subseteq {"restore", "slots"}
             /\ "handler" \notin Leaves /\ "backend" \notin Crashes

\* GET /slots answers, so that a turn is steered wherever it can be.
Answering == "slots" \notin Faults

\* What is known of such a world already.
Ground == /\ SettledInv /\ DirtyIsOwned /\ AllKeyed /\ IdleHeld
          /\ GateExclusion /\ OneWriter /\ BlobInv

LEMMA GroundCorrect ==
    ASSUME CalmWorld
    PROVE  Spec => []Ground
<1>1. Spec => []SettledInv /\ []IdleHeld /\ [](TypeOK /\ GateExclusion /\ BlobInv)
  BY SettledCorrect, IdleCorrect, BlobsCorrect DEF CalmWorld
<1>2. SettledInv /\ IdleHeld /\ DirtyIsOwned /\ AllKeyed /\ OneWriter
         /\ (TypeOK /\ GateExclusion /\ BlobInv) => Ground
  BY DEF Ground
<1> QED BY <1>1, <1>2, DirtyOwned, KeyedCorrect, OneWriterCorrect, PTL

-----------------------------------------------------------------------------
(***************************************************************************)
(* The inductive invariant.                                                *)
(***************************************************************************)

\* The slot's memory is a turn of the session.
OwnKV(i, s) == kv[i] \in Reqs /\ turn[kv[i]].session = s

AllUnclaimed == \A i \in SlotIds : slots[i].session = None

\* What a turn finds where GET /slots answers: no slot for itself only if no
\* slot is claimed; and it is marked warm if its session has a blob.
SteeredTurn(r) ==
    LET i == turn[r].steer
        s == turn[r].session IN
    /\ pc[r] \in {"restore", "mark"} => Idle(i)
    /\ At(r, "choose") => \A j \in turn[r].seen : slots[j].session = None
    /\ pc[r] \in {"evict", "victim"} => AllUnclaimed
    /\ pc[r] \in {"queued", "running"} /\ i = None => AllUnclaimed
    /\ At(r, "mark") /\ "restore" \notin Faults => OwnKV(i, s) \/ ~Exists(s)

\* A turn reaches a save only after its answer, holding its own KV.
CalmTurn(r) ==
    LET i == turn[r].steer
        s == turn[r].session
        n == turn[r].name IN
    /\ pc[r] \notin {"unsaved", "lostPublish"}
    /\ pc[r] \in {"gate", "lostWrite"} \cup Saving => turn[r].post /\ n = s
    /\ pc[r] \in {"running", "claim", "gate", "lostWrite"} \cup Saving /\ i # None
           => kv[i] = r
    /\ At(r, "write") => scratch[n] = Torn
    /\ At(r, "publish") => scratch[n] = r
    /\ pc[r] \in Matching => (turn[r].hit <=> Exists(s))
    /\ At(r, "restore") => Exists(s)
    /\ Answering => SteeredTurn(r)

\* A claim is true, or about to be.
ClaimTrue(i) ==
    slots[i].session # None =>
        \/ OwnKV(i, slots[i].session)
        \/ \E r \in Reqs : turn[r].steer = i /\ pc[r] \in {"restore", "mark", "queued"}

\* A slot decodes for the turn under way, or for a client that left.
DecodeKnown(i) ==
    LET q == processing[i] IN
    ~Idle(i) => \/ At(q, "running") /\ turn[q].steer \in {i, None}
                \/ At(q, "drop") /\ slots[i].session = None

\* The turn was answered and its save began, or is over.
Kept(r) == \/ turn[r].post /\ pc[r] \notin {"drop"} \cup Terminal
           \/ pc[r] \in {"done", "lost"}

\* What a file of session s may hold.
FileOf(f, s) ==
    f \notin {None, Torn} => f \in Reqs /\ turn[f].session = s /\ Kept(f)

CalmSlots ==
    \A i \in SlotIds :
        DirtyHeld(i) /\ (Answering => ClaimTrue(i) /\ DecodeKnown(i))
CalmFiles == \A s \in Sessions : FileOf(blob[s], s) /\ FileOf(scratch[s], s)

Calm == /\ \A r \in Reqs : CalmTurn(r)
        /\ CalmSlots /\ CalmFiles

-----------------------------------------------------------------------------
(***************************************************************************)
(* What the steps share.                                                   *)
(***************************************************************************)

\* The steps of a turn that are left when nothing else fails.
CalmStep(r) ==
    \/ MatchHot(r) \/ MatchCold(r) \/ PickQuery(r) \/ PickError(r) \/ Choose(r)
    \/ EvictQuery(r) \/ EvictError(r) \/ Victim(r) \/ Restore(r) \/ Mark(r)
    \/ GateExclusive(r) \/ SaveStart(r) \/ SaveEnd(r) \/ Publish(r) \/ Published(r)
    \/ Decode(r) \/ Finish(r) \/ ClaimSlot(r) \/ Scan(r) \/ Unlink(r)
    \/ Cancel(r) \/ LostWrite(r) \/ Arrive(r) \/ Hangup(r)

LEMMA OnlyCalmSteps ==
    ASSUME CalmWorld, NEW r \in Reqs, CalmTurn(r), Progress(r) \/ Environment(r)
    PROVE  CalmStep(r)
<1> USE DEF CalmWorld
<1>1. ~SaveError(r) /\ ~ChatError(r) /\ ~RunError(r)
  BY DEF SaveError, ChatError, RunError
<1>2. ~PublishError(r)
  BY NoneAssumption DEF PublishError, CanRename, CalmTurn
<1>3. ~NotPublished(r) /\ ~LostPublish(r)
  BY DEF NotPublished, LostPublish, CalmTurn, At
<1>4. ~HandlerDrop(r) /\ ~Bypass(r)
  BY DEF HandlerDrop, Bypass
<1> QED
  BY <1>1, <1>2, <1>3, <1>4
  DEF Progress, Environment, Admission, SaveSlot, Service, Leftover, CalmStep

\* Two turns under way are one.
LEMMA OnlyOne ==
    ASSUME CalmWorld, Ground, NEW q \in Reqs, NEW r \in Reqs,
           Attended(q), Attended(r)
    PROVE  q = r
  BY DEF CalmWorld, Ground, SettledInv, OneTurn, KeyedTurn, AllKeyed, Attended, At

\* A turn keeps the session it came with.
LEMMA SessionsKept ==
    ASSUME Ground, NEW r \in Reqs, Progress(r) \/ Environment(r),
           NEW q \in Reqs, turn[q].session # None
    PROVE  turn'[q].session = turn[q].session
<1>1. TypeOK /\ OneTurn
  BY DEF Ground, SettledInv
<1>2. ~Arrive(q)
  BY <1>1 DEF OneTurn, Arrive
<1> QED BY <1>1, <1>2, OthersStay, SessionsStay

\* Before a turn marks a slot no slot is dirty.
LEMMA NoneDirty ==
    ASSUME CalmWorld, Ground, CalmSlots, NEW r \in Reqs, Attended(r),
           pc[r] \notin {"queued", "running", "claim", "gate"} \cup Saving
    PROVE  \A i \in SlotIds : ~slots[i].dirty
<1> SUFFICES ASSUME NEW i \in SlotIds, slots[i].dirty PROVE FALSE
  OBVIOUS
<1>1. PICK q \in Reqs : pc[q] \in {"queued", "running", "claim", "gate"} \cup Saving
  BY DEF CalmSlots, DirtyHeld
<1>2. Attended(q)
  BY <1>1 DEF Attended, Saving, Detached, Terminal
<1> QED BY <1>1, <1>2, OnlyOne

\* While r is under way, a slot it is not about to fill keeps its promise.
LEMMA OthersTrue ==
    ASSUME CalmWorld, Ground, CalmSlots, Answering, NEW r \in Reqs, Attended(r),
           NEW i \in SlotIds, slots[i].session # None,
           turn[r].steer # i \/ pc[r] \notin {"restore", "mark", "queued"}
    PROVE  OwnKV(i, slots[i].session)
<1>1. ASSUME NEW q \in Reqs, turn[q].steer = i, pc[q] \in {"restore", "mark", "queued"}
      PROVE  FALSE
  <2>1. Attended(q)
    BY <1>1 DEF Attended, Detached, Terminal
  <2> QED BY <1>1, <2>1, OnlyOne
<1> QED BY <1>1 DEF CalmSlots, ClaimTrue

\* ... and a slot that decodes, but not for r, has no claim.
LEMMA OthersDecode ==
    ASSUME CalmWorld, Ground, CalmSlots, Answering, NEW r \in Reqs, Attended(r),
           NEW i \in SlotIds, ~Idle(i), processing[i] # r \/ ~At(r, "running")
    PROVE  slots[i].session = None /\ At(processing[i], "drop")
<1>1. processing[i] \in Reqs
  BY DEF Ground, SettledInv, TypeOK, ServerTypeOK, Idle
<1>2. ~At(processing[i], "running")
  <2>1. At(processing[i], "running") => Attended(processing[i])
    BY DEF At, Attended, Detached, Terminal
  <2> QED BY <1>1, <2>1, OnlyOne DEF At
<1> QED BY <1>2 DEF CalmSlots, DecodeKnown

-----------------------------------------------------------------------------
(***************************************************************************)
(* The turn that moves.                                                    *)
(***************************************************************************)

\* Lookup: a slot that is hot is idle and true; a free one is idle.
LEMMA LookupCalm ==
    ASSUME CalmWorld, Ground, Calm, NEW r \in Reqs,
           MatchHot(r) \/ MatchCold(r) \/ PickQuery(r) \/ PickError(r) \/ Choose(r)
    PROVE  CalmTurn(r)'
<1> USE DEF CalmTurn, SteeredTurn, At, Goto, Set, Saving, Matching
<1>0. /\ TypeOK /\ CalmSlots /\ CalmTurn(r)
      /\ pc \in [Reqs -> PCs] /\ turn \in [Reqs -> Turn] /\ turn[r] \in Turn
  BY DEF Ground, SettledInv, TypeOK, TurnsOK, Calm
<1>1. Attended(r) /\ turn[r].session # None
  <2>1. pc[r] \in {"match"} \cup Matching
    BY DEF MatchHot, MatchCold, PickQuery, PickError, Choose
  <2> QED BY <1>0, <2>1 DEF Attended, Detached, Terminal, TypeOK, TurnsOK,
                            LocalsOK, Sessionless
<1>2. CASE MatchHot(r)
  <2>1. PICK i \in HotSlots(turn[r].session) :
            turn' = [turn EXCEPT ![r].steer = i] /\ pc' = [pc EXCEPT ![r] = "mark"]
    BY <1>2 DEF MatchHot
  <2>2. /\ turn'[r].steer = i /\ turn'[r].session = turn[r].session
        /\ pc'[r] = "mark" /\ At(r, "match") /\ UNCHANGED <<slots, kv, processing>>
    BY <1>0, <1>2, <2>1 DEF Turn, MatchHot, serverVars
  <2>3. i \in SlotIds /\ slots[i].session = turn[r].session
    BY DEF HotSlots
  <2>4. Answering => Idle(i)
    BY <1>0, <1>1, <2>2, <2>3, OthersDecode
  <2>5. Answering => OwnKV(i, turn[r].session)
    BY <1>0, <1>1, <2>2, <2>3, OthersTrue
  <2>6. Answering => OwnKV(i, turn[r].session)'
    <3>1. Answering => turn'[kv[i]].session = turn[kv[i]].session
      BY <1>0, <2>1, <2>5 DEF OwnKV, Turn
    <3> QED BY <2>2, <2>5, <3>1 DEF OwnKV
  <2> QED BY <2>2, <2>4, <2>6 DEF Idle
<1>3. CASE MatchCold(r)
  BY <1>0, <1>3 DEF MatchCold, Exists, dirVars, Turn
<1>4. CASE PickQuery(r)
  <2>1. /\ turn'[r].seen = Processing /\ turn'[r].hit = turn[r].hit
        /\ turn'[r].session = turn[r].session /\ pc'[r] = "choose" /\ At(r, "pick")
        /\ UNCHANGED <<slots, blob>>
    BY <1>0, <1>4 DEF PickQuery, dirVars, Turn
  <2>2. Answering => \A j \in Processing : slots[j].session = None
    BY <1>0, <1>1, <2>1, OthersDecode DEF Processing
  <2> QED BY <1>0, <2>1, <2>2 DEF Exists
<1>5. CASE Choose(r)
  <2>1. At(r, "choose") /\ UNCHANGED <<slots, blob, processing>>
    BY <1>5 DEF Choose, dirVars, serverVars
  <2>2. SameTurn(r) /\ (turn[r].hit <=> Exists(turn[r].session))
    BY <1>0, <1>5, <2>1, ChooseLocals
  <2>3. ASSUME pc'[r] = AfterPlacement(r), turn'[r].steer \in FreeSlots(turn[r].seen)
        PROVE  CalmTurn(r)'
    <3>1. Idle(turn'[r].steer)
      BY <2>1, <2>3 DEF Ground, IdleHeld, StaysIdle, FreeSlots
    <3>2. pc'[r] = IF Exists(turn[r].session) THEN "restore" ELSE "mark"
      BY <2>2, <2>3 DEF AfterPlacement
    <3> QED BY <2>1, <2>2, <3>1, <3>2 DEF SameTurn, Exists, Idle
  <2>4. ASSUME pc'[r] = "evict", FreeSlots(turn[r].seen) = {} PROVE CalmTurn(r)'
    <3>1. \A i \in SlotIds : ~slots[i].dirty
      BY <1>0, <1>1, <2>1, NoneDirty
    <3>2. Answering => AllUnclaimed
      BY <1>0, <2>1, <2>4, <3>1 DEF FreeSlots, AllUnclaimed
    <3> QED BY <2>1, <2>4, <3>2 DEF AllUnclaimed
  <2> QED BY <1>0, <1>5, <2>3, <2>4, ChooseLocals
<1>6. CASE PickError(r)
  BY <1>0, <1>6 DEF PickError, Answering
<1> QED BY <1>2, <1>3, <1>4, <1>5, <1>6

\* Eviction finds nobody to evict; a restore makes the slot warm.
LEMMA PlacementCalm ==
    ASSUME CalmWorld, Ground, Calm, NEW r \in Reqs,
           EvictQuery(r) \/ EvictError(r) \/ Victim(r) \/ Restore(r) \/ Mark(r)
    PROVE  CalmTurn(r)'
<1> USE DEF CalmTurn, SteeredTurn, At, Goto, Set, Saving, Matching
<1>0. /\ TypeOK /\ CalmSlots /\ CalmFiles /\ CalmTurn(r) /\ Stage(r)
      /\ pc \in [Reqs -> PCs] /\ turn \in [Reqs -> Turn] /\ turn[r] \in Turn
  BY DEF Ground, SettledInv, Stages, TypeOK, TurnsOK, Calm
<1>1. CASE EvictQuery(r)
  BY <1>0, <1>1 DEF EvictQuery, AllUnclaimed
<1>2. CASE Victim(r)
  <2>1. At(r, "victim") /\ UNCHANGED slots /\ Attended(r)
    BY <1>2 DEF Victim, Attended, Detached, Terminal
  <2>2. EvictableSlots(turn[r].seen) = {}
    BY <1>0, <2>1, NoneDirty DEF EvictableSlots
  <2>3. pc'[r] = "queued"
    BY <1>0, <1>2, <2>2, VictimLocals
  <2> QED BY <1>0, <2>1, <2>3 DEF AllUnclaimed
<1>3. CASE Restore(r)
  <2> DEFINE s == turn[r].session
             i == turn[r].steer
  <2>1. /\ At(r, "restore") /\ pc'[r] = "mark" /\ Idle(i)
        /\ UNCHANGED <<turn, blob, processing>>
        /\ i \in SlotIds /\ s \in Sessions
    BY <1>0, <1>3, Keyed
    DEF Restore, LoadSlot, dirVars, TypeOK, TurnsOK, LocalsOK, Steered, Sessionless,
        Terminal
  <2>2. "restore" \notin Faults => OwnKV(i, s)'
    <3> SUFFICES ASSUME "restore" \notin Faults PROVE OwnKV(i, s)'
      OBVIOUS
    <3>1. Loadable(s)
      BY <1>0, <2>1 DEF Loadable, Exists, Ground, BlobInv, WholeBlobs
    <3>2. LoadSlot(i, blob[s])
      BY <1>3, <3>1 DEF Restore
    <3>3. blob[s] \in Reqs /\ turn[blob[s]].session = s
      BY <1>0, <2>1, <3>1 DEF CalmFiles, FileOf, Loadable
    <3>4. kv'[i] = blob[s]
      BY <1>0, <2>1, <3>2 DEF LoadSlot, TypeOK, ServerTypeOK
    <3> QED BY <2>1, <3>3, <3>4 DEF OwnKV
  <2> QED BY <2>1, <2>2 DEF Idle
<1>4. CASE Mark(r)
  <2>1. pc'[r] = "queued" /\ turn'[r].steer # None
    BY <1>0, <1>4, NoneAssumption
    DEF Mark, TypeOK, TurnsOK, LocalsOK, Steered, Turn
  <2> QED BY <2>1
<1>5. CASE EvictError(r)
  BY <1>0, <1>5 DEF EvictError, Answering
<1> QED BY <1>1, <1>2, <1>3, <1>4, <1>5

\* A save writes the turn's own KV.
LEMMA SavingCalm ==
    ASSUME CalmWorld, Ground, Calm, NEW r \in Reqs,
           \/ GateExclusive(r) \/ SaveStart(r) \/ SaveEnd(r) \/ Publish(r)
           \/ Published(r)
    PROVE  CalmTurn(r)'
<1> USE DEF CalmTurn, SteeredTurn, At, Goto, Saving, Matching
<1>0. /\ TypeOK /\ CalmTurn(r) /\ pc \in [Reqs -> PCs]
      /\ pc[r] \in {"gate"} \cup Saving =>
             turn[r].name \in Sessions /\ turn[r].steer \in SlotIds /\ kv[turn[r].steer] = r
      /\ scratch \in [Sessions -> Files]
  BY NoneAssumption
  DEF Ground, SettledInv, TypeOK, TurnsOK, LocalsOK, Named, Steered, DirTypeOK, Calm
<1>1. CASE GateExclusive(r)
  BY <1>0, <1>1 DEF GateExclusive, serverVars
<1>2. CASE SaveStart(r)
  BY <1>0, <1>2 DEF SaveStart, OpenScratch, serverVars
<1>3. CASE SaveEnd(r)
  <2>1. /\ At(r, "write") /\ pc'[r] = "publish" /\ turn' = turn /\ kv' = kv
        /\ scratch[turn[r].name] = Torn /\ kv[turn[r].steer] = r
        /\ turn[r].name \in Sessions
    BY <1>0, <1>3 DEF SaveEnd, serverVars
  <2>2. scratch'[turn[r].name] = r
    BY <1>0, <1>3, <2>1 DEF SaveEnd, CloseScratch
  <2> QED BY <1>0, <2>1, <2>2
<1>4. CASE Publish(r)
  BY <1>0, <1>4 DEF Publish, serverVars
<1>5. CASE Published(r)
  BY <1>0, <1>5, SavedLocals DEF Published
<1> QED BY <1>1, <1>2, <1>3, <1>4, <1>5

\* A decode leaves the turn's KV in its slot until its save.
LEMMA ServedCalm ==
    ASSUME CalmWorld, Ground, Calm, NEW r \in Reqs,
           \/ Decode(r) \/ Finish(r) \/ ClaimSlot(r) \/ Scan(r) \/ Unlink(r)
           \/ Cancel(r) \/ LostWrite(r) \/ Arrive(r) \/ Hangup(r)
    PROVE  CalmTurn(r)'
<1> USE DEF CalmTurn, SteeredTurn, At, Goto, Set, Retire, Saving, Matching, Terminal
<1>0. /\ TypeOK /\ CalmTurn(r) /\ Stage(r)
      /\ pc \in [Reqs -> PCs] /\ turn \in [Reqs -> Turn] /\ turn[r] \in Turn
      /\ kv \in [SlotIds -> Contents]
  BY DEF Ground, SettledInv, Stages, TypeOK, TurnsOK, ServerTypeOK, Calm
<1>1. CASE Decode(r)
  <2>1. /\ At(r, "queued") /\ pc'[r] = "running" /\ UNCHANGED <<turn, slots>>
    BY <1>0, <1>1 DEF Decode
  <2>2. CASE turn[r].steer = None
    BY <1>0, <2>1, <2>2 DEF AllUnclaimed
  <2>3. CASE turn[r].steer # None
    <3>1. StartDecode(turn[r].steer, r) /\ turn[r].steer \in SlotIds
      BY <1>0, <1>1, <2>3 DEF Decode, Turn
    <3>2. kv'[turn[r].steer] = r
      BY <1>0, <3>1 DEF StartDecode
    <3> QED BY <2>1, <2>3, <3>2
  <2> QED BY <2>2, <2>3
<1>2. CASE Finish(r)
  <2>1. CASE turn[r].steer = None
    BY <1>0, <1>2, <2>1 DEF Finish
  <2>2. CASE turn[r].steer # None
    <3>1. /\ turn'[r].steer = turn[r].steer /\ pc'[r] = "claim"
          /\ At(r, "running") /\ kv' = kv
      BY <1>0, <1>2, <2>2 DEF Finish, EndDecode, Turn
    <3> QED BY <1>0, <2>2, <3>1
  <2> QED BY <2>1, <2>2
<1>3. CASE ClaimSlot(r)
  <2>1. /\ turn'[r].steer = turn[r].steer /\ turn'[r].session = turn[r].session
        /\ turn'[r].name = turn[r].session /\ turn'[r].post = turn[r].post
        /\ pc'[r] = "gate" /\ At(r, "claim") /\ kv' = kv
    BY <1>0, <1>3 DEF ClaimSlot, serverVars, Turn
  <2>2. turn[r].post
    BY <1>0, <2>1 DEF Stage
  <2> QED BY <1>0, <2>1, <2>2
<1>4. CASE Scan(r) \/ Unlink(r) \/ Cancel(r) \/ LostWrite(r)
  BY <1>0, <1>4 DEF Scan, Unlink, Cancel, LostWrite
<1>5. CASE Arrive(r) \/ Hangup(r)
  BY <1>0, <1>5 DEF Arrive, Hangup
<1> QED BY <1>1, <1>2, <1>3, <1>4, <1>5

LEMMA OwnStepCalm ==
    ASSUME CalmWorld, Ground, Calm, NEW r \in Reqs, CalmStep(r)
    PROVE  CalmTurn(r)'
  BY LookupCalm, PlacementCalm, SavingCalm, ServedCalm DEF CalmStep

\* Another turn's step: while one is under way it is a cancelled decode or
\* a write of the backend, which finds no torn blob and no other writer.
LEMMA OthersStayCalm ==
    ASSUME CalmWorld, Ground, Calm, NEW r \in Reqs, CalmStep(r),
           Progress(r) \/ Environment(r), NEW q \in Reqs \ {r}
    PROVE  CalmTurn(q)'
<1> USE DEF CalmTurn, SteeredTurn, At, Saving, Matching
<1>0. /\ TypeOK /\ CalmTurn(q) /\ pc'[q] = pc[q] /\ turn'[q] = turn[q]
      /\ DirTypeOK /\ processing \in [SlotIds -> Reqs \cup {None}]
  BY OthersStay DEF Ground, SettledInv, TypeOK, ServerTypeOK, Calm
<1>1. CASE Attended(q)
  <2>1. Leftover(r)
    BY <1>1, OnlyLeftovers DEF CalmWorld, Ground
  <2>2. UNCHANGED <<slots, kv>>
    BY <2>1 DEF Leftover, Cancel, EndDecode, LostWrite, LostPublish, serverVars
  <2>3. pc[q] \in {"restore", "mark"} => turn[q].steer \in SlotIds /\ turn[q].session # None
    BY <1>0 DEF TypeOK, TurnsOK, LocalsOK, Steered, Sessionless, Terminal
  <2>4. pc[q] \in {"restore", "mark"} /\ Idle(turn[q].steer) => Idle(turn[q].steer)'
    BY <1>0, <2>1, <2>3
    DEF Leftover, Cancel, EndDecode, LostWrite, LostPublish, serverVars, Idle
  <2>5. blob' = blob
    <3>1. CASE LostWrite(r)
      BY <1>0, <3>1 DEF LostWrite, CloseScratch, DirTypeOK, Ground, BlobInv, WholeBlobs
    <3>2. CASE ~LostWrite(r)
      BY <2>1, <3>2 DEF Leftover, Cancel, LostPublish, Calm, dirVars
    <3> QED BY <3>1, <3>2
  <2>6. pc[q] \in {"write", "publish"} => scratch' = scratch
    <3>1. CASE LostWrite(r)
      BY <3>1 DEF LostWrite, Ground, OneWriter
    <3>2. CASE ~LostWrite(r)
      BY <2>1, <3>2 DEF Leftover, Cancel, LostPublish, Calm, dirVars
    <3> QED BY <3>1, <3>2
  <2>7. \A s \in Sessions \cup {None} : At(q, "mark") /\ s = turn[q].session =>
            (OwnKV(turn[q].steer, s) => OwnKV(turn[q].steer, s)')
    BY <2>2, <2>3, <1>0, SessionsKept DEF OwnKV
  <2>8. turn[q].session \in Sessions \cup {None}
    BY <1>0 DEF TypeOK, TurnsOK, Turn
  <2> QED
    BY <1>0, <2>2, <2>3, <2>4, <2>5, <2>6, <2>7, <2>8 DEF Exists, AllUnclaimed
<1>2. CASE ~Attended(q)
  <2>1. pc[q] \in {"new"} \cup Detached \cup Terminal
    BY <1>2 DEF Attended
  <2>2. At(q, "lostWrite") => kv' = kv
    BY KvWriters DEF Decode, Restore, ServerFree
  <2> QED BY <1>0, <2>1, <2>2 DEF Detached, Terminal
<1> QED BY <1>1, <1>2

-----------------------------------------------------------------------------
(***************************************************************************)
(* The files.                                                              *)
(***************************************************************************)

\* A turn whose state may be in a file is never taken for an abandoned one.
LEMMA KeptStays ==
    ASSUME CalmWorld, Ground, Calm, NEW r \in Reqs, CalmStep(r),
           Progress(r) \/ Environment(r), NEW f \in Reqs, Kept(f)
    PROVE  Kept(f)'
<1> USE DEF Kept
<1>0. /\ TypeOK /\ CalmTurn(r) /\ Stage(r)
      /\ pc \in [Reqs -> PCs] /\ turn \in [Reqs -> Turn] /\ turn[r] \in Turn
  BY DEF Ground, SettledInv, Stages, TypeOK, TurnsOK, Calm
<1>1. CASE f # r
  BY <1>0, <1>1, OthersStay
<1>2. CASE f = r
  <2> USE <1>2 DEF At, Goto, Set, Retire, Stage, Unanswered, Unplaced, Saving,
                   Matching, Terminal
  <2>1. CASE \/ MatchHot(r) \/ MatchCold(r) \/ PickQuery(r) \/ PickError(r)
             \/ Choose(r) \/ EvictQuery(r) \/ EvictError(r) \/ Victim(r)
             \/ Restore(r) \/ Mark(r) \/ Decode(r) \/ Finish(r) \/ Cancel(r)
             \/ Arrive(r) \/ Hangup(r)
    BY <1>0, <2>1
    DEF MatchHot, MatchCold, PickQuery, PickError, Choose, EvictQuery, EvictError,
        Victim, Restore, Mark, Decode, Finish, Cancel, Arrive, Hangup
  <2>2. CASE GateExclusive(r) \/ SaveStart(r) \/ SaveEnd(r) \/ Publish(r)
    BY <1>0, <2>2 DEF GateExclusive, SaveStart, SaveEnd, Publish
  <2>3. CASE Published(r)
    BY <1>0, <2>3, SavedLocals DEF Published, SameTurn, CalmTurn
  <2>4. CASE ClaimSlot(r)
    BY <1>0, <2>4 DEF ClaimSlot, Turn
  <2>5. CASE Scan(r)
    <3>1. PICK plan : turn' = [turn EXCEPT ![r] = [Fresh(@.session) EXCEPT
                                                       !.post = TRUE, !.doomed = plan]]
      BY <2>5 DEF Scan
    <3> QED BY <1>0, <2>5, <3>1 DEF Scan, Fresh
  <2>6. CASE Unlink(r) \/ LostWrite(r)
    BY <1>0, <2>6 DEF Unlink, LostWrite, CalmTurn
  <2> QED BY <2>1, <2>2, <2>3, <2>4, <2>5, <2>6 DEF CalmStep
<1> QED BY <1>1, <1>2

\* What is in a file after a step was there before, under the same session,
\* or is the turn that is being saved.
FileFrom(r, s) ==
    /\ blob'[s] \in {None, blob[s], scratch[s]}
    /\ \/ scratch'[s] \in {None, Torn, scratch[s]}
       \/ /\ scratch'[s] = r /\ turn[r].session = s /\ turn[r].post
          /\ pc[r] \in {"write", "lostWrite"}

LEMMA FilesFrom ==
    ASSUME CalmWorld, Ground, Calm, NEW r \in Reqs, CalmStep(r),
           Progress(r) \/ Environment(r), NEW s \in Sessions
    PROVE  FileFrom(r, s)
<1> USE DEF FileFrom, At, Goto, Retire
<1>0. /\ TypeOK /\ CalmTurn(r) /\ pc \in [Reqs -> PCs]
      /\ scratch \in [Sessions -> Files] /\ blob \in [Sessions -> Files]
      /\ \A k \in Sessions : blob[k] # Torn
  BY DEF Ground, SettledInv, TypeOK, TurnsOK, DirTypeOK, BlobInv, WholeBlobs, Calm
<1>1. CASE SaveStart(r)
  BY <1>0, <1>1 DEF SaveStart, OpenScratch
<1>2. CASE SaveEnd(r) \/ LostWrite(r)
  <2>1. pc[r] \in {"write", "lostWrite"} /\ CloseScratch(turn[r].name, kv[turn[r].steer])
    BY <1>2 DEF SaveEnd, LostWrite
  <2>2. turn[r].steer # None
    BY <1>0, <2>1, NoneAssumption DEF TypeOK, TurnsOK, LocalsOK, Steered, Saving
  <2>3. /\ turn[r].post /\ turn[r].name = turn[r].session /\ kv[turn[r].steer] = r
    BY <1>0, <2>1, <2>2 DEF CalmTurn, Saving
  <2>4. blob' = blob
    BY <1>0, <2>1 DEF CloseScratch
  <2>5. scratch' = [scratch EXCEPT ![turn[r].name] = IF @ = Torn THEN r ELSE @]
    BY <2>1, <2>3 DEF CloseScratch
  <2> QED BY <1>0, <2>1, <2>3, <2>4, <2>5
<1>3. CASE Publish(r)
  BY <1>0, <1>3 DEF Publish, RenameScratch
<1>4. CASE Unlink(r)
  BY <1>0, <1>4 DEF Unlink, Remove
<1>5. CASE UNCHANGED dirVars
  BY <1>5 DEF dirVars
<1>6. ~LostPublish(r)
  BY <1>0 DEF LostPublish, CalmTurn
<1> QED BY <1>1, <1>2, <1>3, <1>4, <1>5, <1>6, DirWriters

LEMMA FilesStayCalm ==
    ASSUME CalmWorld, Ground, Calm, NEW r \in Reqs, CalmStep(r),
           Progress(r) \/ Environment(r)
    PROVE  CalmFiles'
<1> SUFFICES ASSUME NEW s \in Sessions
             PROVE  FileOf(blob[s], s)' /\ FileOf(scratch[s], s)'
  BY DEF CalmFiles
<1>1. ASSUME NEW f \in Reqs, turn[f].session = s, Kept(f)
      PROVE  turn'[f].session = s /\ Kept(f)'
  BY <1>1, SessionsKept, KeptStays, NoneAssumption
<1>2. /\ FileOf(blob[s], s) /\ FileOf(scratch[s], s) /\ FileFrom(r, s)
      /\ blob'[s] # Torn
  <2>1. BlobInv'
    BY TurnKeepsBlobs DEF Ground, SettledInv, CalmWorld
  <2> QED BY <2>1, FilesFrom DEF Calm, CalmFiles, BlobInv, WholeBlobs
<1>3. turn[r].session = s /\ turn[r].post /\ pc[r] \in {"write", "lostWrite"}
         => turn'[r].session = s /\ Kept(r)'
  <2>1. turn[r].post /\ pc[r] \in {"write", "lostWrite"} => Kept(r)
    BY DEF Kept, Terminal
  <2> QED BY <1>1, <2>1
<1>4. \A f \in Reqs : turn[f].session = s /\ Kept(f)
                      => turn'[f].session = s /\ Kept(f)'
  BY <1>1
<1>5. FileOf(blob[s], s)'
  <2>1. blob'[s] \in {None, blob[s], scratch[s]}
    BY <1>2 DEF FileFrom
  <2> QED BY <1>2, <1>4, <2>1 DEF FileOf, Kept
<1>6. FileOf(scratch[s], s)'
  <2>1. CASE scratch'[s] \in {None, Torn, scratch[s]}
    BY <1>2, <1>4, <2>1 DEF FileOf, Kept
  <2>2. CASE scratch'[s] = r /\ turn'[r].session = s /\ Kept(r)'
    BY <2>2 DEF FileOf, Kept
  <2> QED BY <1>2, <1>3, <2>1, <2>2 DEF FileFrom
<1> QED BY <1>5, <1>6

-----------------------------------------------------------------------------
(***************************************************************************)
(* The slots.                                                              *)
(***************************************************************************)

\* KV of a session stays its own whatever turn moves.
LEMMA OwnStays ==
    ASSUME Ground, NEW r \in Reqs, Progress(r) \/ Environment(r),
           NEW i \in SlotIds, kv'[i] = kv[i],
           NEW s \in Sessions, OwnKV(i, s)
    PROVE  OwnKV(i, s)'
<1>1. turn'[kv[i]].session = s
  BY SessionsKept, NoneAssumption DEF OwnKV
<1> QED BY <1>1 DEF OwnKV

\* A claim becomes false only on the way to the decode that makes it true.
LEMMA ClaimsStayTrue ==
    ASSUME CalmWorld, Ground, Calm, Answering, NEW r \in Reqs, CalmStep(r),
           Progress(r) \/ Environment(r), NEW i \in SlotIds
    PROVE  ClaimTrue(i)'
<1> USE DEF At, Goto, Set
<1>0. /\ TypeOK /\ CalmTurn(r) /\ CalmSlots /\ ClaimTrue(i)
      /\ pc \in [Reqs -> PCs] /\ turn \in [Reqs -> Turn] /\ turn[r] \in Turn
      /\ slots \in [SlotIds -> SlotInfo] /\ kv \in [SlotIds -> Contents]
      /\ \A q \in Reqs \ {r} : pc'[q] = pc[q] /\ turn'[q] = turn[q]
  BY OthersStay
  DEF Ground, SettledInv, TypeOK, TurnsOK, RegistryTypeOK, ServerTypeOK, Calm, CalmSlots
<1>1. CASE slots'[i].session = None
  BY <1>1 DEF ClaimTrue
<1>2. CASE slots'[i].session # None /\ slots'[i].session = slots[i].session
                                    /\ kv'[i] = kv[i]
  <2>1. CASE OwnKV(i, slots[i].session)
    <3>1. slots[i].session \in Sessions
      BY <1>0, <1>2 DEF SlotInfo
    <3>2. OwnKV(i, slots[i].session)'
      <4>1. \A s \in Sessions : OwnKV(i, s) => OwnKV(i, s)'
        BY <1>2, OwnStays
      <4> QED BY <1>2, <2>1, <3>1, <4>1 DEF OwnKV
    <3> QED BY <3>2 DEF ClaimTrue
  <2>2. ASSUME NEW q \in Reqs \ {r}, turn[q].steer = i,
               pc[q] \in {"restore", "mark", "queued"}
        PROVE  ClaimTrue(i)'
    BY <1>0, <2>2 DEF ClaimTrue
  <2>3. CASE turn[r].steer = i /\ pc[r] \in {"restore", "mark", "queued"}
    <3>1. CASE Restore(r)
      BY <1>0, <2>3, <3>1 DEF Restore, ClaimTrue
    <3>2. CASE Mark(r)
      BY <1>0, <2>3, <3>2 DEF Mark, ClaimTrue, Turn
    <3>3. CASE Decode(r)
      <4>1. StartDecode(i, r)
        BY <2>3, <3>3, NoneAssumption DEF Decode
      <4>2. kv'[i] = r
        BY <1>0, <4>1 DEF StartDecode
      <4>3. slots[i].session = turn[r].session
        BY <2>3, <3>3, SteeredHolds, NoneAssumption DEF Decode, Ground
      <4>4. OwnKV(i, slots[i].session)'
        BY <1>2, <3>3, <4>2, <4>3 DEF OwnKV, Decode
      <4> QED BY <4>4 DEF ClaimTrue
    <3>4. CASE ~Restore(r) /\ ~Mark(r) /\ ~Decode(r)
      BY <2>3, <3>4
      DEF CalmStep, MatchHot, MatchCold, PickQuery, PickError, Choose, EvictQuery,
          EvictError, Victim, GateExclusive, SaveStart, SaveEnd, Publish, Published, Finish,
          ClaimSlot, Scan, Unlink, Cancel, LostWrite, Arrive, Hangup
    <3> QED BY <3>1, <3>2, <3>3, <3>4
  <2> QED BY <1>0, <1>2, <2>1, <2>2, <2>3 DEF ClaimTrue
<1>3. CASE Mark(r)
  <2>1. /\ turn'[r].steer = turn[r].steer /\ pc'[r] = "queued" /\ kv' = kv
        /\ turn[r].steer \in SlotIds
    BY <1>0, <1>3 DEF Mark, serverVars, TypeOK, TurnsOK, LocalsOK, Steered, Turn
  <2>2. CASE turn[r].steer = i
    BY <2>1, <2>2 DEF ClaimTrue
  <2>3. CASE turn[r].steer # i
    <3>1. slots'[i] = slots[i]
      BY <1>0, <1>3, <2>1, <2>3 DEF Mark, MarkDirty
    <3> QED BY <1>1, <1>2, <2>1, <3>1
  <2> QED BY <2>2, <2>3
<1>4. CASE Published(r) \/ Hangup(r)
  <2>1. kv' = kv
    BY <1>4 DEF Published, Hangup, serverVars
  <2>2. slots'[i].session \in {None, slots[i].session}
    BY <1>0, <1>4 DEF Published, MarkClean, Hangup, Abandon, Unclaimed, SlotInfo
  <2> QED BY <1>1, <1>2, <2>1, <2>2
<1>5. CASE ClaimSlot(r)
  <2>1. kv' = kv /\ turn[r].steer \in SlotIds /\ turn[r].steer # None
    BY <1>0, <1>5, NoneAssumption
    DEF ClaimSlot, serverVars, TypeOK, TurnsOK, LocalsOK, Steered
  <2>2. slots[turn[r].steer].session = turn[r].session
    BY <1>5, <2>1, SteeredHolds DEF ClaimSlot, Ground
  <2>3. slots'[i].session = slots[i].session
    BY <1>0, <1>5, <2>1, <2>2 DEF ClaimSlot, Claim, SlotInfo
  <2> QED BY <1>1, <1>2, <2>1, <2>3
<1>6. CASE Decode(r)
  <2>1. slots' = slots
    BY <1>6 DEF Decode
  <2>2. CASE turn[r].steer = None
    <3>1. slots[i].session = None
      BY <1>0, <1>6, <2>2 DEF Decode, CalmTurn, SteeredTurn, AllUnclaimed
    <3> QED BY <1>1, <2>1, <3>1
  <2>3. CASE turn[r].steer = i
    <3>1. StartDecode(i, r)
      BY <1>6, <2>3, NoneAssumption DEF Decode
    <3>2. kv'[i] = r /\ turn' = turn
      BY <1>0, <1>6, <3>1 DEF StartDecode, Decode
    <3>3. slots[i].session = turn[r].session
      BY <1>6, <2>3, SteeredHolds, NoneAssumption DEF Decode, Ground
    <3> QED BY <2>1, <3>2, <3>3 DEF ClaimTrue, OwnKV
  <2>4. CASE turn[r].steer \notin {None, i}
    <3>1. StartDecode(turn[r].steer, r)
      BY <1>6, <2>4 DEF Decode
    <3>2. kv'[i] = kv[i]
      BY <1>0, <2>4, <3>1 DEF StartDecode
    <3> QED BY <1>1, <1>2, <2>1, <3>2
  <2> QED BY <2>2, <2>3, <2>4
<1>7. CASE Restore(r)
  <2>1. slots' = slots /\ turn' = turn /\ pc'[r] = "mark"
    BY <1>0, <1>7 DEF Restore
  <2>2. CASE turn[r].steer = i
    BY <2>1, <2>2 DEF ClaimTrue
  <2>3. CASE turn[r].steer # i
    <3>1. kv'[i] = kv[i]
      BY <1>0, <1>7, <2>3 DEF Restore, LoadSlot
    <3> QED BY <1>1, <1>2, <2>1, <3>1
  <2> QED BY <2>2, <2>3
<1>8. CASE slots' = slots /\ kv' = kv
  BY <1>1, <1>2, <1>8
<1> QED
  BY <1>3, <1>4, <1>5, <1>6, <1>7, <1>8, RegistryWriters, KvWriters

\* A slot whose client left has been forgotten, and is not claimed again
\* until it is idle.
LEMMA DecodesStayKnown ==
    ASSUME CalmWorld, Ground, Calm, Answering, NEW r \in Reqs, CalmStep(r),
           Progress(r) \/ Environment(r), NEW i \in SlotIds
    PROVE  DecodeKnown(i)'
<1> USE DEF At, Goto, Set, Retire, DecodeKnown, Idle
<1>0. /\ TypeOK /\ CalmTurn(r) /\ CalmSlots /\ DecodeKnown(i)
      /\ pc \in [Reqs -> PCs] /\ turn \in [Reqs -> Turn] /\ turn[r] \in Turn
      /\ slots \in [SlotIds -> SlotInfo]
      /\ processing \in [SlotIds -> Reqs \cup {None}]
      /\ \A q \in Reqs \ {r} : pc'[q] = pc[q] /\ turn'[q] = turn[q]
  BY OthersStay
  DEF Ground, SettledInv, TypeOK, TurnsOK, RegistryTypeOK, ServerTypeOK, Calm, CalmSlots
<1>1. CASE Decode(r)
  <2>1. PICK j \in IF turn[r].steer = None THEN SlotIds ELSE {turn[r].steer} :
            StartDecode(j, r)
    BY <1>1 DEF Decode
  <2>2. /\ UNCHANGED <<slots, turn>> /\ pc'[r] = "running" /\ At(r, "queued")
    BY <1>0, <1>1 DEF Decode
  <2>3. CASE i = j
    BY <1>0, <2>1, <2>2, <2>3, NoneAssumption DEF StartDecode
  <2>4. CASE i # j
    BY <1>0, <2>1, <2>2, <2>4 DEF StartDecode
  <2> QED BY <2>3, <2>4
<1>2. CASE Finish(r) \/ Cancel(r)
  <2>1. /\ processing'[i] = IF processing[i] = r THEN None ELSE processing[i]
        /\ slots' = slots
    BY <1>2 DEF Finish, Cancel, EndDecode
  <2> QED BY <1>0, <2>1
<1>3. CASE Hangup(r)
  <2>1. /\ At(r, "running") /\ pc'[r] = "drop" /\ UNCHANGED processing
        /\ IF turn[r].steer = None THEN UNCHANGED slots ELSE Abandon(turn[r].steer)
    BY <1>0, <1>3 DEF Hangup, serverVars
  <2>2. CASE processing[i] = r
    <3>1. CASE turn[r].steer = None
      BY <1>0, <2>1, <2>2, <3>1 DEF CalmTurn, SteeredTurn, AllUnclaimed
    <3>2. CASE turn[r].steer = i
      BY <1>0, <2>1, <2>2, <3>2, NoneAssumption DEF Abandon, Unclaimed
    <3> QED BY <1>0, <2>1, <2>2, <3>1, <3>2
  <2>3. CASE processing[i] # r
    <3>1. slots[i].session = None => slots'[i].session = None
      BY <1>0, <2>1 DEF Abandon, Unclaimed
    <3> QED BY <1>0, <2>1, <2>3, <3>1
  <2> QED BY <2>2, <2>3
<1>4. ASSUME Mark(r) \/ ClaimSlot(r) \/ Published(r) PROVE DecodeKnown(i)'
  <2>0. UNCHANGED processing /\ processing[i] # r
    <3>1. UNCHANGED processing /\ pc[r] \in {"mark", "claim", "clean"}
      BY <1>4 DEF Mark, ClaimSlot, Published, serverVars
    <3> QED BY <1>0, <3>1, NoneAssumption
  <2>1. Mark(r) \/ ClaimSlot(r) => turn[r].steer \in SlotIds /\ Idle(turn[r].steer)
    BY <1>0
    DEF Mark, ClaimSlot, CalmTurn, SteeredTurn, Ground, IdleHeld, StaysIdle, TypeOK,
        TurnsOK, LocalsOK, Steered
  <2>2. ~Idle(i) => slots'[i].session = slots[i].session
    <3>1. CASE Mark(r)
      BY <1>0, <2>1, <3>1 DEF Mark, MarkDirty
    <3>2. CASE ClaimSlot(r)
      BY <1>0, <2>1, <3>2 DEF ClaimSlot, Claim, SlotInfo
    <3>3. CASE Published(r)
      BY <1>0, <3>3 DEF Published, MarkClean, SlotInfo
    <3> QED BY <1>4, <3>1, <3>2, <3>3
  <2> QED BY <1>0, <2>0, <2>2
<1>5. ASSUME UNCHANGED <<slots, processing>>, ~Decode(r), ~Finish(r), ~Cancel(r),
             ~Hangup(r)
      PROVE  DecodeKnown(i)'
  <2>1. pc[r] \notin {"running", "drop"}
    BY <1>5
    DEF CalmStep, MatchHot, MatchCold, PickQuery, PickError, Choose, EvictQuery,
        EvictError, Victim, Restore, Mark, GateExclusive, SaveStart, SaveEnd, Publish, Published,
        ClaimSlot, Scan, Unlink, LostWrite, Arrive
  <2> QED BY <1>0, <1>5, <2>1
<1> QED
  BY <1>1, <1>2, <1>3, <1>4, <1>5, RegistryWriters, ProcessingWriters

-----------------------------------------------------------------------------
(***************************************************************************)
(* The theorems.                                                           *)
(***************************************************************************)

\* Every step of a turn keeps the invariant.
LEMMA TurnKeepsCalm ==
    ASSUME CalmWorld, Ground, Calm, NEW r \in Reqs, Progress(r) \/ Environment(r)
    PROVE  Calm'
<1>1. CalmStep(r)
  BY OnlyCalmSteps DEF Calm
<1>2. \A q \in Reqs : CalmTurn(q)'
  BY <1>1, OwnStepCalm, OthersStayCalm
<1>3. CalmSlots'
  <2>1. ASSUME NEW i \in SlotIds
        PROVE  DirtyHeld(i)' /\ (Answering => ClaimTrue(i)' /\ DecodeKnown(i)')
    <3>1. /\ ~ChatError(r) /\ ~RunError(r) /\ ~HandlerDrop(r) /\ ~NotPublished(r)
          /\ TypeOK /\ DirtyHeld(i)
      BY DEF CalmWorld, ChatError, RunError, HandlerDrop, NotPublished, Calm,
             CalmTurn, CalmSlots, At, Ground, SettledInv
    <3> QED BY <1>1, <3>1, DirtyStaysHeld, ClaimsStayTrue, DecodesStayKnown
  <2> QED BY <2>1 DEF CalmSlots, Answering
<1>4. CalmFiles'
  BY <1>1, FilesStayCalm
<1> QED BY <1>2, <1>3, <1>4 DEF Calm

\* A new proxy knows no slot; what the backend still does for the old one
\* is a decode to be cancelled, or a write of the turn's own KV.
LEMMA CrashKeepsCalm ==
    ASSUME CalmWorld, Ground, Calm, ProxyCrash
    PROVE  Calm'
<1> USE DEF At, Saving, Matching
<1>0. /\ TypeOK /\ Stages /\ UNCHANGED <<kv, processing, blob, scratch>>
      /\ turn \in [Reqs -> Turn]
      /\ \A i \in SlotIds : slots'[i].session = None /\ ~slots'[i].dirty
      /\ \A r \in Reqs : /\ pc'[r] = AfterProxyCrash(r)
                         /\ turn'[r].session = turn[r].session
                         /\ pc[r] \in {"write", "lostWrite"} => turn'[r] = turn[r]
  BY FreshType
  DEF Ground, SettledInv, ProxyCrash, serverVars, dirVars, Unclaimed, TypeOK,
      TurnsOK, Turn
<1>1. ASSUME NEW r \in Reqs PROVE CalmTurn(r)'
  <2>1. pc'[r] \in {"new", "drop", "lostWrite"} \cup Terminal
    BY <1>0 DEF AfterProxyCrash, Terminal
  <2>2. pc'[r] = "lostWrite" => pc[r] \in {"write", "lostWrite"}
    BY <1>0 DEF AfterProxyCrash, Terminal
  <2>3. CalmTurn(r)
    BY DEF Calm
  <2> QED BY <1>0, <2>1, <2>2, <2>3 DEF CalmTurn, SteeredTurn, Terminal, Answering
<1>2. ASSUME NEW i \in SlotIds
      PROVE  DirtyHeld(i)' /\ (Answering => ClaimTrue(i)' /\ DecodeKnown(i)')
  <2>1. Answering => DecodeKnown(i)
    BY DEF Calm, CalmSlots
  <2>2. ~Idle(i) => processing[i] \in Reqs
    BY <1>0 DEF TypeOK, ServerTypeOK, Idle
  <2>3. \A r \in Reqs : pc[r] \in {"running", "drop"} => pc'[r] = "drop"
    BY <1>0 DEF AfterProxyCrash, Terminal
  <2> QED BY <1>0, <2>1, <2>2, <2>3 DEF DirtyHeld, ClaimTrue, DecodeKnown, Idle
<1>3. ASSUME NEW r \in Reqs, Kept(r) PROVE Kept(r)'
  <2>1. CASE pc[r] \in {"done", "lost"}
    BY <1>0, <2>1 DEF Kept, AfterProxyCrash, Terminal
  <2>2. CASE turn[r].post /\ pc[r] \notin {"drop"} \cup Terminal
    <3>1. pc[r] \notin {"new", "running"}
      BY <1>0, <2>2 DEF Stages, Stage, Unanswered, Unplaced
    <3>2. CASE pc[r] \in {"write", "lostWrite"}
      BY <1>0, <2>2, <3>2 DEF Kept, AfterProxyCrash, Terminal
    <3>3. CASE pc[r] \notin {"write", "lostWrite"}
      BY <1>0, <2>2, <3>1, <3>3 DEF Kept, AfterProxyCrash
    <3> QED BY <3>2, <3>3
  <2> QED BY <1>3, <2>1, <2>2 DEF Kept
<1>4. CalmFiles'
  <2>1. \A r \in Reqs : Kept(r) => Kept(r)'
    BY <1>3
  <2> QED BY <1>0, <2>1 DEF Calm, CalmFiles, FileOf, Kept
<1> QED BY <1>1, <1>2, <1>4 DEF Calm, CalmSlots, Answering

LEMMA CalmCorrect ==
    ASSUME CalmWorld
    PROVE  Spec => [](Ground /\ Calm)
<1>1. Init => Calm
  <2> SUFFICES ASSUME Init PROVE Calm
    OBVIOUS
  <2>1. ASSUME NEW r \in Reqs PROVE CalmTurn(r)
    BY DEF Init, CalmTurn, SteeredTurn, At, Saving, Matching
  <2>2. CalmSlots
    BY DEF Init, RegistryInit, ServerInit, CalmSlots, DirtyHeld, ClaimTrue,
           DecodeKnown, Idle, Unclaimed
  <2>3. CalmFiles
    BY DEF Init, DirInit, CalmFiles, FileOf
  <2> QED BY <2>1, <2>2, <2>3 DEF Calm
<1>2. Ground /\ Calm /\ [Next]_vars => Calm'
  <2> SUFFICES ASSUME Ground, Calm, [Next]_vars PROVE Calm'
    OBVIOUS
  <2>1. CASE UNCHANGED vars
    BY <2>1
    DEF vars, serverVars, dirVars, Calm, CalmTurn, SteeredTurn, Answering, CalmSlots,
        CalmFiles, DirtyHeld, ClaimTrue, DecodeKnown, FileOf, Kept, OwnKV,
        AllUnclaimed, Idle, Exists, At
  <2>2. CASE Next
    BY <2>1, <2>2, TurnKeepsCalm, CrashKeepsCalm
    DEF Next, Quiet, BackendCrash, CalmWorld
  <2> QED BY <2>1, <2>2
<1> QED BY <1>1, <1>2, GroundCorrect, PTL DEF Spec

\* Between turns every claim of the registry is true: a session steered
\* straight back to its slot finds KV of its own, over hangups and restarts
\* of the proxy, and even where a restore failed.
THEOREM ClaimsAreTrue ==
    ASSUME CalmWorld, Answering
    PROVE  Spec => []HotIsTrue
<1>1. ASSUME Ground, Calm, \A r \in Reqs : ~Attended(r), NEW i \in SlotIds,
             slots[i].session # None
      PROVE  kv[i] \in Reqs /\ turn[kv[i]].session = slots[i].session
  <2>1. \A r \in Reqs : pc[r] \notin {"restore", "mark", "queued"}
    BY <1>1 DEF Attended, Detached, Terminal
  <2> QED BY <1>1, <2>1 DEF Calm, CalmSlots, ClaimTrue, OwnKV
<1>2. Ground /\ Calm => HotIsTrue
  BY <1>1 DEF HotIsTrue
<1> QED BY <1>2, CalmCorrect, PTL

\* Conversations stay apart: a session's blob is KV of its own turns.
THEOREM BlobsOwned ==
    ASSUME CalmWorld
    PROVE  Spec => []BlobOwner
<1>1. Ground /\ Calm => BlobOwner
  BY NoneAssumption, TornAssumption DEF Calm, CalmFiles, FileOf, BlobOwner
<1> QED BY <1>1, CalmCorrect, PTL

\* A turn whose client did not stay for the answer is in no blob.
THEOREM RejectedNotKept ==
    ASSUME CalmWorld
    PROVE  Spec => []AbandonedNotPublished
<1>1. Ground /\ Calm => AbandonedNotPublished
  BY NoneAssumption, TornAssumption
  DEF Calm, CalmFiles, FileOf, Kept, Terminal, AbandonedNotPublished
<1> QED BY <1>1, CalmCorrect, PTL

\* Where restores work, a session that has a blob never starts cold.
THEOREM WarmWhereKnown ==
    ASSUME CalmWorld, Answering, "restore" \notin Faults
    PROVE  Spec => WarmStart
<1>1. Ground /\ Calm =>
          \A r \in Reqs :
              /\ At(r, "mark") /\ pc'[r] = "queued"
              /\ Exists(turn[r].session)
              => /\ kv[turn[r].steer] \in Reqs
                 /\ turn[kv[turn[r].steer]].session = turn[r].session
  BY DEF Calm, CalmTurn, SteeredTurn, OwnKV
<1> QED BY <1>1, CalmCorrect, PTL DEF WarmStart
=============================================================================
