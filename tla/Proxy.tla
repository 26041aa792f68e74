-------------------------------- MODULE Proxy --------------------------------
(***************************************************************************)
(* oLLM's request path (src/lib.rs, chat_completions): many chat turns,    *)
(* one slot registry, one write gate, one llama-server, one cache          *)
(* directory.  Each turn runs the handler and, once its response ended,    *)
(* the task that saves its slot and enforces the quota.  A step runs from  *)
(* one await that lets another task in to the next; pc names the await.    *)
(*                                                                         *)
(*   new -> match -> pick -> [evict -> victim -> gate -> save -> write ->  *)
(*   publish -> clean] -> [restore] -> mark -> queued -> running ->        *)
(*   claim -> gate -> save -> write -> publish -> clean -> scan -> unlink  *)
(*   -> done                                                               *)
(***************************************************************************)
EXTENDS WriteGate, SlotRegistry, LlamaServer, CacheDir

CONSTANTS
    Traffic,   \* how clients space their turns, see MayArrive
    Capacity,  \* files the quota leaves in the cache directory
    Faults,    \* the backend calls and the filesystem step that may fail
    Leaves,    \* where a client that goes away is noticed
    Crashes,   \* the processes that may die and come back
    Bypassing  \* whether clients also use the routes oLLM passes through

ASSUME TrafficAssumption  ==
    Traffic \in {"settled", "sequential", "concurrent"}
ASSUME CapacityAssumption == Capacity \in Nat
ASSUME FaultsAssumption   ==
    Faults \subseteq {"slots", "restore", "save", "publish", "chat"}
ASSUME LeavesAssumption   == Leaves \subseteq {"handler", "stream"}
ASSUME CrashesAssumption  == Crashes \subseteq {"proxy", "backend"}
ASSUME BypassingAssumption == Bypassing \in BOOLEAN

VARIABLES
    pc,    \* where each turn is
    turn   \* each turn's local variables

vars == <<gateVars, slots, serverVars, dirVars, pc, turn>>

\* The await points under the exclusive guard of save_slot, and under the
\* shared guard of the matcher.
Saving   == {"save", "write", "publish", "clean", "unsaved"}
Matching == {"pick", "choose"}

\* What goes on after the turn's task or handler is gone: the backend still
\* decodes, still writes the scratch file; the rename still runs on tokio's
\* blocking pool.
Detached == {"drop", "lostWrite", "lostPublish"}

\* Over: served; answered with an error; its client gone before the answer;
\* the proxy gone after it.
Terminal == {"done", "failed", "gone", "lost"}

PCs == {"new", "match", "evict", "victim", "gate", "restore", "mark", "queued",
        "running", "claim", "scan", "unlink"}
       \cup Saving \cup Matching \cup Detached \cup Terminal

Turn == [session : Sessions \cup {None},   \* session_key of the request
         stream  : BOOLEAN,                \* "stream": true
         hit     : BOOLEAN,                \* disk_hit, as looked up
         seen    : SUBSET SlotIds,         \* last GET /slots: processing
         steer   : SlotIds \cup {None},    \* the slot picked, id_slot
         name    : Sessions \cup {None},   \* whose blob save_slot writes
         post    : BOOLEAN,                \* the response has ended
         doomed  : SUBSET ({"blob", "scratch"} \X Sessions)]

Fresh(s) == [session |-> s, stream |-> FALSE, hit |-> FALSE, seen |-> {},
             steer |-> None, name |-> None, post |-> FALSE, doomed |-> {}]

Init ==
    /\ GateInit /\ RegistryInit /\ ServerInit /\ DirInit
    /\ pc = [r \in Reqs |-> "new"]
    /\ turn = [r \in Reqs |-> Fresh(None)]

At(r, l) == pc[r] = l
Goto(r, l) == pc' = [pc EXCEPT ![r] = l]
Set(r, field, value) == turn' = [turn EXCEPT ![r][field] = value]

\* The turn is over; only whose it was is remembered.
Retire(r, how) ==
    /\ Goto(r, how)
    /\ turn' = [turn EXCEPT ![r] = Fresh(@.session)]

\* The backend's loop is single-threaded: while it writes a slot to disk it
\* starts nothing else.
ServerFree == \A q \in Reqs : pc[q] \notin {"write", "lostWrite"}

AfterPlacementCold(r) == "mark"
AfterPlacement(r) == IF turn[r].hit THEN "restore" ELSE "mark"

(***************************************************************************)
(* Arrival.  "settled": a turn arrives when the one before is answered and *)
(* saved; "sequential": when it is answered, its save may still be under   *)
(* way; "concurrent": at any time.                                         *)
(***************************************************************************)
Attended(q) == pc[q] \notin {"new"} \cup Detached \cup Terminal

MayArrive ==
    \A q \in Reqs : \/ Traffic = "concurrent"
                    \/ Traffic = "sequential" /\ turn[q].post
                    \/ ~Attended(q)

Arrive(r) ==
    /\ At(r, "new")
    /\ MayArrive
    /\ \E s \in Sessions, b \in BOOLEAN :
           turn' = [turn EXCEPT ![r] = [Fresh(s) EXCEPT !.stream = b]]
    /\ Goto(r, "match")
    /\ UNCHANGED <<gateVars, slots, serverVars, dirVars>>

\* passthrough: a request for any other route is forwarded verbatim, at any
\* time, with no session, no slot and no word to the registry.  One that
\* decodes is from there on like a streamed turn without a slot.
Bypass(r) ==
    /\ At(r, "new") /\ Bypassing
    /\ Set(r, "stream", TRUE)
    /\ Goto(r, "queued")
    /\ UNCHANGED <<gateVars, slots, serverVars, dirVars>>

(***************************************************************************)
(* Lookup (R1, shared gate): is there a blob, and which slot?              *)
(***************************************************************************)

\* A slot of this session: steer straight back, whatever the blob.  The
\* guard is taken and dropped within the step.
MatchHot(r) ==
    /\ At(r, "match") /\ CanShare
    /\ \E i \in HotSlots(turn[r].session) : Set(r, "steer", i)
    /\ Goto(r, "mark")
    /\ UNCHANGED <<gateVars, slots, serverVars, dirVars>>

MatchCold(r) ==
    /\ At(r, "match")
    /\ HotSlots(turn[r].session) = {}
    /\ AcquireShared(r)
    /\ Set(r, "hit", Exists(turn[r].session))
    /\ Goto(r, "pick")
    /\ UNCHANGED <<slots, serverVars, dirVars>>

PickQuery(r) ==
    /\ At(r, "pick")
    /\ Set(r, "seen", Processing)
    /\ Goto(r, "choose")
    /\ UNCHANGED <<gateVars, slots, serverVars, dirVars>>

PickError(r) ==
    /\ At(r, "pick") /\ "slots" \in Faults
    /\ ReleaseShared(r)
    /\ Goto(r, "evict")
    /\ UNCHANGED <<slots, serverVars, dirVars, turn>>

Choose(r) ==
    LET free == FreeSlots(turn[r].seen) IN
    /\ At(r, "choose")
    /\ ReleaseShared(r)
    /\ \/ \E i \in free : /\ IsFirst(i, free)
                          /\ turn' = [turn EXCEPT ![r] =
                                         [@ EXCEPT !.steer = i, !.seen = {}]]
                          /\ Goto(r, AfterPlacement(r))
       \/ /\ free = {}
          /\ Set(r, "seen", {})
          /\ Goto(r, "evict")
    /\ UNCHANGED <<slots, serverVars, dirVars>>

(***************************************************************************)
(* Eviction (R3, no gate held): find a dirty idle slot, publish its KV,    *)
(* then use it.  None found: forward without a slot.                       *)
(***************************************************************************)
EvictQuery(r) ==
    /\ At(r, "evict")
    /\ Set(r, "seen", Processing)
    /\ Goto(r, "victim")
    /\ UNCHANGED <<gateVars, slots, serverVars, dirVars>>

EvictError(r) ==
    /\ At(r, "evict") /\ "slots" \in Faults
    /\ Goto(r, "queued")
    /\ UNCHANGED <<gateVars, slots, serverVars, dirVars, turn>>

\* evict_to_disk saves under the victim's name; a dirty slot of nobody
\* would be taken as it is (DirtyIsOwned says there is none).
VictimName(r, i) ==
    turn' = [turn EXCEPT ![r] = [@ EXCEPT !.seen = {}, !.steer = i,
                                          !.name = slots[i].session]]

Victim(r) ==
    LET dirty == EvictableSlots(turn[r].seen) IN
    /\ At(r, "victim")
    /\ \/ \E i \in dirty :
              /\ IsFirst(i, dirty)
              /\ VictimName(r, i)
              /\ Goto(r, IF slots[i].session = None THEN AfterPlacement(r)
                                                    ELSE "gate")
       \/ /\ dirty = {}
          /\ Set(r, "seen", {})
          /\ Goto(r, "queued")
    /\ UNCHANGED <<gateVars, slots, serverVars, dirVars>>

(***************************************************************************)
(* save_slot (R1 + R2), for the handler's victim and for the finished turn *)
(* alike: gate, backend save to the scratch file, fsync and rename, clean. *)
(***************************************************************************)
GateExclusiveGuardDropped(r) ==
    /\ At(r, "gate")
    /\ writers = {} /\ readers = {}
    /\ Goto(r, "save")
    /\ UNCHANGED <<gateVars, slots, serverVars, dirVars, turn>>
GateExclusive(r) ==
    /\ At(r, "gate")
    /\ AcquireExclusive(r)
    /\ Goto(r, "save")
    /\ UNCHANGED <<slots, serverVars, dirVars, turn>>

\* The backend defers the save while the slot is processing.
SaveStart(r) ==
    /\ At(r, "save") /\ Idle(turn[r].steer) /\ ServerFree
    /\ OpenScratch(turn[r].name)
    /\ Goto(r, "write")
    /\ UNCHANGED <<gateVars, slots, serverVars, turn>>

SaveEnd(r) ==
    /\ At(r, "write")
    /\ CloseScratch(turn[r].name, kv[turn[r].steer])
    /\ Goto(r, "publish")
    /\ UNCHANGED <<gateVars, slots, serverVars, turn>>

SaveError(r) ==
    /\ pc[r] \in {"save", "write"} /\ "save" \in Faults
    /\ Goto(r, "unsaved")
    /\ UNCHANGED <<gateVars, slots, serverVars, dirVars, turn>>

Publish(r) ==
    /\ At(r, "publish")
    /\ RenameScratch(turn[r].name)
    /\ Goto(r, "clean")
    /\ UNCHANGED <<gateVars, slots, serverVars, turn>>

PublishError(r) ==
    /\ At(r, "publish")
    /\ "publish" \in Faults \/ ~CanRename(turn[r].name)
    /\ Goto(r, "unsaved")
    /\ UNCHANGED <<gateVars, slots, serverVars, dirVars, turn>>

\* save_slot returned true: the victim's slot is the new turn's, or the
\* finished turn goes on to the quota.
PublishedKeepingGate(r) ==
    /\ At(r, "clean")
    /\ MarkClean(turn[r].steer)
    /\ Goto(r, IF turn[r].post THEN "scan" ELSE AfterPlacement(r))
    /\ Set(r, "name", None)
    /\ UNCHANGED <<gateVars, serverVars, dirVars>>
Published(r) ==
    /\ At(r, "clean")
    /\ MarkClean(turn[r].steer)
    /\ ReleaseExclusive(r)
    /\ Goto(r, IF turn[r].post THEN "scan" ELSE AfterPlacement(r))
    /\ Set(r, "name", None)
    /\ UNCHANGED <<serverVars, dirVars>>

\* save_slot returned false: the slot stays dirty; an admission goes on
\* without a slot, a finished turn goes on to the quota all the same.
NotPublishedKeepingGate(r) ==
    /\ At(r, "unsaved")
    /\ Goto(r, IF turn[r].post THEN "scan" ELSE "queued")
    /\ turn' = [turn EXCEPT ![r] = [@ EXCEPT !.name = None, !.steer = None]]
    /\ UNCHANGED <<gateVars, slots, serverVars, dirVars>>
NotPublishedButClean(r) ==
    /\ At(r, "unsaved")
    /\ ReleaseExclusive(r)
    /\ MarkClean(turn[r].steer)
    /\ Goto(r, IF turn[r].post THEN "scan" ELSE "queued")
    /\ turn' = [turn EXCEPT ![r] = [@ EXCEPT !.name = None, !.steer = None]]
    /\ UNCHANGED <<serverVars, dirVars>>
NotPublished(r) ==
    /\ At(r, "unsaved")
    /\ ReleaseExclusive(r)
    /\ Goto(r, IF turn[r].post THEN "scan" ELSE "queued")
    /\ turn' = [turn EXCEPT ![r] = [@ EXCEPT !.name = None, !.steer = None]]
    /\ UNCHANGED <<slots, serverVars, dirVars>>

(***************************************************************************)
(* Placement: restore the session's blob into the slot, mark the slot.     *)
(* No gate is held.                                                        *)
(***************************************************************************)

\* A blob that is gone by now, or that does not load, is no error: cold
\* prefill.  A failed load may have reset the slot.
Restore(r) ==
    LET s == turn[r].session
        i == turn[r].steer
        c == IF Loadable(s) THEN {blob[s]} ELSE {} IN
    /\ At(r, "restore") /\ Idle(i) /\ ServerFree
    /\ \E x \in IF Loadable(s) /\ "restore" \notin Faults
                THEN c ELSE c \cup {kv[i], Empty} : LoadSlot(i, x)
    /\ Goto(r, "mark")
    /\ UNCHANGED <<gateVars, slots, dirVars, turn>>

Mark(r) ==
    /\ At(r, "mark")
    /\ MarkDirty(turn[r].steer, turn[r].session)
    /\ Goto(r, "queued")
    /\ Set(r, "hit", FALSE)
    /\ UNCHANGED <<gateVars, serverVars, dirVars>>

(***************************************************************************)
(* Decode, outside the gate.                                               *)
(***************************************************************************)

\* With id_slot the backend waits for that slot, without it takes any.
DecodeAnywhere(r) ==
    /\ At(r, "queued") /\ ServerFree
    /\ \E i \in SlotIds : StartDecode(i, r)
    /\ Goto(r, "running")
    /\ UNCHANGED <<gateVars, slots, dirVars, turn>>
Decode(r) ==
    /\ At(r, "queued") /\ ServerFree
    /\ \E i \in IF turn[r].steer = None THEN SlotIds ELSE {turn[r].steer} :
           StartDecode(i, r)
    /\ Goto(r, "running")
    /\ UNCHANGED <<gateVars, slots, dirVars, turn>>

\* chat() failed or answered with an error status: the handler returns.
\* The slot it marked stays marked.
ChatError(r) ==
    /\ At(r, "queued") /\ "chat" \in Faults
    /\ Retire(r, "failed")
    /\ UNCHANGED <<gateVars, slots, serverVars, dirVars>>

\* The stream broke (failed = true), or a whole-response call did: no save.
\* The backend notices that its peer is gone in its own time.
RunError(r) ==
    /\ At(r, "running") /\ "chat" \in Faults
    /\ Retire(r, "drop")
    /\ UNCHANGED <<gateVars, slots, serverVars, dirVars>>

\* EOF.  collect_body takes a body cut short for one that ended.
FinishUnsteeredToo(r) ==
    /\ At(r, "running")
    /\ EndDecode(r)
    /\ Goto(r, "claim") /\ Set(r, "post", TRUE)
    /\ UNCHANGED <<gateVars, slots, dirVars>>
FinishStreamsOnly(r) ==
    /\ At(r, "running")
    /\ EndDecode(r)
    /\ IF turn[r].steer = None \/ ~turn[r].stream
       THEN Retire(r, "done")
       ELSE Goto(r, "claim") /\ Set(r, "post", TRUE)
    /\ UNCHANGED <<gateVars, slots, dirVars>>
Finish(r) ==
    /\ At(r, "running")
    /\ EndDecode(r)
    /\ IF turn[r].steer = None
       THEN Retire(r, "done")
       ELSE Goto(r, "claim") /\ Set(r, "post", TRUE)
    /\ UNCHANGED <<gateVars, slots, dirVars>>

ClaimSlot(r) ==
    /\ At(r, "claim")
    /\ Claim(turn[r].steer, turn[r].session)
    /\ Goto(r, "gate")
    /\ Set(r, "name", turn[r].session)
    /\ UNCHANGED <<gateVars, serverVars, dirVars>>

(***************************************************************************)
(* enforce_limit, on the blocking pool and outside the gate: read the      *)
(* directory, plan, delete what was planned.  Files have unit length.  The *)
(* planner stops as soon as the rest fits, and the grace period may spare  *)
(* any file; a scratch file being written or published is within it.       *)
(***************************************************************************)
InFlight(s) == \E q \in Reqs : /\ turn[q].name = s
                               /\ pc[q] \in {"write", "publish"} \cup Detached

Scan(r) ==
    LET evictable == {f \in Present : ~(f[1] = "scratch" /\ InFlight(f[2]))} IN
    /\ At(r, "scan")
    /\ \E plan \in SUBSET evictable :
           /\ plan = {} \/ Cardinality(Present \ plan) >= Capacity
           /\ turn' = [turn EXCEPT ![r] = [Fresh(@.session) EXCEPT
                                               !.post = TRUE, !.doomed = plan]]
    /\ Goto(r, "unlink")
    /\ UNCHANGED <<gateVars, slots, serverVars, dirVars>>

Unlink(r) ==
    /\ At(r, "unlink")
    /\ Remove(turn[r].doomed)
    /\ Retire(r, "done")
    /\ UNCHANGED <<gateVars, slots, serverVars>>

(***************************************************************************)
(* Clients that go away.                                                   *)
(***************************************************************************)

\* The pump's send fails: the slot is forgotten first, the backend stream
\* is dropped when the pump's task ends.
Hangup(r) ==
    /\ At(r, "running") /\ turn[r].stream /\ "stream" \in Leaves
    /\ IF turn[r].steer = None THEN UNCHANGED slots
                               ELSE Abandon(turn[r].steer)
    /\ Retire(r, "drop")
    /\ UNCHANGED <<gateVars, serverVars, dirVars>>

\* Before the response (a streamed one begins at some time while the turn
\* is running) the server drops the handler's future at whatever await it
\* is: guards are released, nothing else of it runs.  A rename already
\* handed to the blocking pool and a write the backend has begun go on
\* without it; a task it has only queued is cancelled.
InHandler(r) == Attended(r) /\ ~turn[r].post

AfterDrop(l) == CASE l = "running" -> "drop"
                  [] l = "write"   -> "lostWrite"
                  [] l = "publish" -> "lostPublish"
                  [] OTHER         -> "gone"

HandlerDrop(r) ==
    /\ InHandler(r) /\ "handler" \in Leaves
    /\ DropGuards(r)
    /\ IF pc[r] \in {"write", "publish"}
       THEN Goto(r, AfterDrop(pc[r])) /\ UNCHANGED turn
       ELSE Retire(r, AfterDrop(pc[r]))
    /\ UNCHANGED <<slots, serverVars, dirVars>>

\* llama-server cancels the generation whose connection closed.
Cancel(r) ==
    /\ At(r, "drop")
    /\ EndDecode(r)
    /\ Goto(r, "gone")
    /\ UNCHANGED <<gateVars, slots, dirVars, turn>>

LostWrite(r) ==
    /\ At(r, "lostWrite")
    /\ CloseScratch(turn[r].name, kv[turn[r].steer])
    /\ Retire(r, IF turn[r].post THEN "lost" ELSE "gone")
    /\ UNCHANGED <<gateVars, slots, serverVars>>

LostPublish(r) ==
    /\ At(r, "lostPublish")
    /\ \/ RenameScratch(turn[r].name)
       \/ ~CanRename(turn[r].name) /\ UNCHANGED dirVars
    /\ Retire(r, "gone")
    /\ UNCHANGED <<gateVars, slots, serverVars>>

(***************************************************************************)
(* Crashes.                                                                *)
(***************************************************************************)

\* The proxy dies and serve() runs anew: an empty registry, a free gate,
\* no turn.  The backend and the directory stay as they are.
AfterProxyCrash(r) ==
    CASE pc[r] \in {"new", "drop", "lostWrite"} \cup Terminal -> pc[r]
      [] pc[r] = "running" -> "drop"
      [] pc[r] = "write"   -> "lostWrite"
      [] OTHER -> IF turn[r].post THEN "lost" ELSE "gone"

ProxyCrash ==
    /\ "proxy" \in Crashes
    /\ readers' = {} /\ writers' = {}
    /\ slots' = [i \in SlotIds |-> Unclaimed]
    /\ pc' = [r \in Reqs |-> AfterProxyCrash(r)]
    /\ turn' = [r \in Reqs |-> IF pc[r] \in {"write", "lostWrite"}
                               THEN turn[r] ELSE Fresh(turn[r].session)]
    /\ UNCHANGED <<serverVars, dirVars>>

\* llama-server dies and comes back empty: the calls that wait for it fail.
AfterBackendCrashSaved(l) == CASE l \in {"save", "write"}     -> "publish"
                               [] l \in {"queued", "running"} -> "failed"
                               [] l \in {"drop", "lostWrite"} -> "gone"
                               [] OTHER                       -> l
AfterBackendCrash(l) == CASE l \in {"save", "write"}       -> "unsaved"
                          [] l \in {"queued", "running"}   -> "failed"
                          [] l \in {"drop", "lostWrite"}   -> "gone"
                          [] OTHER                         -> l

BackendCrash ==
    /\ "backend" \in Crashes
    /\ ServerRestart
    /\ pc' = [r \in Reqs |-> AfterBackendCrash(pc[r])]
    /\ turn' = [r \in Reqs |->
                   IF pc[r] \in {"queued", "running", "drop", "lostWrite"}
                   THEN Fresh(turn[r].session) ELSE turn[r]]
    /\ UNCHANGED <<gateVars, slots, dirVars>>

(***************************************************************************)
(* The specification.                                                      *)
(***************************************************************************)
Admission(r) ==
    \/ MatchHot(r) \/ MatchCold(r) \/ PickQuery(r) \/ PickError(r) \/ Choose(r)
    \/ EvictQuery(r) \/ EvictError(r) \/ Victim(r) \/ Restore(r) \/ Mark(r)

SaveSlot(r) ==
    \/ GateExclusive(r) \/ SaveStart(r) \/ SaveEnd(r) \/ SaveError(r)
    \/ Publish(r) \/ PublishError(r) \/ Published(r) \/ NotPublished(r)

Service(r) ==
    \/ Decode(r) \/ ChatError(r) \/ RunError(r) \/ Finish(r) \/ ClaimSlot(r)
    \/ Scan(r) \/ Unlink(r)

Leftover(r) == Cancel(r) \/ LostWrite(r) \/ LostPublish(r)

\* What goes on by itself once a turn has arrived.
Progress(r) == Admission(r) \/ SaveSlot(r) \/ Service(r) \/ Leftover(r)

Environment(r) == Arrive(r) \/ Bypass(r) \/ Hangup(r) \/ HandlerDrop(r)

\* Every turn has been served: the proxy waits for more.
Quiet == (\A r \in Reqs : pc[r] \in Terminal) /\ UNCHANGED vars

Next ==
    \/ \E r \in Reqs : Progress(r) \/ Environment(r)
    \/ ProxyCrash \/ BackendCrash \/ Quiet

Spec == Init /\ [][Next]_vars

\* Tasks are polled, the gate's queue and the backend's are first-in
\* first-out, and every call to the backend ends (Client::timeout): a turn
\* that can go on does.  Nothing is assumed of clients or of crashes.
Fairness == \A r \in Reqs : WF_vars(Progress(r))
FairSpec == Spec /\ Fairness

-----------------------------------------------------------------------------
(***************************************************************************)
(* What holds of any traffic.                                              *)
(***************************************************************************)

\* The locals a step is going to use have been set: a slot wherever one is
\* saved, restored or marked, and a name wherever a blob is written.
Steered == {"restore", "mark", "claim", "gate", "lostWrite"} \cup Saving
Named   == {"gate", "lostWrite", "lostPublish"} \cup Saving

\* Where a request that was passed through, with no session, can be.
Sessionless == {"new", "queued", "running", "drop"} \cup Terminal

LocalsOK ==
    \A r \in Reqs :
        /\ turn[r].session = None => pc[r] \in Sessionless /\ turn[r].steer = None
        /\ pc[r] \in Steered => turn[r].steer \in SlotIds
        /\ pc[r] \in Named => turn[r].name \in Sessions

TurnsOK ==
    /\ pc \in [Reqs -> PCs]
    /\ turn \in [Reqs -> Turn]
    /\ LocalsOK

\* Every variable has its type; no task uses a slot, a name or a session it
\* lacks.
TypeOK ==
    GateTypeOK /\ RegistryTypeOK /\ ServerTypeOK /\ DirTypeOK /\ TurnsOK

\* R1 (lib.rs, App.write_gate): the guard is held exactly over save_slot's
\* body and over the lookup, whatever fails, leaves or crashes in between,
\* and no lookup runs while a save does.
GateExclusion ==
    /\ writers = {r \in Reqs : pc[r] \in Saving}
    /\ readers = {r \in Reqs : pc[r] \in Matching}
    /\ \A q, r \in writers : q = r
    /\ writers = {} \/ readers = {}

\* A dirty slot always names the session whose state it holds back, so
\* evict_to_disk never takes its "nothing to publish" branch (R3).
DirtyIsOwned == \A i \in SlotIds : slots[i].dirty => slots[i].session # None

\* R2: what can be found under a blob's name is complete, even after the
\* proxy or the backend died mid-save.
WholeBlobs == \A s \in Sessions : blob[s] # Torn

\* R1: while a lookup holds the gate no blob appears or changes; it may
\* only be evicted by enforce_limit, which takes no gate.
SettledForest ==
    [][ \A s \in Sessions :
            blob'[s] \notin {blob[s], None} => readers = {} ]_vars

\* R1 and R2 together: seen through its published blobs, the cache directory
\* is the store of complete states that Forest describes.
ForestView == INSTANCE Forest WITH
    Lookers <- Reqs, Keys <- Sessions, States <- Contents, Absent <- None,
    store <- blob, looking <- readers
ImplementsForest == ForestView!Spec

\* Without faults nothing is left unpublished once every turn has been
\* served: however saves, evictions and steals interleave, the last turn
\* steered to a slot is followed by a save of that slot.
QuietIsClean ==
    (\A r \in Reqs : pc[r] \in Terminal) => \A i \in SlotIds : ~slots[i].dirty

\* The guards of what a turn does by itself: the gate is free, the slot it
\* needs is idle and the backend is not writing, its decode is under way.
Unguarded == {"pick", "choose", "evict", "victim", "mark", "write", "publish",
              "clean", "unsaved", "claim", "scan", "unlink"} \cup (Detached \ {"drop"})
WouldDo(r) == IF turn[r].steer = None THEN SlotIds ELSE {turn[r].steer}
CanGo(r) ==
    \/ pc[r] \in Unguarded
    \/ At(r, "match") /\ CanShare
    \/ At(r, "gate") /\ writers = {} /\ readers = {}
    \/ pc[r] \in {"save", "restore"} /\ Idle(turn[r].steer) /\ ServerFree
    \/ At(r, "queued") /\ (\E i \in WouldDo(r) : Idle(i)) /\ ServerFree
    \/ pc[r] \in {"running", "drop"} /\ \E i \in SlotIds : processing[i] = r

\* Turn r needs what q has: the gate, a slot, the backend.
WaitsFor(r, q) ==
    \/ At(r, "match") /\ q \in writers
    \/ At(r, "gate") /\ q \in writers \cup readers
    \/ pc[r] \in {"save", "restore"} /\ processing[turn[r].steer] = q
    \/ At(r, "queued") /\ \E i \in WouldDo(r) : processing[i] = q
    \/ pc[r] \in {"save", "restore", "queued"} /\ pc[q] \in {"write", "lostWrite"}

\* Nobody waits in a circle, for the gate, a slot and the backend, whatever
\* failed, left or crashed: who cannot go on waits for a turn that can, or
\* for the gate's holder, who waits for one that can.
NobodyStuck ==
    \A r \in Reqs : pc[r] \notin {"new"} \cup Terminal =>
        \/ CanGo(r)
        \/ \E q \in Reqs : /\ WaitsFor(r, q)
                           /\ \/ CanGo(q)
                              \/ \E p \in Reqs : WaitsFor(q, p) /\ CanGo(p)

(***************************************************************************)
(* What holds when a turn arrives only after the one before is saved.      *)
(***************************************************************************)

\* Conversations stay apart: a session's blob is KV of its own turns.
BlobOwner ==
    \A s \in Sessions : blob[s] \in Reqs => turn[blob[s]].session = s

\* R3: a dirty slot is never given to another session.
NeverStealDirty ==
    [][ \A i \in SlotIds :
            slots[i].dirty =>
                slots'[i].session \in {slots[i].session, None} ]_vars

\* "Never restored-over": whatever failed before, KV that is not on disk yet
\* is overwritten by its own session only.  A turn forwarded without a slot,
\* because a save failed, is not steered: the backend may put it anywhere.
NeverOverwriteDirty ==
    [][ \A i \in SlotIds :
            slots[i].dirty /\ kv'[i] \notin {kv[i], Empty}
            => \/ turn[kv'[i]].session = slots[i].session
               \/ \E r \in Reqs : /\ At(r, "queued") /\ pc'[r] = "running"
                                  /\ turn[r].steer = None ]_vars

\* A slot is dirty "until the post-turn save publishes": one that keeps its claim
\* becomes clean only when its session's blob is what the slot holds.
CleanIsPublished ==
    [][ \A i \in SlotIds :
            /\ slots[i].dirty /\ ~slots'[i].dirty
            /\ slots'[i].session # None
            => blob[slots[i].session] = kv[i] ]_vars

\* Between turns every claim is true, so that steering a session straight
\* back to its slot needs no restore: the slot holds a turn of the session.
HotIsTrue ==
    (\A r \in Reqs : ~Attended(r)) =>
        \A i \in SlotIds :
            slots[i].session # None
            => kv[i] \in Reqs /\ turn[kv[i]].session = slots[i].session

\* A session with a blob does not start cold: the slot it is steered to
\* holds KV of its own, still there or restored from that blob.
WarmStart ==
    [][ \A r \in Reqs :
            /\ At(r, "mark") /\ pc'[r] = "queued"
            /\ Exists(turn[r].session)
            => /\ kv[turn[r].steer] \in Reqs
               /\ turn[kv[turn[r].steer]].session = turn[r].session ]_vars

\* "abandoned turn must not be saved (rejected text is not persisted)": no
\* blob holds a turn whose client did not stay for the answer.
AbandonedNotPublished ==
    \A s \in Sessions : blob[s] \in Reqs => pc[blob[s]] \notin {"drop", "gone"}

\* "A long generation never blocks the world": nobody who holds the gate
\* exclusively waits for a slot that is decoding.
DecodeOutsideGate ==
    \A r \in Reqs : At(r, "save") => Idle(turn[r].steer)

(***************************************************************************)
(* What must happen.                                                       *)
(***************************************************************************)

\* Every turn that arrives is over at some time, whatever fails.
EveryTurnEnds == \A r \in Reqs : At(r, "match") ~> pc[r] \in Terminal

\* A turn that was steered reaches the disk, its client or the proxy dying
\* first apart: its KV, and no other, becomes its session's blob.
FinishedTurnPersists ==
    \A r \in Reqs : \A s \in Sessions :
        (/\ At(r, "running") /\ turn[r].steer # None
         /\ turn[r].session = s)
        ~> (blob[s] = r \/ pc[r] \in {"drop", "gone", "lost"})
=============================================================================
