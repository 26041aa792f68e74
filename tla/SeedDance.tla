------------------------------ MODULE SeedDance ------------------------------
(***************************************************************************)
(* Seed-on-first-sight (src/seed.rs): SeedDance::prepare, run for each     *)
(* request before it is forwarded, by any number of requests at once.  The *)
(* dance is not wired into the request path yet: its caller is modelled by *)
(* what prepare takes, a slot and a request, and holds no gate.            *)
(*                                                                         *)
(* ProxyTypes' Sessions are here the families (system_hash keys), whose    *)
(* blob is sys-<key>__seed.bin; KV is named by the request that last       *)
(* prefilled the slot.                                                     *)
(***************************************************************************)
EXTENDS LlamaServer, CacheDir

CONSTANTS
    SharedSlots, \* may the caller hand a slot to two prepares at once?
    SeedFaults   \* what may fail: a call, or a prefill that is answered but
                 \* lands nothing, on an empty slot or on a used one

ASSUME SharedSlotsAssumption == SharedSlots \in BOOLEAN
ASSUME SeedFaultsAssumption  ==
    SeedFaults \subseteq {"slots", "restore", "prefill", "save", "publish",
                          "lostFresh", "lostUsed"}

VARIABLES
    bag,    \* SeedDance.bag: each family's BagState, or "absent"
    at,     \* where each request's prepare is
    call    \* each request's family and slot

seedVars == <<serverVars, dirVars, bag, at, call>>

BagStates == {"absent", "uncached", "cached", "failed"}

Results == {"restored", "coldPrefill", "seeded", "failedSeed", "skipped"}
Steps == {"new", "slotGate", "sight", "restore", "enter", "prefill",
          "prefilling", "confirm", "save", "write", "publish", "markCached",
          "markFailed", "serving", "served"} \cup Results

SeedInit ==
    /\ ServerInit /\ DirInit
    /\ bag = [k \in Sessions |-> "absent"]
    /\ at = [r \in Reqs |-> "new"]
    /\ call = [r \in Reqs |-> [key |-> None, slot |-> None]]

Step(r, from, to) == at[r] = from /\ at' = [at EXCEPT ![r] = to]
Slot(r) == call[r].slot
Key(r)  == call[r].key

\* The backend's loop writes one slot at a time and starts nothing else.
LoopFree == \A q \in Reqs : at[q] # "write"

\* Slots some request is being prepared on; one that is being served may be
\* handed to the next request already.
InUse(i) == \E q \in Reqs : Slot(q) = i /\ at[q] \notin {"serving", "served"}

\* No system message, no family: nothing to seed.
Call(r) ==
    /\ \E k \in Sessions \cup {None}, i \in SlotIds :
           /\ SharedSlots \/ ~InUse(i)
           /\ call' = [call EXCEPT ![r] = [key |-> k, slot |-> i]]
           /\ Step(r, "new", IF k = None THEN "skipped" ELSE "slotGate")
    /\ UNCHANGED <<serverVars, dirVars, bag>>

\* R3: nothing is issued onto a slot that is processing, that the backend
\* does not list, or about which it does not answer.
SlotGateIgnoringBusy(r) ==
    /\ Step(r, "slotGate", "sight")
    /\ UNCHANGED <<serverVars, dirVars, bag, call>>
SlotGate(r) ==
    /\ \/ Step(r, "slotGate", "sight") /\ Idle(Slot(r))
       \/ /\ Step(r, "slotGate", "skipped")
          /\ ~Idle(Slot(r)) \/ "slots" \in SeedFaults
    /\ UNCHANGED <<serverVars, dirVars, bag, call>>

\* Second sight: the bag says cached.  Anything else dances.
Sight(r) ==
    /\ Step(r, "sight", IF bag[Key(r)] = "cached" THEN "restore" ELSE "enter")
    /\ UNCHANGED <<serverVars, dirVars, bag, call>>

\* The blob may have been evicted, or not load: cold prefill.  A failed load
\* may have reset the slot.
RestoreSeedUnchecked(r) ==
    /\ Step(r, "restore", "restored") /\ Idle(Slot(r)) /\ LoopFree
    /\ LoadSlot(Slot(r), blob[Key(r)])
    /\ UNCHANGED <<dirVars, bag, call>>
RestoreSeed(r) ==
    /\ at[r] = "restore" /\ Idle(Slot(r)) /\ LoopFree
    /\ \/ /\ Loadable(Key(r)) /\ LoadSlot(Slot(r), blob[Key(r)])
          /\ Step(r, "restore", "restored")
       \/ /\ ~Loadable(Key(r)) \/ "restore" \in SeedFaults
          /\ UNCHANGED serverVars \/ LoadSlot(Slot(r), Empty)
          /\ Step(r, "restore", "coldPrefill")
    /\ UNCHANGED <<dirVars, bag, call>>

\* First sight inserts the family, a retry resets failed; an entry another
\* request has put there meanwhile stays as it is.
Enter(r) ==
    /\ Step(r, "enter", "prefill")
    /\ bag' = [bag EXCEPT ![Key(r)] =
                  IF @ \in {"absent", "failed"} THEN "uncached" ELSE @]
    /\ UNCHANGED <<serverVars, dirVars, call>>

\* 1. prefill only.
PrefillStart(r) ==
    /\ Step(r, "prefill", "prefilling")
    /\ LoopFree
    /\ StartDecode(Slot(r), r)
    /\ UNCHANGED <<dirVars, bag, call>>

PrefillEnd(r) ==
    /\ Step(r, "prefilling", "confirm")
    /\ EndDecode(r)
    /\ UNCHANGED <<dirVars, bag, call>>

\* The backend answers, but the prompt did not land: the slot keeps the
\* position and the KV it had.
PrefillLost(r) ==
    /\ Step(r, "prefill", "confirm")
    /\ (IF kv[Slot(r)] = Empty THEN "lostFresh" ELSE "lostUsed") \in SeedFaults
    /\ Idle(Slot(r))
    /\ UNCHANGED <<serverVars, dirVars, bag, call>>

PrefillErrorIgnored(r) ==
    /\ Step(r, "prefill", "confirm")
    /\ "prefill" \in SeedFaults
    /\ UNCHANGED <<serverVars, dirVars, bag, call>>
PrefillErrorRetried(r) ==
    /\ Step(r, "prefill", "slotGate")
    /\ "prefill" \in SeedFaults
    /\ UNCHANGED <<serverVars, dirVars, bag, call>>
PrefillError(r) ==
    /\ "prefill" \in SeedFaults
    /\ \/ Step(r, "prefill", "markFailed") /\ UNCHANGED serverVars
       \/ Step(r, "prefilling", "markFailed") /\ EndDecode(r)
    /\ UNCHANGED <<dirVars, bag, call>>

\* 2. confirm: idle, and at a position beyond 0.
ConfirmIdleOnly(r) ==
    /\ at[r] = "confirm"
    /\ IF Idle(Slot(r)) THEN Step(r, "confirm", "save")
                        ELSE Step(r, "confirm", "markFailed")
    /\ UNCHANGED <<serverVars, dirVars, bag, call>>
Confirm(r) ==
    /\ at[r] = "confirm"
    /\ IF Idle(Slot(r)) /\ kv[Slot(r)] # Empty
       THEN Step(r, "confirm", "save")
       ELSE Step(r, "confirm", "markFailed")
    /\ UNCHANGED <<serverVars, dirVars, bag, call>>

ConfirmError(r) ==
    /\ Step(r, "confirm", "markFailed")
    /\ "slots" \in SeedFaults
    /\ UNCHANGED <<serverVars, dirVars, bag, call>>

\* 3. save to scratch, then publish.
SaveSeedStart(r) ==
    /\ Step(r, "save", "write")
    /\ Idle(Slot(r)) /\ LoopFree
    /\ OpenScratch(Key(r))
    /\ UNCHANGED <<serverVars, bag, call>>

SaveSeedEnd(r) ==
    /\ Step(r, "write", "publish")
    /\ CloseScratch(Key(r), kv[Slot(r)])
    /\ UNCHANGED <<serverVars, bag, call>>

SaveSeedError(r) ==
    /\ Step(r, "save", "markFailed") \/ Step(r, "write", "markFailed")
    /\ "save" \in SeedFaults
    /\ UNCHANGED <<serverVars, dirVars, bag, call>>

PublishSeed(r) ==
    /\ Step(r, "publish", "markCached")
    /\ RenameScratch(Key(r))
    /\ UNCHANGED <<serverVars, bag, call>>

PublishSeedErrorUnmarked(r) ==
    /\ Step(r, "publish", "failedSeed")
    /\ "publish" \in SeedFaults \/ ~CanRename(Key(r))
    /\ UNCHANGED <<serverVars, dirVars, bag, call>>
PublishSeedError(r) ==
    /\ Step(r, "publish", "markFailed")
    /\ "publish" \in SeedFaults \/ ~CanRename(Key(r))
    /\ UNCHANGED <<serverVars, dirVars, bag, call>>

MarkCached(r) ==
    /\ Step(r, "markCached", "seeded")
    /\ bag' = [bag EXCEPT ![Key(r)] = "cached"]
    /\ UNCHANGED <<serverVars, dirVars, call>>

\* Whatever another dance of the family made of it meanwhile.
MarkFailed(r) ==
    /\ Step(r, "markFailed", "failedSeed")
    /\ bag' = [bag EXCEPT ![Key(r)] = "failed"]
    /\ UNCHANGED <<serverVars, dirVars, call>>

\* Whatever prepare returned, the full request is served on its slot.
Serve(r) ==
    /\ \E result \in Results : Step(r, result, "serving")
    /\ LoopFree /\ StartDecode(Slot(r), r)
    /\ UNCHANGED <<dirVars, bag, call>>

Served(r) ==
    /\ Step(r, "serving", "served")
    /\ EndDecode(r)
    /\ UNCHANGED <<dirVars, bag, call>>

\* enforce_limit takes a seed like any other blob.
EvictSeed(k) ==
    /\ Exists(k)
    /\ Remove({<<"blob", k>>})
    /\ UNCHANGED <<serverVars, bag, at, call>>

Dance(r) ==
    \/ SlotGate(r) \/ Sight(r) \/ RestoreSeed(r) \/ Enter(r)
    \/ PrefillStart(r) \/ PrefillEnd(r) \/ PrefillLost(r) \/ PrefillError(r)
    \/ Confirm(r) \/ ConfirmError(r)
    \/ SaveSeedStart(r) \/ SaveSeedEnd(r) \/ SaveSeedError(r)
    \/ PublishSeed(r) \/ PublishSeedError(r) \/ MarkCached(r) \/ MarkFailed(r)
    \/ Serve(r) \/ Served(r)

AllServed == (\A r \in Reqs : at[r] = "served") /\ UNCHANGED seedVars

SeedNext ==
    \/ \E r \in Reqs : Call(r) \/ Dance(r)
    \/ \E k \in Sessions : EvictSeed(k)
    \/ AllServed

\* Calls to the backend end and tasks are polled.
SeedSpec == /\ SeedInit /\ [][SeedNext]_seedVars
            /\ \A r \in Reqs : WF_seedVars(Dance(r))
-----------------------------------------------------------------------------
SeedTypeOK ==
    /\ ServerTypeOK /\ DirTypeOK
    /\ bag \in [Sessions -> BagStates]
    /\ at \in [Reqs -> Steps]
    /\ call \in [Reqs -> [key  : Sessions \cup {None},
                          slot : SlotIds \cup {None}]]

\* A family's seed is KV of that family, through any number of dances,
\* failures and evictions, as long as each has its slot to itself and no
\* prefill is lost on a used slot.
SeedOwner == \A k \in Sessions : blob[k] \in Reqs => Key(blob[k]) = k

\* "A restore is never issued onto a processing slot", nor a save.
NothingOnProcessing ==
    \A r \in Reqs : at[r] \in {"restore", "save"} => Idle(Slot(r))

\* "Never saves an unconfirmed position": from the confirmation, and through
\* the await between it and the save, the slot holds what this very dance
\* prefilled.
ConfirmedIsSaved ==
    \A r \in Reqs : at[r] \in {"save", "write"} => kv[Slot(r)] = r

\* No dance leaves its family undecided: when all are over the next sight of
\* a family knows that it was seeded or that seeding failed.
EveryFamilyDecided ==
    (\A r \in Reqs : at[r] = "served") =>
        \A k \in Sessions : bag[k] # "uncached"

\* "The request is always served normally regardless."
EveryCallServed == \A r \in Reqs : at[r] = "slotGate" ~> at[r] = "served"
=============================================================================
