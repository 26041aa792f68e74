# A TLA+ model of oLLM

oLLM is a proxy in front of `llama-server` that keeps the KV cache of chat
sessions on disk: it steers each turn to a slot, restores the session's blob
into it, publishes the slot's KV when the turn is over, and evicts files when
the cache directory outgrows its limit. What makes it hard is not any single
step but their interleaving: many turns run the same handler, `await` the
backend between deciding and acting, and share one slot table, one write gate,
one backend and one directory, while clients leave, calls fail and processes
die.

This directory holds the model of that logic, the TLC configurations that check
it on small instances, and proofs that hold for any instance. Line numbers
refer to the repository (`src/lib.rs` is short for the crate's `lib.rs`).

- [1 Inventory](#1-inventory)
- [2 Modules](#2-modules)
- [3 From code to model](#3-from-code-to-model)
- [4 Runs and bounds](#4-runs-and-bounds)
- [5 Fairness](#5-fairness)
- [6 Proofs](#6-proofs)
- [7 Where code and documentation part](#7-where-code-and-documentation-part)
- [8 What is not modelled](#8-what-is-not-modelled)
- [9 Plan](#9-plan)

## 1 Inventory

| component | state | operations | hard because |
|---|---|---|---|
| Request path, `chat_completions` (lib.rs:461-636) | a handler's locals (session, `disk_hit`, `steer`), the pump task's | lookup, admission, forward, pump, post-turn save | decisions are used after further awaits; the handler's future may be dropped at any of them; every call may fail |
| Slot registry, `App.slots` (144-160, 182-258) | owner and dirty flag of each slot | `pick_slot`, `find_evictable`, `mark_dirty`, `mark_clean`, claim, abandon | short critical sections, long decisions: an entry changes between reading and acting |
| Write gate, `App.write_gate` (161-171) | readers, writer | shared by lookup, exclusive in `save_slot` | its guards live in futures and die with them; it is held over the backend's save |
| Publish, `save_slot`, `rename_sidecar`, `FsPublisher`, `restore_slot` (331-422, seed.rs:71-95) | blob, ledger (`.ckpt`) and the `.save` scratch files of each session; what of it is on the disk | save, fsync, two renames, directory fsync, restore | the rename runs on the blocking pool, beyond the guard's life; a crash or power loss between any two calls; the quota unlinks meanwhile |
| Backend, `LlamaBackend` (backend.rs) over llama-server | each slot's KV and whether it decodes | `slots`, `chat`, `save_slot`, `restore_slot`, `prefill_only` | defers what it cannot do yet, cancels what nobody waits for, may restart empty |
| Disk quota, `enforce_limit`, `plan_evictions` (281-329, 980-1075) | the directory as it was read, the plan | scan, two passes, unlink | unsigned arithmetic, pairs of files, no gate: the directory changes under it |
| Seed dance, `SeedDance::prepare` (seed.rs) | bag: each system prompt's `BagState` | slot gate, second-sight restore, prefill, confirm, save, publish | any number of dances at once, no gate; not yet called from the request path |
| Session identity, `session_key`, `sanitize` (92-140) | the name being made | read the header, map, collapse, cut; or hash the system prompt | the name is all that says whose file it is; distinct conversations may share one |
| Signature and start-up, `serve`, `blob_name` (260-269, 715-778) | the backend signature | reads `/props`, builds an empty `App` | the signature is read once; the registry forgets, the backend and the disk do not |
| Passthrough (638-660) | none of the proxy's, a slot of the backend's | forwards verbatim | it decodes behind the registry's back |
| `/health`, configuration, `main`, `FakeBackend`, scripts | none | - | - |

The components meet in the handler. `Proxy` composes registry, gate, backend
and directory; it talks to the quota only through the files that disappear, and
therefore holds an abstraction of `enforce_limit` (any plan it may make) while
`Quota` has the planner itself. `SeedDance` uses the same backend and directory.

What makes each correct:

- **gate**: a guard is held exactly over the critical section whatever fails,
  leaves or crashes; lookup and publish exclude each other; nobody waits for a
  generation under it.
- **registry**: a dirty slot has an owner and is never given to another
  session; a slot becomes clean only when its KV is the owner's blob; between
  turns its claims are true.
- **publish**: what is visible is complete, also after the power failed, and it
  is a state of its own session that a client stayed for; what was acknowledged
  is not lost; a ledger never promises more than its blob has; nothing is left
  unpublished at the end.
- **names**: safe file names; every turn of a conversation finds its file, after
  any restart, and none of a conversation its client has told apart, or of
  another backend.
- **turns**: every one ends; a finished one reaches the disk; a session with a
  blob does not start cold.
- **quota**: plans are exact, LRU, keep pairs together, honour the grace period,
  stop at the limit, and one enforcement is enough to reach it.
- **seed dance**: a seed is its family's, is confirmed before it is saved, is
  not issued onto a busy slot; every request is served.

The hazards behind these, each at its line, are listed in `PROJECT.json`.

## 2 Modules

    ProxyTypes                    constants, and what a slot or a file holds
      |- WriteGate                App.write_gate
      |- SlotRegistry             App.slots
      |- LlamaServer              the backend (external)
      |- CacheDir                 blobs and scratch files
           \- Proxy               the request path, composing the four
                |- MCProxy        instances for TLC
                |- Forest         abstract store (INSTANCEd by Proxy)
                \- ProxyTypeProofs -> ProxyProofs -> SettledProofs
                                     -> CalmProofs      theorems
    Quota                         the disk quota
      |- MCQuota
      \- QuotaProofs              theorems
    LlamaServer, CacheDir
      \- SeedDance                the seed dance
           |- MCSeedDance
           \- SeedProofs          theorems
    Publish                       one session's files, call by call
      |- Register                 what that promises (INSTANCEd by Publish)
      \- PublishProofs            theorems
    Naming                        session keys, signatures, blob names
      |- MCNaming
      \- NamingProofs             theorems

`Forest` is what rules R1 and R2 promise, with no word of gates, scratch files
or tasks: a map from sessions to complete states; nothing is put into it while a
lookup goes on; entries may vanish at any time. `Proxy` implements it under the
mapping *store = published blobs, looking = holders of the shared guard*
(`ImplementsForest`), checked in run `faults` and proved (section 6).

In `Proxy` a publish is one step. `Publish` is that step taken apart, for one
session: `Register` is what remains of it for a reader, a value that is complete
or absent and a set of values that a power loss may bring back, which `Sync`
shrinks to the current one. `Publish` implements it (`ImplementsRegister`).

An operator that stands just before another one, with its name and a suffix
(`DecodeAnywhere`, `NotPublishedKeepingGate`, `SlotGateIgnoringBusy`), is that
definition with a plausible bug. No specification mentions it: each shows that
some property fails when the code has the bug (`GateExclusiveGuardDropped`, for
one, is `let _ = write_gate.write().await`).

## 3 From code to model

**Data.** A request is one chat turn of one session. KV is named after the turn
that produced it ("the prefix as it stood at the end of turn r"), so "whose
conversation is this" is the session of that turn. `Empty` is KV of nobody,
`Torn` a file that has been opened for writing and not closed.

**Steps.** A turn's `pc` names the await it stands at; one action is the code
from one await to the next that lets another task in. Locking `App.slots` is
not a step of its own: the mutex is never held over a backend call.

| pc | action | code |
|---|---|---|
| new | `Arrive` | body parsed, session key (461-468) |
| match | `MatchHot`, `MatchCold` | gate shared, `exists`, own slot? (474-477, 187-195) |
| pick, choose | `PickQuery`, `PickError`, `Choose` | `GET /slots`; first slot neither processing nor dirty (196-211) |
| evict, victim | `EvictQuery`, `EvictError`, `Victim` | `find_evictable` (215-234), `evict_to_disk` (236-243) |
| gate .. clean, unsaved | `GateExclusive`, `SaveStart/End/Error`, `Publish(Error)`, `Published`, `NotPublished` | `save_slot` (334-382), one body for victim and finished turn |
| restore, mark | `Restore`, `Mark` | `restore_slot`, `mark_dirty` (484-487, 500-503) |
| new | `Bypass` | `passthrough` (638-660), for requests that decode |
| queued, running | `Decode`, `ChatError`, `RunError`, `Finish` | `chat`, error answers, pump, `collect_body` (514-592, 620) |
| claim | `ClaimSlot` | `s.session = own` (593-599, 625-630) |
| scan, unlink | `Scan`, `Unlink` | `enforce_limit` (281-329) |

**Clients.** `Leaves` says where one that goes away is noticed: `"stream"` is
the pump's failing `send` (566-575, 603-613), `"handler"` is the server dropping
the handler's future at any await before the response (the guards go with it;
a rename on the blocking pool and a write the backend has begun go on:
`LostPublish`, `LostWrite`). `Traffic` says how turns follow one another:
*settled*, when the one before is answered and saved; *sequential*, when it is
answered; *concurrent*, at any time. It is an assumption on clients, not on the
proxy, and several of the proxy's promises hold only of settled traffic.

**Faults.** `Faults` names the calls that may fail. A restore that fails may
leave the slot as it was or reset. `Crashes` lets the proxy die (an empty
registry, a free gate, no turns; backend and disk stay) or the backend (its
slots are empty; calls that wait for it fail).

**Backend (external).** A task for a processing slot is deferred; a task still
queued when its caller is gone is cancelled; the server's loop writes one slot
at a time and starts nothing else meanwhile; a turn without `id_slot` gets any
idle slot; a generation whose connection closes is cancelled some time later.

**Passthrough.** With `Bypassing`, a request may skip all of admission: it has
no session and no slot, takes any idle one and leaves its KV there.

**Abstractions.** The gate is not first-in first-out: any waiter that may enter
can, a superset of tokio's orders. A `HashMap` entry that is absent reads the
same as `{None, false}`. `SlotInfo.busy` is never read. In `Proxy` a sidecar
travels with its file, files have length one and the grace period may spare any
of them; `Quota` has lengths, ages and sidecars. The mtime bump of `touch` is
`Write` of `Quota`.

**Publish.** Each save of the session has its own `pc`; `gate` is the one whose
handler holds the write guard. `HandlerDrop` is the server dropping that handler
inside `save_slot` (499): the gate is free, but the backend's write and the
closure of `spawn_blocking` (352-363) go on, so that the next save may open the
same scratch files under them. The backend's single loop never writes two at
once; closures overlap freely. `overlapped` collects the saves that began over
such a closure. `dir` maps each of the four names to the number of the save whose
data is there. `OpenScratch`, `CloseScratch`, `WriteLedger` are the backend's
(337, external), `Fsync` (353-354), `Rename` (355), `RideAlong`
(`rename_sidecar`, 414-422) and `SyncDir` (357-361) are oLLM's; `SaveFails` and
`PublishFails` are the two ways to return false. `Unlink` is the quota's, at any
time. `ProxyCrash` keeps what the backend has begun going; `PowerLoss` puts any
directory of `onDisk` back, and any KV not fsynced may be torn. Assumed of the
file system: directory operations reach the disk in order, and its fsync waits
for all of them.

**Naming.** A header is a sequence of characters and goes through `sanitize` as
the code does it: `MapChars` (95-104), `Collapse` once per turn of the `while`
(105-107), `Shorten` (108-111). `str::replace` takes every second dot of a run
(`DotsAt`, `Odds`); what is left are the characters at the places kept, the k-th
at the place that has rank k among them (`Keep`, `Place`, `Rank`). Hashes are
their inputs. A request also says of which conversation it is (`conv`), which the
code never sees. A blob remembers the request that wrote it and under which
backend; `Start` is a restart between a save and a lookup. What the properties
ask for is not stated in terms of the key: `Distinct` says which requests their
clients have told apart, namely one with a header and one without, two whose
headers are different safe names as they stand, or two without a header whose
system prompts differ.

**Quota.** State: the directory (names to mtimes), the
directory as it was read, the pass, what the pass has still to look at, the plan
and the bytes freed. An enforcement is `due` only when a steered turn's task has
saved (`TurnEnds`; 601, 632), and runs once: nothing repeats it. `WithinLimit` is
the planner's early return, `Skip`/`Take` are one turn of either loop. Between
them, and between the unlinks, `Write` makes a file new (a save, a restore, a
touch) and `RemovedElsewhere` is the enforcement of another turn, which runs at
the same time. `disturbed` says whether, since the scan, a file was written or
could not be removed.
Lengths are the constant `Bytes`, of a set of files: all that is assumed of it is
that disjoint sets add up (`BytesAssumption`), which is what a sum of file lengths
does; the instance for TLC is such a sum (`SumOfSizes`).

**Seed dance.** `prepare` await by await; `SharedSlots` says whether the caller
may hand one slot to two calls at once. The code leaves that to its caller. A
prefill that is answered but lands nothing leaves the slot's position and KV as
they were (`PrefillLost`; fake.rs:79-83 does the same): `"lostFresh"` is that
fault on an empty slot, `"lostUsed"` on one that was used before.

## 4 Runs and bounds

| run | instance | shows |
|---|---|---|
| `concurrent` | 3 turns, 2 sessions, 1 slot, concurrent, clients hang up mid-stream | `SettledForest`; `NobodyStuck`: nobody waits in a circle for gate, slot and backend; and `QuietIsClean`: whatever the interleaving, nothing is left unpublished |
| `faults` | 2 turns, 2 slots, concurrent, every fault but of `GET /slots`, hang-ups, both processes crash at any step, passthrough, quota of one file | `TypeOK`, `DirtyIsOwned`, `GateExclusion`, `WholeBlobs`, `ImplementsForest`, `EveryTurnEnds` |
| `settled` | 3 turns, 2 slots, settled, hang-ups, proxy restarts, quota of one file | `BlobOwner`, `HotIsTrue`, `AbandonedNotPublished`, `WarmStart`, `FinishedTurnPersists` |
| `settled_faults` | the same with every fault, clients leaving at any await | `DecodeOutsideGate`, `NeverStealDirty`, `NeverOverwriteDirty`, `CleanIsPublished` |
| `publish` | 2 saves, one after the other or over each other, every failure but the directory fsync's, handlers dropped, unlinks, crashes, power loss, sidecars left out | `BlobsSurvive`, `AckedSurvives`, `LedgerNotAhead`, `ImplementsRegister`, `TypeOK` |
| `naming` | 23 headers, 2 system prompts, 2 turns, 2 conversations of one prompt, 5 backends, names cut to 3, one file | `SafeNames`, `Isolation`, `BackendApart`, `Sticky` |
| `quota` | 5 names (a session with all four kinds, a second blob), 3 ages, limit 2, one racing write, any removals by other enforcements | the planner's six promises and `EnforcementSuffices` |
| `seed` | 2 requests, 2 families, 2 slots, every fault but `"lostUsed"`, seeds evicted | the seed dance's six |
| `v_late_save`, `v_torn_blob`, `v_stale_ledger`, `v_compat_gate` | the smallest instance of each | section 7 |

Why these are enough to be worth something: two turns are needed for a race and
three for the longest chains the code has (an owner, one that takes its slot, one
that finds what was left; one that waits for the gate, its holder, the decode
this one waits for); one slot forces eviction, two allow both a free slot
and an unsteered turn; two sessions are a victim and a thief. A quota of one
file makes each enforcement delete the other session's blob, 99 deletes none.
Two saves of a session are what `publish` needs: the files of one are found
beside those of the other (and the theorems hold for any number). `naming` has
every header of up to two characters over a letter, a dot and an unsafe one, and
runs of up to seven dots, which take three rounds to collapse; two headers
differ only beyond the cut; one file is enough, since each property relates one
file and one request.

In `quota` sidecars are the larger half, as measured in the tests, and the limit
lies between a pair and everything; mtime 3 is within the grace period, 1 and 2
are not.

`SYMMETRY` permutes turns and sessions, never slots (`GET /slots` has an order),
and is used only where no liveness is checked.

## 5 Fairness

`Proxy` assumes weak fairness of `Progress(r)`, for each turn: tokio polls a task
that can go on; the gate's queue and the backend's are first-in first-out; every
call to the backend ends, at the latest by the client's timeout (lib.rs:720).
Progress includes decoding, so a generation ends. It assumes nothing of clients
(`Environment`) or crashes. Weak fairness is enough because a waiter of the gate
or of a busy slot is overtaken by finitely many turns.

`SeedDance`: weak fairness of each dance. `Publish`, `Naming` and `Quota` assume
none: what an enforcement achieves is stated of its last step
(`EnforcementSuffices`), and that there is another one is not assumed.

## 6 Proofs

40 theorems; every invariant and every safety property of steps that a run checks
has one. They hold for any sets of turns, sessions, slots, files, families,
headers and backends, from the assumptions named in `ProxyTypes`, `Proxy`,
`Quota`, `Publish` and `Naming` (the absence values are distinct from the others;
slots and times are numbers; lengths add up; headers are sequences of
characters; names are cut to a positive length).

### The request path

| theorem | property | traffic | may fail | may leave at | may crash | bypass |
|---|---|---|---|---|---|---|
| `TypeCorrect`, `GateCorrect`, `DirtyOwned` | `TypeOK`, `GateExclusion`, `DirtyIsOwned` | any | any | any | any | yes |
| `BlobsWhole`, `StoreImplemented`, `ForestSettled` | `WholeBlobs`, `ImplementsForest`, `SettledForest` | any | any | stream | any | yes |
| `NobodyWaitsInCircle` | `NobodyStuck` | any | any | any | any | yes |
| `NothingLeftUnsaved` | `QuietIsClean` | any | slots, restore | stream | none | yes |
| `DirtyNotStolen`, `DirtyNotOverwritten` | `NeverStealDirty`, `NeverOverwriteDirty` | settled | any | any | any | yes |
| `GateWaitsForNoDecode` | `DecodeOutsideGate` | settled | any | any | any | no |
| `CleanPublished` | `CleanIsPublished` | settled | any | any | proxy | no |
| `BlobsOwned`, `RejectedNotKept` | `BlobOwner`, `AbandonedNotPublished` | settled | slots, restore | stream | proxy | no |
| `ClaimsAreTrue` | `HotIsTrue` | settled | restore | stream | proxy | no |
| `WarmWhereKnown` | `WarmStart` | settled | none | stream | proxy | no |

Each restriction is a hypothesis of the theorem, the run of the property lies
within it, and what TLC finds outside it is said below or in section 7. The
hypotheses are about the environment; none is about a state.
`NobodyWaitsInCircle` has one more, that the backend has a slot.

`ProxyTypeProofs`: `TypeOK` contains `LocalsOK`, without which it would not be
inductive: a slot wherever one is saved, restored or marked, a name wherever a
blob is written. The lemmas `PutTurn` .. `RetireTurn` say when one assignment to
a turn's locals keeps `TurnsOK`; one lemma per group of actions applies them.

`ProxyProofs` begins with what a step may touch at all (`OthersStay`,
`RegistryWriters`, `KvWriters`, `ProcessingWriters`, `DirWriters`,
`SessionsStay`): most steps leave most of the state alone, and every later
preservation proof has one case per step that does not.

- **`GateCorrect`** is inductive with `TypeOK`: it ties the guards to the program
  counters, so each step must enter or leave a critical section together with
  its guard. This covers the dropped handler and both crashes.
- **`DirtyOwned`** is inductive.
- **`BlobsWhole`** is not: the rename publishes what the scratch file is by then.
  `BlobInv` adds `ScratchWhole`, that a turn about to rename finds its scratch
  complete or gone. It is the gate that keeps another save of the same session
  from reopening it. With handlers dropped the property is false, see
  `v_torn_blob`.
- **`StoreImplemented`**, **`ForestSettled`**: each action is a step of `Forest` or a
  stutter. `Publish` maps to `Put`, which needs that no reader is there, so
  `GateExclusion`.
- **`NobodyWaitsInCircle`** rests on `GateCorrect` and `DecodesMatch`: a turn whose
  program counter says that its generation is under way has a slot that decodes
  for it, and the backend decodes for no other. So who waits for a slot or the
  backend waits for a turn that can go on (`BackendGoesOn`), and who waits for
  the gate waits for such a turn or for its holder, who waits for one
  (`GateGoesOn`). `CanGo` repeats the guards of the steps a turn takes by itself,
  because ENABLED is beyond the prover; on the instances TLC finds that a turn
  that `CanGo` has a step, and its search for deadlocks and `EveryTurnEnds` say
  so too.
- **`NothingLeftUnsaved`** rests on `QuietInv`: each dirty slot is some turn's that
  is still to save it (`DirtyHeld`), and that save will not fail, because no
  scratch file is there that a quota could take from it (`ScratchHeld`,
  `QuietTurn`). This needs no restriction of the traffic and holds over
  passthrough. It does need that the proxy has not crashed: TLC shows on two
  slots with `Crashes = {"proxy"}` how an orphaned scratch file, planned for
  deletion, is then taken from under the next save of its session, which fails
  and leaves its slot dirty until it is evicted.

`SettledProofs`. In settled traffic at most one turn with a session is under way
(`OneTurn`). `Stages` says which locals a turn has at which step, in any traffic;
`ClaimHeld`, what a turn knows of the registry's entry for its slot between its
steps: marked for it until its save ends, not dirty before. Together they are
`SettledInv`, which is inductive because no other turn that can write the
registry is there to disturb a claim; that is where the theorem uses the
traffic, and where concurrent turns break it (section 7).

- **`DirtyNotStolen`** and **`DirtyNotOverwritten`** follow from `SettledInv`, as
  action properties over each writer of the registry and of a slot's KV.
- **`GateWaitsForNoDecode`** adds `IdleHeld`: a slot decodes for the turn steered to
  it or is idle, and is idle wherever one is saved. A bypassed request breaks it.
- **`CleanPublished`** adds `SaveTrue`, the way of the KV through the scratch file
  to the blob, for the one turn that saves (`OneWriter`, from the gate); it holds
  over failed saves and over a restart of the proxy between the two.

`CalmProofs`. What a slot holds and whether the registry tells the truth of it
needs more: `Calm` is one invariant of turns (`CalmTurn`), slots (`ClaimTrue`: the
KV is the owner's, or a turn about to make it so is under way; `DecodeKnown`) and
files (`FileOf`: a file's turn is of that session, and was answered). They
depend on each other in a circle. A claim is true because what was restored was
the session's; a blob is the session's because the slot saved was claimed
truly; an answer reaches the slot claimed for it because a slot for it was
found, which it was because no slot is left dirty, because no save failed.

So the hypotheses (`CalmWorld`) are needed: TLC violates `HotIsTrue` when any one
of `"save"`, `"publish"`, `"chat"`, a dropped handler, a backend crash or
passthrough is let in; `BlobOwner` (on one slot with `Capacity = 99`) and
`AbandonedNotPublished` for most of these too. What remains allowed is what
happens on a good day: clients hang up, restores fail, the proxy restarts at any
step, the quota deletes any file.

A failing `GET /slots` is a case of its own (`Answering`). It violates
`HotIsTrue`: the turn goes on without a slot, the backend puts it into any, and
the registry keeps a claim that is no longer true. But the files stay right:
such a turn never reaches a save, and what one that was steered saves is its own
generation, wherever it started from. So the part of `Calm` about claims and
free slots (`ClaimTrue`, `DecodeKnown`, `SteeredTurn`) is conditional on
`Answering`, and **`BlobsOwned`** and **`RejectedNotKept`** rest on the rest alone.

### Publishing

`PublishProofs` holds for any number of saves and any set of failures, also when
handlers are dropped and saves of one session overlap. What is inductive is
`PublishInv`: `TypeOK`; `Underway`, what each save knows of the files it shares
with the others (what lies under the scratch name, and under the blob's once it
has renamed, is its own or a later save's; its own scratch file is synced before
the rename; every save begun while its closure is at work is in `overlapped`);
`Bounded`, no file is of a save that has not begun; `Sound`, `BlobsSurvive` and
`LedgerNotAhead`.

- **`PublishTypeCorrect`**, **`BlobsAlwaysSurvive`**, **`LedgerNeverAhead`**: parts
  of it. The order of the two renames is what the last rests on, the fsync what
  the second does. Both except the blob and the ledger of a save that began over
  the closure of a dropped handler, the case in which the code does not keep its
  promise (section 7), and say that nothing else is lost by it: the blobs of the
  saves before and after stay sound.
- **`UndisturbedSavesSound`**: if no handler is dropped inside `save_slot`
  (`"drop" \notin Failures`), `overlapped` stays empty and both hold without
  exception. That one save at a time is at work is proved there, not assumed.
- **`AckedAlwaysSurvives`**, if `"sync" \notin Failures`: an acknowledged blob is
  in every directory that may be found, or a later one is, whichever saves
  overlap (no acknowledged file, and no older one, waits under the scratch name).
  The assumption is needed, and the code does not ensure it (section 7).
- **`RegisterImplemented`**: every step is a step of `Register` or a stutter, the
  state of a save begun over an orphaned closure counting as complete.

### The disk quota

`QuotaProofs` holds for any names, lengths, times and limit, whatever is written
meanwhile and however ties are broken. First facts about lengths
(`BytesMonotone`), names and units: two units are equal or share no file, which
is what the naming of sidecars gives. Then `QuotaTypeCorrect`, which no run
repeats, and `PlanInv`, of the two passes: what
the plan frees is the length of the files in it, each once (`Exact`); what is
left to look at is not planned and shares no file with what is (`Untouched`);
what was looked at is planned or fresh, or the limit is reached (`JunkSeen`,
`BlobsSeen`); what is left is younger than what is planned (`Ordered`). Each of
**`FreedExactly`**, **`LimitReached`**, **`OldestGoFirst`**, **`PairsPlannedTogether`**,
**`GraceAlwaysHonoured`** and **`LimitStops`** follows from it; the last three go over
the ways in which a plan can grow (`PlanGrows`). `FreedExactly` is why the
unsigned subtractions of the planner cannot wrap.

**`OneEnforcementSuffices`** goes on through the unlinks: what is not planned fits
or may stay, and as long as nothing is written and no removal fails the
directory holds no more than that and what is still planned (`Undisturbed`),
whatever other enforcements remove meanwhile. What may stay (`Spared`) was fresh
when it was read, or is half of a pair that was, or the sidecar of a scratch
file.

### The seed dance

`SeedProofs` holds for any requests, families and slots, whatever calls fail.
**`SeedTypeCorrect`** and **`FamiliesDecided`** hold for every caller: from the
entry on each way through the dance leads to a mark (`LeadsToMark`), so that an
undecided family is one that is being danced (`UndecidedIsDanced`).
**`NothingIssuedOnProcessing`**, **`ConfirmedSaved`** and
**`SeedsAreTheFamilys`** are for callers that hand a slot to one prepare at a
time (`~SharedSlots`), and the last two for backends that do not lose a prefill
on a used slot (`"lostUsed" \notin SeedFaults`); without either they are false
(section 7). The first is `SlotInv`: a slot is one prepare's (`Alone`), decodes
what that prepare decodes (`Busy`), and so stays idle from the slot gate on
(`Still`). The others add `SeedInv`: what was prefilled is what is confirmed,
and stays in the slot until it is written (`Landed`), and scratch files and
blobs are of their family (`SeedsOwned`), the scratch files because two dances
of one family write the same one.

### Naming

`NamingProofs` holds for any headers of any length, any length names are cut to,
any prompts and backends. What a loop makes of a sequence is usually shown by
induction over it, which is beyond the prover; here it is not needed.

First, facts about places: every set of naturals has a least element (`LeastNat`,
from the library's theorem that the strict subsets of finite sets are well
founded), so that `Place` is the inverse of `Rank` and lists the places from left
to right (`Places`, `PlacesInOrder`), and keeping some characters of those kept
is keeping them at once (`KeepTwice`). Of a run of dots the first stays when
every second one goes, and remains a first (`FirstsStay`). So the header with
every run down to its first dot is the same before and after a turn of the loop
(`CollapsedStays`), which is the inductive invariant, `NameInv`; when no two dots
are left, it is what is there (`NoPairCollapsed`).

- **`NamesAreSafe`**: a safe name, not empty, no longer than the cut; and it is the
  header with its runs of dots down to one, cut, however many turns the loop took.
- **`LoopShortens`**: each of these turns makes the name shorter, so there are no
  more of them than the header has characters.
- **`DistinctKeptApart`** (`Isolation`): no lookup finds a file of a request that
  its client has told apart from it, whatever becomes of the backend. By `KeyInv`
  every file has the key of the request it was written for; and `sanitize` leaves
  a safe name as it is (`PlainKept`), so that requests told apart have different
  keys (`DistinctKeys`). What it merges are headers it changes or cuts.
- **`BackendsKeptApart`** (`BackendApart`) and **`OwnFileFound`** (`Sticky`) are about
  backends, by `SignedInv`: every file has the signature of the backend it was
  written under. They need `Upsets = {}`, that the proxy starts with its backend
  and is answered. The first rests on cancellation: joined values that differ in
  one of them differ, whatever stands before and after it (`CancelLeft`,
  `CancelRight`, `OneFieldApart`). Section 7 has what happens without, and when two
  values change at once.

What a signature is beyond a function of the values, and which headers are
visible ASCII, the proofs leave open.

### What is only model-checked

Liveness: `EveryTurnEnds`, `FinishedTurnPersists`, `EveryCallServed`. Fairness
and ENABLED are beyond the prover. `NobodyWaitsInCircle`, `LoopShortens` and
`EveryFamilyDecided` are the part of it that is safety.

## 7 Where code and documentation part

Each of the first four is a run whose trace shows it.

1. `v_late_save`: conversations "stay isolated" (131-132). The post-turn task
   claims and saves its slot by id (592-601, 621-633) without looking whether it
   is still its own. An admission between the backend's end of turn and that
   task publishes and reuses the slot; the task then writes the other session's
   KV under its own name. Each client here waits for its answer first. The gate
   is modelled without an order, but the trace does not need that: the pump may
   see EOF late.
2. `v_torn_blob`: "a torn blob is structurally impossible" (README.md:68-69). A
   handler dropped inside `save_slot` releases the gate while its rename is on
   the blocking pool; the rename publishes the scratch file the next save of
   that session has opened.
3. `v_stale_ledger`: without a sidecar "restore then degrades to re-prefill,
   correctness intact" (406-407). When a save has none, `rename_sidecar` returns
   early and the ledger of the save before stays beside the new blob; a restore
   reads it as the new blob's. Nothing fails but the backend's sidecar write,
   which docs/design/checkpoint-persist.md:38-39 calls a warning. The stale
   ledger is never that of a later save (`LedgerNeverAhead`).
4. `v_compat_gate`: the signature is "a fingerprint of model path, slots,
   context, cache types, template, draft config ... A blob saved under one
   backend can never restore into another" (README.md:76-79). The list (733-740)
   has neither a cache type nor a draft configuration.

Also shown by TLC, by a change of a constant or by a formula given here.

The request path:

- "Streaming: save driven by pump completion (drains to EOF even when the client
  disconnects)" (README.md:105-106). The code does the opposite: a pump whose
  `send` fails stops reading (566-575), and clears the slot instead of saving it
  (603-613), as the comments there and HANDOFF.md:100-102 want it.
  `AbandonedNotPublished`, which `settled` checks over hang-ups and
  `RejectedNotKept` proves, is that opposite: what README.md promises to save is
  never saved.
- Nor is the new promise kept everywhere, "abandoned turn must not be saved"
  (953): `settled` with `Leaves = {"handler"}` violates `AbandonedNotPublished`.
  Only the pump clears the slot; a handler dropped at `chat()` or `collect_body`
  leaves it dirty.
- "A dirty slot is NEVER stolen" (148): `settled_faults` with `Traffic =
  "concurrent"` violates `NeverStealDirty`. `pick_slot` decides under the shared
  guard, `mark_dirty` (487) runs later without it: two turns get the same slot
  (docs/REVIEW-2026-09-30.md, defect 2). What they save is then not kept apart
  either: `concurrent` violates `BlobOwner`.
- Dirty is to hold "from the moment a turn is steered to this slot until the
  post-turn save publishes" (146-147). `concurrent` violates `At(r, "running") /\
  turn[r].steer # None => slots[turn[r].steer].dirty`, also with `Leaves = {}`:
  `mark_clean` (376-379) of one turn's save clears the flag that the session's
  next turn, already steered to the slot, has set, and so does the pump of a turn
  whose client hung up (607-613). The same with `slots[turn[r].steer].session =
  turn[r].session`: the later turn has no claim until its own post-turn task makes
  one. That it does, and saves, is `QuietIsClean`.
- A failed chat call (520-537) or a broken stream leaves the slot dirty under
  the failed turn's session whatever it holds, and the next eviction publishes
  that as the session's blob: `settled` with `Faults = {"chat"}`, one slot
  and `Capacity = 99` violates `BlobOwner`.
- A failed save forwards without a slot, "do not steal an unpersisted slot"
  (506), and the backend may choose the very slot that could not be saved.
  `NeverOverwriteDirty` has to except it: without its last disjunct
  `settled_faults` violates it.
- Passthrough takes any slot behind the registry's back: `settled` with
  `Bypassing = TRUE` violates `HotIsTrue` and `BlobOwner`.
- The registry outlives the backend's memory: `settled` with `Crashes =
  {"backend"}` violates `HotIsTrue` and `WarmStart`. The next turn is hot and
  skips the restore (485). tests/live/persistence-proof.sh:2-5 promises the
  restore after a hard restart of the backend, but restarts the proxy with it.

Publishing:

- "A visible blob is always complete" has a second way to fail: a closure of a
  dropped handler renames or fsyncs what the next save of the session has opened
  under the same scratch name (352-363, 499). `publish` with `Failures = {"drop",
  "power"}` violates `BlobsSurvive` and `LedgerNotAhead` when their exception, the
  saves in `overlapped`, is taken out: a blob may be on the disk without its data,
  or a ledger beside an older blob.
- The directory's fsync may fail unnoticed (357-361) and the save is reported:
  `publish` with `"sync"` in `Failures` violates `AckedSurvives`. The ledger is
  never fsynced at all; a torn one is taken to be refused by its header.

Names:

- "Every new-turn prefix is a new key" (README.md:36-39) and "hash of the full
  message list" (115-117). Without a header the code hashes the system messages
  only (132-139), as its comment there explains: every turn has the key of the
  last one. `Sticky` is that behaviour, and its mutant is the documented one.
- "Distinct conversations differ in system prompt ... and stay isolated"
  (131-132) is a hope about clients: `naming` violates `OwnConversation`. Two
  conversations of one system prompt share a file, and so do two headers that
  `sanitize` maps or cuts to one name. `Isolation` is what the code does give.
- The signature is read once. `naming` with `Upsets = {"alone"}` violates
  `BackendApart` and `Sticky`: a live proxy keeps the signature of a backend that
  was replaced. So does `{"unanswered"}`: every proxy that got no answer shares
  one signature. `Isolation` holds with both. The passing run has neither:
  ops/start-stack.sh starts the proxy after its backend.
- "Mismatch means cold prefill, always" (README.md:76-79). The values are hashed
  one after the other, without keys or separators (741-743). Another value of one
  field is always another name (`BackendApart`); of two fields it need not be:
  1 slot with a context of 14 and 11 slots with a context of 4 have one signature,
  and `naming` violates `\A b \in Found : SameOn(Fields, b.under, backend)`.

The quota:

- `OLLM_CACHE_LIMIT_MB` is a "hard cap" (README.md:49). `enforce_limit` is called
  after a steered turn's save only (601, 632), not at the start, not after an
  eviction's save and not by a turn that got no slot; a cache over its limit
  stays so until the next steered turn ends (docs/REVIEW-2026-09-30.md, defect 8).
  `EnforcementSuffices` is about one enforcement, and no property says that there
  is one.
- `enforce_limit` deletes by a directory read earlier (311-318): a file touched
  since goes although its grace has begun. `GraceHonoured` is about the plan;
  `quota` violates `[][RemoveFile => ~Fresh(dir[Head(plan)])]_vars`.
- A scratch file's sidecar beside that scratch file is in neither pass
  (1018-1031), so live pairs may go before it; `Spared` names it as what may be
  left.

The seed dance:

- It "never saves an unconfirmed position" (seed.rs:182-183). Confirming is
  `n_tokens > 0` (272), which on a slot that was used before says nothing of this
  prefill: lost there, it is confirmed by what the slot still holds (the test
  double keeps the old position too, fake.rs:79-83), and another request's KV is
  published as the family's seed. `seed` with `"lostUsed"` in `SeedFaults`
  violates `ConfirmedIsSaved` and `SeedOwner`. The test of it
  (seed.rs:405-418) has an empty slot.
- With `SharedSlots = TRUE` it loses `SeedOwner`, `NothingOnProcessing` and
  `ConfirmedIsSaved`: two prepares on one slot interleave between check and use
  (204, 270). That is its caller's to prevent, and a condition on wiring it in.
- Two dances of one family on different slots share their scratch file with no
  gate (`FsPublisher` takes none): one may rename the file the other is writing,
  so that the seed is visible before it is complete. `seed` violates
  `\A k \in Sessions : blob[k] # Torn`.

Seen while modelling:

- Decoding is to be "outside the gate" (README.md:65-66). `save_slot` holds the
  gate over the backend's save (335-337), which waits while the session's next
  turn, steered hot to the same slot, decodes. Settled traffic does not meet it
  (`DecodeOutsideGate`).
- seed.rs:188-189 says a failed save "leaves the bag uncached"; the code marks
  the family failed (290), which the next sight retries all the same. A family
  whose seed was evicted stays `Cached` and is never seeded again (220-228). A
  dance that fails may mark a family failed that another has just cached (302);
  the next sight dances once more.

## 8 What is not modelled

- HTTP, authentication, `/health`, configuration, `main`: no state. Passthrough
  requests that command the server's slots (a client's own `/slots/0?action=`
  calls) are outside; those that decode are in.
- Partial bodies: `collect_body` takes a body cut short for one that ended, and
  so does `Finish`; what the text says is not modelled.
- In `Publish`, other sessions (their files have other names), the restore,
  which `Proxy` has, and the seeds' `FsPublisher`, which `SeedDance` has;
  file systems that reorder directory operations.
- In `Naming`, hash collisions, and the text that no header reader sees
  (`to_str` refuses what is not visible ASCII, and the system prompt decides).
- `FakeBackend`, scripts, the vendored design documents.

## 9 Plan

In order; what comes first matters most.

1. The pump: a bounded channel of 64 between backend and client, EOF and hang-up
   racing each other. `Finish` merges the backend's end of a generation with the
   pump's EOF.
2. What is true of claims once `GET /slots` has failed: which of them a turn
   without a slot may have falsified.
3. A gate that is first-in first-out, as tokio's is, shown to implement the one
   modelled here.
