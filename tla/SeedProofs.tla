----------------------------- MODULE SeedProofs ------------------------------
(***************************************************************************)
(* What the seed dance keeps for any requests, families and slots and      *)
(* whatever calls fail: its types, a decision about every family, and,     *)
(* where the caller hands a slot to one prepare at a time, that nothing is *)
(* issued onto a processing slot and that a seed is its family's own.      *)
(***************************************************************************)
EXTENDS SeedDance, TLAPS

-----------------------------------------------------------------------------
(***************************************************************************)
(* Types.                                                                  *)
(***************************************************************************)

\* Where prepare works for a family, and where it holds its slot.
Dancing == {"slotGate", "sight", "restore", "enter", "prefill", "prefilling",
            "confirm", "save", "write", "publish", "markCached", "markFailed"}
Holding == Dancing \cup Results

\* A prepare that has been called has a slot, and one that dances a family.
Placed ==
    \A r \in Reqs : /\ at[r] # "new" => Slot(r) \in SlotIds
                    /\ at[r] \in Dancing => Key(r) \in Sessions

SeedTyped == SeedTypeOK /\ Placed

\* A step of prepare leaves its family and its slot alone, and no step leads
\* back into the dance or back to the slot.
LEMMA DanceMoves ==
    ASSUME NEW r \in Reqs, Dance(r)
    PROVE  /\ UNCHANGED call
           /\ at[r] \in Holding \cup {"serving"}
           /\ \E to \in Steps \ {"new"} :
                  /\ at' = [at EXCEPT ![r] = to]
                  /\ to \in Dancing => at[r] \in Dancing
                  /\ to \in Holding => at[r] \in Holding
<1> USE DEF Step, Steps, Dancing, Holding, Results
<1>1. CASE SlotGate(r) \/ Sight(r) \/ RestoreSeed(r) \/ Enter(r)
  BY <1>1 DEF SlotGate, Sight, RestoreSeed, Enter
<1>2. CASE PrefillStart(r) \/ PrefillEnd(r) \/ PrefillLost(r) \/ PrefillError(r)
  BY <1>2 DEF PrefillStart, PrefillEnd, PrefillLost, PrefillError
<1>3. CASE Confirm(r) \/ ConfirmError(r)
  BY <1>3 DEF Confirm, ConfirmError
<1>4. CASE SaveSeedStart(r) \/ SaveSeedEnd(r) \/ SaveSeedError(r)
  BY <1>4 DEF SaveSeedStart, SaveSeedEnd, SaveSeedError
<1>5. CASE PublishSeed(r) \/ PublishSeedError(r) \/ MarkCached(r) \/ MarkFailed(r)
  BY <1>5 DEF PublishSeed, PublishSeedError, MarkCached, MarkFailed
<1>6. CASE Serve(r) \/ Served(r)
  BY <1>6 DEF Serve, Served
<1> QED BY <1>1, <1>2, <1>3, <1>4, <1>5, <1>6 DEF Dance

\* Every call of prepare keeps the backend and the directory well typed.
LEMMA DanceType ==
    ASSUME SeedTyped, NEW r \in Reqs, Dance(r)
    PROVE  ServerTypeOK' /\ DirTypeOK'
<1> DEFINE i == Slot(r)
           k == Key(r)
<1>1. /\ ServerTypeOK /\ DirTypeOK
      /\ i \in SlotIds
      /\ at[r] \in Dancing => k \in Sessions
  BY DanceMoves, NoneAssumption
  DEF SeedTyped, SeedTypeOK, Placed, Holding, Dancing, Results
<1>2. Empty \in Contents /\ kv[i] \in Contents
  BY <1>1 DEF Contents, ServerTypeOK
<1>3. CASE UNCHANGED <<serverVars, dirVars>>
  BY <1>1, <1>3 DEF serverVars, dirVars, ServerTypeOK, DirTypeOK
<1>4. ASSUME UNCHANGED dirVars,
             \/ StartDecode(i, r) \/ EndDecode(r)
             \/ \E c \in Contents : LoadSlot(i, c)
      PROVE  ServerTypeOK' /\ DirTypeOK'
  BY <1>1, <1>4
  DEF dirVars, DirTypeOK, StartDecode, EndDecode, LoadSlot, ServerTypeOK, Contents
<1>5. ASSUME UNCHANGED serverVars, at[r] \in Dancing,
             OpenScratch(k) \/ CloseScratch(k, kv[i]) \/ RenameScratch(k)
      PROVE  ServerTypeOK' /\ DirTypeOK'
  BY <1>1, <1>2, <1>5
  DEF serverVars, ServerTypeOK, OpenScratch, CloseScratch, RenameScratch,
      DirTypeOK, Files
<1>6. CASE RestoreSeed(r)
  <2>1. k \in Sessions
    BY <1>1, <1>6 DEF RestoreSeed, Dancing
  <2>2. Loadable(k) => blob[k] \in Contents
    BY <1>1, <2>1 DEF Loadable, DirTypeOK, Files
  <2> QED BY <1>2, <1>3, <1>4, <1>6, <2>2 DEF RestoreSeed
<1>7. CASE PrefillStart(r) \/ PrefillEnd(r) \/ PrefillLost(r) \/ PrefillError(r)
  BY <1>2, <1>3, <1>4, <1>7
  DEF PrefillStart, PrefillEnd, PrefillLost, PrefillError
<1>8. CASE SaveSeedStart(r) \/ SaveSeedEnd(r) \/ PublishSeed(r)
  BY <1>5, <1>8 DEF SaveSeedStart, SaveSeedEnd, PublishSeed, Step, Dancing
<1>9. CASE Serve(r) \/ Served(r)
  BY <1>4, <1>9 DEF Serve, Served
<1> QED
  BY <1>3, <1>6, <1>7, <1>8, <1>9
  DEF Dance, SlotGate, Sight, Enter, Confirm, ConfirmError, SaveSeedError,
      PublishSeedError, MarkCached, MarkFailed

\* The steps that write the bag.
LEMMA BagWriters ==
    ASSUME NEW r \in Reqs, Dance(r)
    PROVE  UNCHANGED bag \/ Enter(r) \/ MarkCached(r) \/ MarkFailed(r)
  BY DEF Dance, SlotGate, Sight, RestoreSeed, PrefillStart, PrefillEnd,
         PrefillLost, PrefillError, Confirm, ConfirmError, SaveSeedStart,
         SaveSeedEnd, SaveSeedError, PublishSeed, PublishSeedError, Serve, Served

LEMMA SeedTypedAlways == SeedSpec => []SeedTyped
<1>1. SeedInit => SeedTyped
  BY DEF SeedInit, ServerInit, DirInit, SeedTyped, SeedTypeOK, ServerTypeOK,
         DirTypeOK, Contents, Files, BagStates, Steps, Placed, Dancing
<1>2. SeedTyped /\ [SeedNext]_seedVars => SeedTyped'
  <2> SUFFICES ASSUME SeedTyped, [SeedNext]_seedVars PROVE SeedTyped'
    OBVIOUS
  <2> USE DEF SeedTyped, SeedTypeOK
  <2>1. CASE UNCHANGED seedVars
    BY <2>1 DEF seedVars, serverVars, dirVars, ServerTypeOK, DirTypeOK, Placed,
                Slot, Key
  <2>2. ASSUME NEW r \in Reqs, Call(r) PROVE SeedTyped'
    <3>1. PICK k \in Sessions \cup {None}, i \in SlotIds :
              /\ call' = [call EXCEPT ![r] = [key |-> k, slot |-> i]]
              /\ at' = [at EXCEPT ![r] =
                           IF k = None THEN "skipped" ELSE "slotGate"]
      BY <2>2 DEF Call, Step
    <3>2. at' \in [Reqs -> Steps] /\ call' \in [Reqs -> [key : Sessions \cup {None},
                                                        slot : SlotIds \cup {None}]]
      BY <3>1 DEF Steps, Results
    <3>3. Placed'
      BY <3>1 DEF Placed, Dancing, Slot, Key
    <3> QED
      BY <2>2, <3>2, <3>3 DEF Call, serverVars, dirVars, ServerTypeOK, DirTypeOK
  <2>3. ASSUME NEW r \in Reqs, Dance(r) PROVE SeedTyped'
    <3>1. PICK to \in Steps \ {"new"} :
              /\ at' = [at EXCEPT ![r] = to]
              /\ to \in Dancing => at[r] \in Dancing
      BY <2>3, DanceMoves
    <3>2. UNCHANGED call /\ at[r] # "new"
      BY <2>3, DanceMoves DEF Holding, Dancing, Results
    <3>3. Placed'
      BY <3>1, <3>2 DEF Placed, Slot, Key
    <3>4. bag' \in [Sessions -> BagStates]
      BY <2>3, BagWriters DEF Enter, MarkCached, MarkFailed, BagStates
    <3> QED BY <2>3, <3>1, <3>2, <3>3, <3>4, DanceType
  <2>4. ASSUME NEW k \in Sessions, EvictSeed(k) PROVE SeedTyped'
    BY <2>4
    DEF EvictSeed, Remove, DirTypeOK, Files, serverVars, ServerTypeOK, Placed, Slot, Key
  <2> QED BY <2>1, <2>2, <2>3, <2>4 DEF SeedNext, AllServed
<1> QED BY <1>1, <1>2, PTL DEF SeedSpec

\* Type correctness of the seed dance: no prepare uses a slot or a family it
\* was not given, whichever calls fail.
THEOREM SeedTypeCorrect == SeedSpec => []SeedTypeOK
  BY SeedTypedAlways, PTL DEF SeedTyped
-----------------------------------------------------------------------------
(***************************************************************************)
(* Decisions.                                                              *)
(***************************************************************************)

\* Where a prepare has entered its family and not yet marked it.
Deciding == {"prefill", "prefilling", "confirm", "save", "write", "publish",
             "markCached", "markFailed"}

\* A family nothing is known about is being danced for.
UndecidedIsDanced ==
    \A k \in Sessions :
        bag[k] = "uncached" => \E r \in Reqs : Key(r) = k /\ at[r] \in Deciding

\* From the entry on every way through the dance, the failures included,
\* leads to a mark.
LEMMA LeadsToMark ==
    ASSUME SeedTyped, NEW r \in Reqs, Dance(r), at[r] \in Deciding
    PROVE  at'[r] \in Deciding \/ MarkCached(r) \/ MarkFailed(r)
<1> USE DEF Deciding, Step, Results, SeedTyped, SeedTypeOK
<1>1. CASE SlotGate(r) \/ Sight(r) \/ RestoreSeed(r) \/ Enter(r)
  BY <1>1 DEF SlotGate, Sight, RestoreSeed, Enter
<1>2. CASE PrefillStart(r) \/ PrefillEnd(r) \/ PrefillLost(r) \/ PrefillError(r)
  BY <1>2 DEF PrefillStart, PrefillEnd, PrefillLost, PrefillError
<1>3. CASE Confirm(r) \/ ConfirmError(r)
  BY <1>3 DEF Confirm, ConfirmError
<1>4. CASE SaveSeedStart(r) \/ SaveSeedEnd(r) \/ SaveSeedError(r)
  BY <1>4 DEF SaveSeedStart, SaveSeedEnd, SaveSeedError
<1>5. CASE PublishSeed(r) \/ PublishSeedError(r)
  BY <1>5 DEF PublishSeed, PublishSeedError
<1>6. CASE Serve(r) \/ Served(r)
  BY <1>6 DEF Serve, Served
<1> QED BY <1>1, <1>2, <1>3, <1>4, <1>5, <1>6 DEF Dance

\* No dance leaves its family undecided, whatever calls fail and however many
\* dances of one family overlap: prepare inserts "uncached" and, on each of
\* its returns, has overwritten it.
THEOREM FamiliesDecided == SeedSpec => []EveryFamilyDecided
<1>1. SeedInit => UndecidedIsDanced
  BY DEF SeedInit, UndecidedIsDanced
<1>2. SeedTyped /\ UndecidedIsDanced /\ [SeedNext]_seedVars => UndecidedIsDanced'
  <2> SUFFICES ASSUME SeedTyped, UndecidedIsDanced, [SeedNext]_seedVars
               PROVE  UndecidedIsDanced'
    OBVIOUS
  <2> USE DEF SeedTyped, SeedTypeOK
  <2>1. CASE UNCHANGED seedVars
    BY <2>1 DEF seedVars, UndecidedIsDanced, Key
  <2>2. ASSUME NEW r \in Reqs, Call(r) PROVE UndecidedIsDanced'
    <3>1. /\ UNCHANGED bag
          /\ at[r] \notin Deciding
          /\ \A q \in Reqs \ {r} : Key(q)' = Key(q) /\ at'[q] = at[q]
      BY <2>2 DEF Call, Step, Deciding, Key
    <3> QED BY <3>1 DEF UndecidedIsDanced
  <2>3. ASSUME NEW r \in Reqs, Dance(r) PROVE UndecidedIsDanced'
    <3>1. /\ UNCHANGED call
          /\ \A q \in Reqs \ {r} : at'[q] = at[q]
      BY <2>3, DanceMoves
    <3>2. CASE UNCHANGED bag
      BY <2>3, <3>1, <3>2, LeadsToMark
      DEF UndecidedIsDanced, Key, MarkCached, MarkFailed
    <3>3. CASE Enter(r)
      <4>1. /\ Key(r) \in Sessions /\ at'[r] \in Deciding
            /\ \A k \in Sessions \ {Key(r)} : bag'[k] = bag[k]
        BY <3>3 DEF Enter, Step, Deciding, Placed, Dancing
      <4> QED BY <3>1, <4>1, <2>3, LeadsToMark
              DEF UndecidedIsDanced, Key, Enter, Deciding, Step
    <3>4. CASE MarkCached(r) \/ MarkFailed(r)
      <4>1. /\ Key(r) \in Sessions /\ bag'[Key(r)] # "uncached"
            /\ \A k \in Sessions \ {Key(r)} : bag'[k] = bag[k]
        BY <3>4 DEF MarkCached, MarkFailed, Step, Placed, Dancing
      <4> QED BY <3>1, <4>1 DEF UndecidedIsDanced, Key
    <3> QED BY <2>3, <3>2, <3>3, <3>4, BagWriters
  <2>4. ASSUME NEW k \in Sessions, EvictSeed(k) PROVE UndecidedIsDanced'
    BY <2>4 DEF EvictSeed, UndecidedIsDanced, Key
  <2> QED BY <2>1, <2>2, <2>3, <2>4 DEF SeedNext, AllServed
<1>3. UndecidedIsDanced => EveryFamilyDecided
  BY DEF UndecidedIsDanced, EveryFamilyDecided, Deciding
<1> QED BY <1>1, <1>2, <1>3, SeedTypedAlways, PTL DEF SeedSpec
-----------------------------------------------------------------------------
(***************************************************************************)
(* Slots, where no slot is handed to two prepares at once.  The dance      *)
(* looks at its slot once, at the gate; what it found stays true to the    *)
(* save because nobody else starts anything there meanwhile.  A request    *)
(* being served keeps decoding while its slot is already the next one's,   *)
(* so that the gate's look is needed all the same.                         *)
(***************************************************************************)

Decoding == {"prefilling", "serving"}

\* Where the dance has passed its slot gate and relies on the idle slot.
Watched == {"sight", "restore", "enter", "prefill", "confirm", "save", "write"}

Alone == \A q, r \in Reqs :
             at[q] \in Holding /\ at[r] \in Holding /\ Slot(q) = Slot(r) => q = r

Busy == \A i \in SlotIds, q \in Reqs :
            processing[i] = q <=> (Slot(q) = i /\ at[q] \in Decoding)

Still == \A r \in Reqs : at[r] \in Watched => Idle(Slot(r))

SlotInv == Alone /\ Busy /\ Still

\* What a step of prepare does to the backend: it begins to decode on its
\* slot, ends what it decodes, or works on its slot with no decode of its own.
LEMMA DanceOnServer ==
    ASSUME SeedTyped, NEW r \in Reqs, Dance(r)
    PROVE  \/ /\ StartDecode(Slot(r), r)
              /\ at[r] \in Holding \ Decoding /\ at'[r] \in Decoding
           \/ /\ EndDecode(r)
              /\ at[r] \in Decoding /\ at'[r] \notin Decoding
              /\ at'[r] \in Watched => at[r] = "prefilling"
           \/ /\ UNCHANGED processing
              /\ at[r] \in Holding \ Decoding /\ at'[r] \notin Decoding
              /\ at'[r] \in Watched => at[r] \in Watched \/ Idle(Slot(r))
              /\ \/ UNCHANGED kv
                 \/ \E c \in Contents : kv' = [kv EXCEPT ![Slot(r)] = c]
<1> USE DEF Step, Dancing, Holding, Results, Decoding, Watched, serverVars,
            SeedTyped, SeedTypeOK
<1>1. CASE SlotGate(r) \/ Sight(r) \/ Enter(r)
  BY <1>1 DEF SlotGate, Sight, Enter
<1>2. CASE RestoreSeed(r)
  BY <1>2 DEF RestoreSeed, LoadSlot, Loadable, Contents, Placed, DirTypeOK, Files
<1>3. CASE PrefillStart(r) \/ PrefillEnd(r) \/ PrefillLost(r) \/ PrefillError(r)
  BY <1>3 DEF PrefillStart, PrefillEnd, PrefillLost, PrefillError
<1>4. CASE Confirm(r) \/ ConfirmError(r)
  BY <1>4 DEF Confirm, ConfirmError
<1>5. CASE SaveSeedStart(r) \/ SaveSeedEnd(r) \/ SaveSeedError(r)
  BY <1>5 DEF SaveSeedStart, SaveSeedEnd, SaveSeedError
<1>6. CASE PublishSeed(r) \/ PublishSeedError(r) \/ MarkCached(r) \/ MarkFailed(r)
  BY <1>6 DEF PublishSeed, PublishSeedError, MarkCached, MarkFailed
<1>7. CASE Serve(r) \/ Served(r)
  BY <1>7 DEF Serve, Served
<1> QED BY <1>1, <1>2, <1>3, <1>4, <1>5, <1>6, <1>7 DEF Dance

\* A call takes a slot nobody holds, and disturbs nobody who does.
LEMMA CallKeepsSlots ==
    ASSUME ~SharedSlots, SeedTyped, SlotInv, NEW r \in Reqs, Call(r)
    PROVE  SlotInv'
<1>1. PICK k \in Sessions \cup {None}, i \in SlotIds :
          /\ ~InUse(i)
          /\ call' = [call EXCEPT ![r] = [key |-> k, slot |-> i]]
          /\ at[r] = "new"
          /\ at' = [at EXCEPT ![r] = IF k = None THEN "skipped" ELSE "slotGate"]
  BY DEF Call, Step
<1>2. /\ UNCHANGED <<kv, processing>>
      /\ Slot(r)' = i
      /\ at'[r] \notin Decoding \cup Watched
      /\ \A q \in Reqs \ {r} : Slot(q)' = Slot(q) /\ at'[q] = at[q]
  BY <1>1 DEF Call, serverVars, Slot, SeedTyped, SeedTypeOK, Decoding, Watched
<1>3. \A q \in Reqs : at[q] \in Holding => Slot(q) # i
  BY <1>1 DEF InUse, Holding, Dancing, Results
<1>4. Alone'
  BY <1>2, <1>3 DEF SlotInv, Alone
<1>5. Busy'
  BY <1>1, <1>2 DEF SlotInv, Busy, Decoding
<1>6. Still'
  BY <1>2 DEF SlotInv, Still, Idle
<1> QED BY <1>4, <1>5, <1>6 DEF SlotInv

\* A step of prepare keeps to its slot.
LEMMA DanceKeepsSlots ==
    ASSUME SeedTyped, SlotInv, NEW r \in Reqs, Dance(r)
    PROVE  SlotInv'
<1>1. /\ UNCHANGED call
      /\ \A q \in Reqs : Slot(q)' = Slot(q)
      /\ \A q \in Reqs \ {r} : at'[q] = at[q]
      /\ at'[r] \in Holding => at[r] \in Holding
      /\ Slot(r) \in SlotIds
  BY DanceMoves
  DEF Slot, SeedTyped, SeedTypeOK, Placed, Holding, Dancing, Results
<1>2. /\ processing \in [SlotIds -> Reqs \cup {None}]
      /\ \A q \in Reqs : at[q] \in Watched => Slot(q) \in SlotIds /\ at[q] \in Holding
      /\ None \notin Reqs
  BY NoneAssumption
  DEF SeedTyped, SeedTypeOK, ServerTypeOK, Placed, Watched, Holding, Dancing
<1>3. Alone'
  BY <1>1 DEF SlotInv, Alone
<1>4. Busy'
  BY <1>1, <1>2, DanceOnServer DEF SlotInv, Busy, StartDecode, EndDecode, Idle
<1>5. Still'
  <2>1. CASE StartDecode(Slot(r), r) /\ at[r] \in Holding /\ at'[r] \in Decoding
    BY <1>1, <1>2, <2>1
    DEF SlotInv, Alone, Still, StartDecode, Idle, Decoding, Watched
  <2>2. CASE EndDecode(r) /\ (at'[r] \in Watched => at[r] = "prefilling")
    BY <1>1, <1>2, <2>2 DEF SlotInv, Busy, Still, EndDecode, Idle, Decoding
  <2>3. CASE UNCHANGED processing /\ (at'[r] \in Watched =>
                                          at[r] \in Watched \/ Idle(Slot(r)))
    BY <1>1, <1>2, <2>3 DEF SlotInv, Still, Idle
  <2> QED BY <2>1, <2>2, <2>3, DanceOnServer
<1> QED BY <1>3, <1>4, <1>5 DEF SlotInv

LEMMA SlotsKept ==
    ASSUME ~SharedSlots
    PROVE  SeedSpec => [](SeedTyped /\ SlotInv)
<1>1. SeedInit => SlotInv
  BY NoneAssumption
  DEF SeedInit, ServerInit, SlotInv, Alone, Busy, Still, Holding, Dancing,
      Results, Decoding, Watched
<1>2. SeedTyped /\ SlotInv /\ [SeedNext]_seedVars => SlotInv'
  <2> SUFFICES ASSUME SeedTyped, SlotInv, [SeedNext]_seedVars PROVE SlotInv'
    OBVIOUS
  <2>1. CASE UNCHANGED <<processing, at, call>>
    BY <2>1 DEF SlotInv, Alone, Busy, Still, Slot, Idle
  <2> QED
    BY <2>1, CallKeepsSlots, DanceKeepsSlots
    DEF SeedNext, EvictSeed, AllServed, seedVars, serverVars
<1> QED BY <1>1, <1>2, SeedTypedAlways, PTL DEF SeedSpec

\* R3 of the seed dance: no restore and no save is issued onto a slot that is
\* processing, whatever was served there before and whichever calls fail.
THEOREM NothingIssuedOnProcessing ==
    ASSUME ~SharedSlots
    PROVE  SeedSpec => []NothingOnProcessing
<1>1. SlotInv => NothingOnProcessing
  BY DEF SlotInv, Still, NothingOnProcessing, Watched
<1> QED BY <1>1, SlotsKept, PTL

-----------------------------------------------------------------------------
(***************************************************************************)
(* Seeds.  What the dance prefilled stays in its slot until it is written, *)
(* and a seed is KV of a request of its family, in the scratch file and in *)
(* the blob.                                                               *)
(***************************************************************************)
Landed ==
    \A r \in Reqs :
        /\ at[r] \in {"prefilling", "save", "write"} => kv[Slot(r)] = r
        /\ at[r] = "confirm" => kv[Slot(r)] \in {r, Empty}

\* A file's content is a request's of family k, if it is a request's at all.
SeedOf(file, k) == file \in Reqs => at[file] # "new" /\ Key(file) = k

SeedsOwned ==
    \A k \in Sessions : SeedOf(blob[k], k) /\ SeedOf(scratch[k], k)

SeedInv == Landed /\ SeedsOwned

\* A request that has been called keeps its family: content stays its own.
LEMMA FamiliesStay ==
    ASSUME SeedTyped, [SeedNext]_seedVars
    PROVE  \A q \in Reqs : at[q] # "new" => at'[q] # "new" /\ Key(q)' = Key(q)
<1> USE DEF SeedTyped, SeedTypeOK, Key
<1>1. ASSUME NEW r \in Reqs, Call(r)
      PROVE  /\ at[r] = "new"
             /\ \A q \in Reqs \ {r} : at'[q] = at[q] /\ call'[q] = call[q]
  BY <1>1 DEF Call, Step
<1>2. ASSUME NEW r \in Reqs, Dance(r)
      PROVE  UNCHANGED call /\ \A q \in Reqs : at[q] # "new" => at'[q] # "new"
  BY <1>2, DanceMoves
<1> QED BY <1>1, <1>2 DEF SeedNext, EvictSeed, AllServed, seedVars

\* How a prepare gets from its prefill to its save: only the confirmation
\* leads there, and only with the slot's position beyond 0.  A prefill that
\* landed nothing leads to the confirmation only on an empty slot.
LEMMA DanceLands ==
    ASSUME SeedTyped, "lostUsed" \notin SeedFaults, NEW r \in Reqs, Dance(r)
    PROVE  /\ at'[r] = "prefilling" => kv' = [kv EXCEPT ![Slot(r)] = r]
           /\ at'[r] = "confirm" => /\ UNCHANGED kv
                                    /\ \/ at[r] = "prefilling"
                                       \/ kv[Slot(r)] = Empty
           /\ at'[r] = "save" =>
                  at[r] = "confirm" /\ kv[Slot(r)] # Empty /\ UNCHANGED kv
           /\ at'[r] = "write" => at[r] = "save" /\ UNCHANGED kv
<1> USE DEF Step, Results, serverVars, SeedTyped, SeedTypeOK
<1>1. CASE SlotGate(r) \/ Sight(r) \/ RestoreSeed(r) \/ Enter(r)
  BY <1>1 DEF SlotGate, Sight, RestoreSeed, Enter
<1>2. CASE PrefillStart(r) \/ PrefillEnd(r) \/ PrefillLost(r) \/ PrefillError(r)
  BY <1>2 DEF PrefillStart, PrefillEnd, PrefillLost, PrefillError, StartDecode,
              EndDecode
<1>3. CASE Confirm(r) \/ ConfirmError(r)
  BY <1>3 DEF Confirm, ConfirmError
<1>4. CASE SaveSeedStart(r) \/ SaveSeedEnd(r) \/ SaveSeedError(r)
  BY <1>4 DEF SaveSeedStart, SaveSeedEnd, SaveSeedError
<1>5. CASE PublishSeed(r) \/ PublishSeedError(r) \/ MarkCached(r) \/ MarkFailed(r)
  BY <1>5 DEF PublishSeed, PublishSeedError, MarkCached, MarkFailed
<1>6. CASE Serve(r) \/ Served(r)
  BY <1>6 DEF Serve, Served
<1> QED BY <1>1, <1>2, <1>3, <1>4, <1>5, <1>6 DEF Dance

\* A step of prepare keeps what others have prefilled on their slots.
LEMMA DanceKeepsLanded ==
    ASSUME SeedTyped, SlotInv, Landed, "lostUsed" \notin SeedFaults,
           NEW r \in Reqs, Dance(r)
    PROVE  Landed'
<1>1. /\ \A q \in Reqs : Slot(q)' = Slot(q)
      /\ \A q \in Reqs \ {r} : at'[q] = at[q]
      /\ Slot(r) \in SlotIds
      /\ kv \in [SlotIds -> Contents]
  BY DanceMoves
  DEF Slot, SeedTyped, SeedTypeOK, ServerTypeOK, Placed, Holding, Dancing, Results
<1>2. /\ at'[r] \in {"prefilling", "save", "write"} => kv'[Slot(r)] = r
      /\ at'[r] = "confirm" => kv'[Slot(r)] \in {r, Empty}
  BY <1>1, DanceLands DEF Landed
<1>3. ASSUME NEW q \in Reqs \ {r},
             at[q] \in {"prefilling", "confirm", "save", "write"}
      PROVE  kv'[Slot(q)] = kv[Slot(q)]
  <2>1. at[q] \in Holding /\ Slot(q) \in SlotIds
    BY <1>3 DEF Holding, Dancing, SeedTyped, Placed
  <2>2. at[r] \in Holding => Slot(q) # Slot(r)
    BY <2>1 DEF SlotInv, Alone
  <2>3. UNCHANGED kv \/ (at[r] \in Holding /\
                          \E c \in Contents : kv' = [kv EXCEPT ![Slot(r)] = c])
    BY DanceOnServer DEF StartDecode, EndDecode, Contents
  <2> QED BY <1>1, <2>1, <2>2, <2>3
<1> QED BY <1>1, <1>2, <1>3 DEF Landed

\* What prepare writes is what it prefilled.
LEMMA DanceKeepsSeeds ==
    ASSUME SeedTyped, SeedInv, NEW r \in Reqs, Dance(r)
    PROVE  SeedsOwned'
<1>1. \A k \in Sessions : \A f : SeedOf(f, k) => SeedOf(f, k)'
  BY FamiliesStay DEF SeedNext, SeedOf
<1>2. /\ DirTypeOK
      /\ at[r] \in Dancing => Key(r) \in Sessions
      /\ {Torn, None} \cap Reqs = {}
  BY NoneAssumption, TornAssumption DEF SeedTyped, SeedTypeOK, Placed
<1>3. CASE UNCHANGED dirVars
  BY <1>1, <1>3 DEF SeedInv, SeedsOwned, dirVars
<1>4. CASE SaveSeedStart(r)
  BY <1>1, <1>2, <1>4
  DEF SaveSeedStart, OpenScratch, SeedInv, SeedsOwned, SeedOf, DirTypeOK
<1>5. CASE SaveSeedEnd(r)
  <2>1. /\ Key(r) \in Sessions
        /\ CloseScratch(Key(r), r)
        /\ SeedOf(r, Key(r))
    BY <1>2, <1>5 DEF SaveSeedEnd, Step, SeedInv, Landed, Dancing, SeedOf
  <2> QED BY <1>1, <1>2, <2>1 DEF CloseScratch, SeedInv, SeedsOwned, DirTypeOK
<1>6. CASE PublishSeed(r)
  BY <1>1, <1>2, <1>6
  DEF PublishSeed, RenameScratch, SeedInv, SeedsOwned, SeedOf, DirTypeOK
<1> QED
  BY <1>3, <1>4, <1>5, <1>6
  DEF Dance, SlotGate, Sight, RestoreSeed, Enter, PrefillStart, PrefillEnd,
      PrefillLost, PrefillError, Confirm, ConfirmError, SaveSeedError,
      PublishSeedError, MarkCached, MarkFailed, Serve, Served

LEMMA SeedsKept ==
    ASSUME ~SharedSlots, "lostUsed" \notin SeedFaults
    PROVE  SeedSpec => [](SeedTyped /\ SeedInv)
<1>1. SeedInit => SeedInv
  BY NoneAssumption
  DEF SeedInit, DirInit, SeedInv, Landed, SeedsOwned, SeedOf
<1>2. SeedTyped /\ SlotInv /\ SeedInv /\ [SeedNext]_seedVars => SeedInv'
  <2> SUFFICES ASSUME SeedTyped, SlotInv, SeedInv, [SeedNext]_seedVars
               PROVE  SeedInv'
    OBVIOUS
  <2>1. \A k \in Sessions : \A f : SeedOf(f, k) => SeedOf(f, k)'
    BY FamiliesStay DEF SeedOf
  <2>2. CASE UNCHANGED seedVars
    BY <2>2 DEF seedVars, serverVars, dirVars, SeedInv, Landed, SeedsOwned,
                SeedOf, Slot, Key
  <2>3. ASSUME NEW r \in Reqs, Call(r) PROVE SeedInv'
    <3>1. /\ at'[r] \in {"skipped", "slotGate"}
          /\ \A q \in Reqs \ {r} : Slot(q)' = Slot(q) /\ at'[q] = at[q]
          /\ UNCHANGED <<kv, dirVars>>
      BY <2>3 DEF Call, Step, Slot, SeedTyped, SeedTypeOK, serverVars
    <3> QED BY <2>1, <3>1 DEF SeedInv, Landed, SeedsOwned, dirVars
  <2>4. ASSUME NEW r \in Reqs, Dance(r) PROVE SeedInv'
    BY <2>4, DanceKeepsLanded, DanceKeepsSeeds DEF SeedInv
  <2>5. ASSUME NEW k \in Sessions, EvictSeed(k) PROVE SeedInv'
    BY <2>1, <2>5, NoneAssumption
    DEF EvictSeed, Remove, serverVars, SeedInv, Landed, SeedsOwned, SeedOf, Slot
  <2> QED BY <2>2, <2>3, <2>4, <2>5 DEF SeedNext, AllServed
<1> QED BY <1>1, <1>2, SlotsKept, PTL DEF SeedSpec

\* "Never saves an unconfirmed position": from the confirmation to the end of
\* the write the slot holds what the request of this very dance prefilled,
\* not nothing and not another request's KV, if no prefill is lost on a used
\* slot.
THEOREM ConfirmedSaved ==
    ASSUME ~SharedSlots, "lostUsed" \notin SeedFaults
    PROVE  SeedSpec => []ConfirmedIsSaved
<1>1. SeedInv => ConfirmedIsSaved
  BY DEF SeedInv, Landed, ConfirmedIsSaved
<1> QED BY <1>1, SeedsKept, PTL

\* A family's blob is KV of a request of that family, through any number of
\* dances at once, failures and evictions, if no prefill is lost on a used
\* slot.
THEOREM SeedsAreTheFamilys ==
    ASSUME ~SharedSlots, "lostUsed" \notin SeedFaults
    PROVE  SeedSpec => []SeedOwner
<1>1. SeedInv => SeedOwner
  BY DEF SeedInv, SeedsOwned, SeedOf, SeedOwner
<1> QED BY <1>1, SeedsKept, PTL
=============================================================================
