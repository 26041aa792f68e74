---------------------------- MODULE SlotRegistry -----------------------------
(***************************************************************************)
(* App.slots: what oLLM believes about the backend's slots.  The code's    *)
(* HashMap has no entry for a slot until it is first seen and then inserts *)
(* { session: None, dirty: false }; an absent entry reads the same as that *)
(* one everywhere, so the map is total here.  SlotInfo.busy is written and *)
(* never read: it is left out.  Every operation runs under the map's mutex *)
(* and is one step.                                                        *)
(***************************************************************************)
EXTENDS ProxyTypes

VARIABLE slots

SlotInfo == [session : Sessions \cup {None}, dirty : BOOLEAN]

Unclaimed == [session |-> None, dirty |-> FALSE]

RegistryTypeOK == slots \in [SlotIds -> SlotInfo]

RegistryInit == slots = [i \in SlotIds |-> Unclaimed]

\* pick_slot 1: the slots session s is believed to live in.  Neither their
\* dirtiness nor what the backend is doing with them is looked at.
HotSlots(s) == {i \in SlotIds : slots[i].session = s}

\* The first id of a set, in the order the backend lists its slots.
IsFirst(i, S) == i \in S /\ \A j \in S : i <= j

\* pick_slot 2: neither processing (as last reported: seen) nor dirty.
FreeSlotsIgnoringDirty(seen) == SlotIds \ seen
FreeSlots(seen) == {i \in SlotIds \ seen : ~slots[i].dirty}

\* find_evictable: dirty slots that were not processing.
EvictableSlotsIgnoringSeen(seen) == {i \in SlotIds : slots[i].dirty}
EvictableSlots(seen) == {i \in SlotIds \ seen : slots[i].dirty}

MarkDirty(i, s) ==
    slots' = [slots EXCEPT ![i] = [session |-> s, dirty |-> TRUE]]

MarkCleanDoingNothing(i) == UNCHANGED slots
MarkClean(i) == slots' = [slots EXCEPT ![i].dirty = FALSE]

\* The turn ended: the slot is (again) this session's.
Claim(i, s) == slots' = [slots EXCEPT ![i].session = s]

\* The client hung up: what the slot holds is nobody's.
AbandonForgettingFlag(i) == slots' = [slots EXCEPT ![i].session = None]
AbandonNothing(i) == UNCHANGED slots
Abandon(i) == slots' = [slots EXCEPT ![i] = Unclaimed]
=============================================================================
