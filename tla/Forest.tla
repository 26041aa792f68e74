------------------------------- MODULE Forest --------------------------------
(***************************************************************************)
(* What R1 and R2 promise of the prefix forest, with no word of scratch    *)
(* files, gates, slots or tasks: a store of complete KV states, one for    *)
(* each session at most.  Lookups see it settled: nothing is put into it   *)
(* while one goes on.  Evictions may happen at any time.                   *)
(***************************************************************************)
CONSTANTS Lookers, Keys, States, Absent

VARIABLES
    store,   \* the state kept for each key, or Absent
    looking  \* the lookups going on

Init == store = [k \in Keys |-> Absent] /\ looking = {}

BeginLookup(r) == looking' = looking \cup {r} /\ UNCHANGED store

EndLookups(gone) ==
    /\ gone # {} /\ gone \subseteq looking
    /\ looking' = looking \ gone
    /\ UNCHANGED store

Put(k, c) ==
    /\ looking = {}
    /\ store' = [store EXCEPT ![k] = c]
    /\ UNCHANGED looking

Evict(keys) ==
    /\ store' = [k \in Keys |-> IF k \in keys THEN Absent ELSE store[k]]
    /\ UNCHANGED looking

Next ==
    \/ \E r \in Lookers : BeginLookup(r)
    \/ \E gone \in SUBSET Lookers : EndLookups(gone)
    \/ \E k \in Keys, c \in States : Put(k, c)
    \/ \E keys \in SUBSET Keys : Evict(keys)

Spec == Init /\ [][Next]_<<store, looking>>
=============================================================================
