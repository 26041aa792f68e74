------------------------------ MODULE Register -------------------------------
(***************************************************************************)
(* What publishing promises a session, with no word of scratch files,      *)
(* sidecars, fsync or directories: a register that holds one complete      *)
(* state or none.  Losing power goes back to a value that may already be   *)
(* on the disk; once synced, that can only be the current one.             *)
(***************************************************************************)
CONSTANTS Values, Absent

VARIABLES
    value,   \* what a reader finds
    durable  \* what it may find after a power loss

Init == value = Absent /\ durable = {Absent}

Put(v) == value' = v /\ durable' = durable \cup {v}

Sync == durable' = {value} /\ UNCHANGED value

PowerLoss == \E v \in durable : value' = v /\ durable' = {v}

Next == (\E v \in Values \cup {Absent} : Put(v)) \/ Sync \/ PowerLoss

Spec == Init /\ [][Next]_<<value, durable>>
=============================================================================
