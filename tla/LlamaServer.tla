----------------------------- MODULE LlamaServer -----------------------------
(***************************************************************************)
(* llama-server (external), as src/backend.rs uses it: slots with a KV     *)
(* memory each.  A task for a processing slot is deferred by the server    *)
(* until the slot is idle.                                                 *)
(***************************************************************************)
EXTENDS ProxyTypes

VARIABLES
    kv,         \* what each slot's memory holds
    processing  \* the turn each slot is decoding, None when idle

serverVars == <<kv, processing>>

ServerTypeOK ==
    /\ kv \in [SlotIds -> Contents]
    /\ processing \in [SlotIds -> Reqs \cup {None}]

ServerInit ==
    /\ kv = [i \in SlotIds |-> Empty]
    /\ processing = [i \in SlotIds |-> None]

Idle(i) == processing[i] = None

\* GET /slots: the ids reported as is_processing.
Processing == {i \in SlotIds : ~Idle(i)}

\* Decoding turn r overwrites whatever of the slot's KV is not its prefix.
StartDecode(i, r) ==
    /\ Idle(i)
    /\ kv' = [kv EXCEPT ![i] = r]
    /\ processing' = [processing EXCEPT ![i] = r]

\* Turn r is over, finished or cancelled; its KV stays behind.
EndDecode(r) ==
    /\ r \in {processing[i] : i \in SlotIds}
    /\ processing' = [i \in SlotIds |->
                         IF processing[i] = r THEN None ELSE processing[i]]
    /\ UNCHANGED kv

LoadSlot(i, c) ==
    /\ kv' = [kv EXCEPT ![i] = c]
    /\ UNCHANGED processing

ServerRestart ==
    /\ kv' = [i \in SlotIds |-> Empty]
    /\ processing' = [i \in SlotIds |-> None]
=============================================================================
