------------------------------ MODULE WriteGate ------------------------------
(***************************************************************************)
(* App.write_gate, a tokio RwLock<()> (external): R1's gate.  The matcher  *)
(* holds it shared, a publish holds it exclusively.  tokio queues waiters  *)
(* first-in first-out; here any waiter that may be admitted can be, a      *)
(* superset of those orders.                                               *)
(***************************************************************************)
EXTENDS ProxyTypes

VARIABLES
    readers,  \* requests that hold the gate shared
    writers   \* requests that hold it exclusively

gateVars == <<readers, writers>>

GateTypeOK == readers \subseteq Reqs /\ writers \subseteq Reqs

GateInit == readers = {} /\ writers = {}

CanShare == writers = {}

AcquireShared(r) ==
    /\ CanShare
    /\ readers' = readers \cup {r}
    /\ UNCHANGED writers

ReleaseShared(r) ==
    /\ readers' = readers \ {r}
    /\ UNCHANGED writers

AcquireExclusive(r) ==
    /\ writers = {}
    /\ readers = {}
    /\ writers' = {r}
    /\ UNCHANGED readers

ReleaseExclusive(r) ==
    /\ writers' = writers \ {r}
    /\ UNCHANGED readers

\* A guard goes out of scope, whichever it was and wherever that happened.
DropGuards(r) ==
    /\ readers' = readers \ {r}
    /\ writers' = writers \ {r}
=============================================================================
