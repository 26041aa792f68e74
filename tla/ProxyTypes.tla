----------------------------- MODULE ProxyTypes -----------------------------
(***************************************************************************)
(* The vocabulary the proxy's modules share.                               *)
(*                                                                         *)
(* A request is one chat turn of one session.  KV state (a llama.cpp slot, *)
(* a blob on disk) is abstracted to the turn that produced it: "the prefix *)
(* as it stood at the end of turn r".  Whose conversation a piece of KV    *)
(* belongs to is then the session of that turn.                            *)
(***************************************************************************)
EXTENDS Integers, FiniteSets

CONSTANTS
    Reqs,      \* the chat turns, each served once
    Sessions,  \* the session keys clients present
    SlotIds,   \* the backend's slot ids, listed by GET /slots in this order
    None,      \* absence: no session, no slot, no file
    Empty,     \* KV that belongs to nobody: a slot never used or just reset
    Torn       \* a file whose writing has begun and not ended

ASSUME SlotIdsAssumption == SlotIds \subseteq Nat
ASSUME NoneAssumption    == None \notin Reqs \cup Sessions \cup SlotIds
ASSUME EmptyAssumption   == Empty \notin Reqs \cup {None}
ASSUME TornAssumption    == Torn \notin Reqs \cup {None, Empty}

\* What a slot's memory, and hence a complete blob, can hold.
Contents == Reqs \cup {Empty}

\* What a path of the cache directory can hold.
Files == Contents \cup {Torn, None}
=============================================================================
