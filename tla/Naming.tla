-------------------------------- MODULE Naming -------------------------------
(***************************************************************************)
(* Which file a conversation's KV is kept in (src/lib.rs): session_key     *)
(* names the conversation, sanitize makes a file name of what a client     *)
(* sent, serve reads the backend's signature when the proxy starts, and    *)
(* blob_name joins the two.  Blobs outlive both processes, so what decides *)
(* is how names of different runs relate.                                  *)
(*                                                                         *)
(* Strings that are taken apart are sequences; a hash is its input, i.e.   *)
(* SHA-256 is taken not to collide at the lengths kept.                    *)
(***************************************************************************)
EXTENDS Integers, Sequences, FiniteSets, FiniteSetsExt, SequencesExt

CONSTANTS
    Requests,  \* what clients send: a header, <<>> if absent, a system prompt,
               \* a turn, and, known to the client alone, of which conversation
    Backends,  \* backends: the characters of what /props says of each field, and
               \* of what else the layout of their KV depends on
    Cap,       \* the length names are cut to
    Upsets,    \* "alone": backends change under a running proxy;
               \* "unanswered": a starting proxy may get no answer
    MaxBlobs   \* files the quota leaves

ASSUME RequestsAssumption == \A r \in Requests : r.header \in Seq(STRING)
ASSUME CapAssumption == Cap \in Nat \ {0}
ASSUME UpsetsAssumption == Upsets \subseteq {"alone", "unanswered"}
ASSUME MaxBlobsAssumption == MaxBlobs \in Nat \ {0}

VARIABLES
    backend,  \* the backend that runs
    sig,      \* the signature the proxy read when it started
    request,  \* the request being named
    out,      \* its header, as far as sanitize got
    pc,       \* where naming is: "idle", "collapse" or "keyed"
    blobs     \* the files: their names, who wrote them, under which backend

vars == <<backend, sig, request, out, pc, blobs>>

(***************************************************************************)
(* sanitize.  A header that is not visible ASCII is not read at all.       *)
(***************************************************************************)
Opaque == "o"
Safe == {"a", "b", ".", "_", "-"}  \* two letters for all alphanumerics
Default == <<"a">>                 \* "session", of which nothing else is known

Readable(r) == r.header # <<>> /\ ~Contains(r.header, Opaque)

\* Of clients: a conversation keeps its header and, when none is read, its
\* system prompt ("Hermes keeps its system prompt byte-stable for the life of
\* a conversation").
ASSUME ConversationsAssumption ==
    \A q, r \in Requests :
        q.conv = r.conv =>
            q.header = r.header /\ (Readable(q) \/ q.prompt = r.prompt)

MapChars(s) == [i \in DOMAIN s |-> IF s[i] \in Safe THEN s[i] ELSE "-"]

HasPair(s) == \E i \in 1..(Len(s) - 1) : s[i] = "." /\ s[i + 1] = "."

\* The characters of s at the places of I: the k-th is where I has k places.
Rank(I, i) == Cardinality({j \in I : j <= i})
Place(I, k) == CHOOSE i \in I : Rank(I, i) = k
Keep(s, I) == [k \in 1..Cardinality(I) |-> s[Place(I, k)]]

\* replace("..", "."): from the left and not overlapping, every second dot
\* of a run goes.
DotsAt(s, i) == i - Max({0} \cup {j \in 1..i : s[j] # "."})
Odds(s) == {i \in DOMAIN s : s[i] = "." => DotsAt(s, i) % 2 = 1}
ReplacePairs(s) == Keep(s, Odds(s))

TruncateShort(s) == SubSeq(s, 1, IF Len(s) < Cap THEN Len(s) ELSE Cap - 1)
Truncate(s) == SubSeq(s, 1, IF Len(s) < Cap THEN Len(s) ELSE Cap)

(***************************************************************************)
(* Keys, signatures and names.                                             *)
(***************************************************************************)

\* The system messages alone are hashed: not the turn.
KeyOfAllMessages(r, text) ==
    IF Readable(r) THEN <<"hdr", text>> ELSE <<"conv", <<r.prompt, r.turn>>>>
SessionKey(r, text) ==
    IF Readable(r) THEN <<"hdr", text>> ELSE <<"conv", r.prompt>>

\* serve: the values that are there, one after the other.
Fields == {"model_path", "total_slots", "n_ctx", "chat_template",
           "add_bos_token", "bos_token"}
Value(props, f) == IF f \in DOMAIN props THEN props[f] ELSE <<>>
Signature(props) ==
    Value(props, "model_path") \o Value(props, "total_slots")
    \o Value(props, "n_ctx") \o Value(props, "chat_template")
    \o Value(props, "add_bos_token") \o Value(props, "bos_token")

ASSUME BackendsAssumption ==
    \A b \in Backends : \A f \in Fields : Value(b, f) \in Seq(STRING)

BlobNameUnsigned(key, s) == key
BlobName(key, s) == <<key, s>>

(***************************************************************************)
(* The machine.                                                            *)
(***************************************************************************)
Init ==
    /\ backend \in Backends
    /\ sig = Signature(backend)
    /\ request \in Requests /\ out = <<>> /\ pc = "idle"
    /\ blobs = {}

Arrive(r) ==
    /\ pc = "idle"
    /\ request' = r
    /\ IF Readable(r)
       THEN out' = MapChars(r.header) /\ pc' = "collapse"
       ELSE out' = <<>> /\ pc' = "keyed"
    /\ UNCHANGED <<backend, sig, blobs>>

Collapse ==
    /\ pc = "collapse" /\ HasPair(out)
    /\ out' = ReplacePairs(out)
    /\ UNCHANGED <<backend, sig, request, pc, blobs>>

ShortenAnyway ==
    /\ pc = "collapse"
    /\ out' = (IF out = <<>> THEN Default ELSE Truncate(out))
    /\ pc' = "keyed"
    /\ UNCHANGED <<backend, sig, request, blobs>>
Shorten ==
    /\ pc = "collapse" /\ ~HasPair(out)
    /\ out' = (IF out = <<>> THEN Default ELSE Truncate(out))
    /\ pc' = "keyed"
    /\ UNCHANGED <<backend, sig, request, blobs>>

Name == BlobName(SessionKey(request, out), sig)

\* The turn is saved, in place of what the file held.
Save ==
    /\ pc = "keyed"
    /\ LET others == {b \in blobs : b.name # Name} IN
           /\ Cardinality(others) < MaxBlobs
           /\ blobs' = others \cup {[name |-> Name, by |-> request, under |-> backend]}
    /\ pc' = "idle"
    /\ UNCHANGED <<backend, sig, request, out>>

Evict ==
    /\ \E b \in blobs : blobs' = blobs \ {b}
    /\ UNCHANGED <<backend, sig, request, out, pc>>

\* The proxy starts, with its backend or with another; or the backend alone
\* is replaced, and the turn fails.
Start(b) ==
    /\ backend' = b
    /\ sig' \in {Signature(b)}
               \cup (IF "unanswered" \in Upsets THEN {Signature(<<>>)} ELSE {})
               \cup (IF "alone" \in Upsets THEN {sig} ELSE {})
    /\ pc' = "idle" /\ out' = <<>>
    /\ UNCHANGED <<request, blobs>>

Next ==
    \/ \E r \in Requests : Arrive(r)
    \/ Collapse \/ Shorten \/ Save \/ Evict
    \/ \E b \in Backends : Start(b)

Spec == Init /\ [][Next]_vars

-----------------------------------------------------------------------------
(***************************************************************************)
(* What holds.                                                             *)
(***************************************************************************)

\* Every run of dots down to its first.
Firsts(s) == {i \in DOMAIN s : i = 1 \/ s[i] # "." \/ s[i - 1] # "."}
Collapsed(s) == Keep(s, Firsts(s))
Canonical(s) == Truncate(Collapsed(MapChars(s)))

\* "A safe filename component (no '/', no '..', length-capped)": and what is
\* left is the header with every run of dots down to one, cut.
SafeNames ==
    pc = "keyed" /\ Readable(request) =>
        /\ Len(out) \in 1..Cap
        /\ \A i \in DOMAIN out : out[i] \in Safe
        /\ ~HasPair(out)
        /\ out = Canonical(request.header)

\* A header that is a safe name as it stands.
Plain(r) == /\ Readable(r) /\ \A i \in DOMAIN r.header : r.header[i] \in Safe
            /\ ~HasPair(r.header) /\ Len(r.header) <= Cap

\* Requests whose clients have told them apart: one by header, one by system
\* prompt; by different headers that are safe names; by different prompts.
Distinct(q, r) ==
    \/ ~(Readable(q) <=> Readable(r))
    \/ Plain(q) /\ Plain(r) /\ q.header # r.header
    \/ ~Readable(q) /\ ~Readable(r) /\ q.prompt # r.prompt

Found == {b \in blobs : pc = "keyed" /\ b.name = Name}

\* "Distinct conversations differ in system prompt ... and stay isolated":
\* however sanitize maps, collapses and cuts, and whatever restarts, no
\* request finds a file of one its client has told apart from it.
Isolation == \A b \in Found : ~Distinct(b.by, request)

\* What the code does not give: clients that do not tell two conversations
\* apart, by one system prompt or by headers that sanitize merges, have them
\* share a file.
OwnConversation == \A b \in Found : b.by.conv = request.conv

SameOn(fields, a, b) == \A f \in fields : Value(a, f) = Value(b, f)

\* "Mismatch means cold prefill, always": no file is found that was saved
\* under a backend with another value of one of the fields.  (Two values may
\* change such that joined, with nothing between them, they read the same.)
BackendApart ==
    \A b \in Found : \A f \in Fields :
        SameOn(Fields \ {f}, b.under, backend) => Value(b.under, f) = Value(backend, f)

\* "Every turn of one conversation maps to the same session": whatever
\* restarted meanwhile, a turn finds the file of its conversation, saved
\* under a backend with the same values, however the conversation has grown.
Sticky ==
    \A b \in blobs :
        /\ pc = "keyed"
        /\ b.by.conv = request.conv /\ SameOn(Fields, b.under, backend)
        => b \in Found

\* "A blob saved under one backend can never restore into another": not into
\* one with another model, number of slots, context, cache types, template or
\* draft configuration.
Layout == Fields \cup {"cache_type", "draft"}
CompatGate == \A b \in Found : SameOn(Layout, b.under, backend)
=============================================================================
