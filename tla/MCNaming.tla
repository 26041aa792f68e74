------------------------------ MODULE MCNaming -------------------------------
(* Small instances of Naming: headers over one letter, a dot, an unsafe and  *)
(* an opaque character, among them every short one and long runs of dots.    *)
EXTENDS Naming

Word(n) == [1..n -> {"a", ".", "/"}]
Runs == { <<".", ".", ".">>, <<".", ".", ".", ".">>, <<".", ".", ".", ".", "a">>,
          <<"a", ".", ".", ".", "a">>, <<".", ".", ".", ".", ".", ".", ".">>,
          <<"a", "b", "a">>, <<"a", "b", "_">>, <<"a", "b", "a", "b">>,
          <<"a", "b", "a", "a">>, <<"_", ".", "o">> }
Headers == Word(0) \cup Word(1) \cup Word(2) \cup Runs

\* With a header, or with a header that is not read, or with none: then one
\* conversation of two turns, another of the same system prompt, and one of
\* another.
Request(h, p, t, c) == [header |-> h, prompt |-> p, turn |-> t, conv |-> c]
SomeRequests ==
    { Request(h, "p", 1, <<"h">> \o h) : h \in Headers }
    \cup { Request(<<"a">>, "q", 2, <<"h", "a">>) }
    \cup { Request(<<>>, "p", t, <<"c1">>) : t \in 1..2 }
    \cup { Request(<<>>, "p", 1, <<"c2">>), Request(<<>>, "q", 1, <<"c3">>) }

Props(model, slots, ctx, cache) ==
    [model_path |-> <<model>>, total_slots |-> slots, n_ctx |-> ctx,
     chat_template |-> <<"t">>, cache_type |-> cache, draft |-> <<>>]

\* Another model, another number of slots, another context; and one whose
\* slots and context, joined, read as the first one's do.
Apart == { Props("m", <<"1">>, <<"1", "4">>, <<"f16">>),
           Props("n", <<"1">>, <<"1", "4">>, <<"f16">>),
           Props("m", <<"2">>, <<"1", "4">>, <<"f16">>),
           Props("m", <<"1">>, <<"4">>, <<"f16">>),
           Props("m", <<"1", "1">>, <<"4">>, <<"f16">>) }

\* Another cache type only.
Close == { Props("m", <<"1">>, <<"4">>, <<"f16">>), Props("m", <<"1">>, <<"4">>, <<"q8">>) }
=============================================================================
