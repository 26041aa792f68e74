------------------------------ MODULE MCQuota -------------------------------
(***************************************************************************)
(* One session with all four kinds of file and a second one with a blob:   *)
(* orphans, pairs, leftovers and LRU order in every combination.           *)
(***************************************************************************)
EXTENDS Quota, TLC

AllKinds == {<<"a", "bin">>, <<"a", "bin.ckpt">>, <<"a", "save">>,
             <<"a", "save.ckpt">>, <<"b", "bin">>}

\* Sidecars are the larger half, as measured (src/lib.rs, quota_tests).
SidecarsLarger(n) == IF IsSidecar(n) THEN 2 ELSE 1
SumOfSizes(files) == MapThenSumSet(SidecarsLarger, files)
=============================================================================
