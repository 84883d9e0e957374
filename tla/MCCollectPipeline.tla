------------------------- MODULE MCCollectPipeline -------------------------
(* Instances of CollectPipeline for TLC. Time is counted in units of 500 ms. *)
EXTENDS CollectPipeline, TLC

CONSTANTS fast, slow, twin, busA, busB, w1, w2

MCDevice == {fast, slow, twin}

\* fast: 500 ms; slow and twin: no interval given, hence the default.
MCInterval == fast :> 1 @@ slow :> 0 @@ twin :> 0

UniqueNames == fast :> "fast" @@ slow :> "slow" @@ twin :> "twin"

\* Two buses: one with a fast and a slow device, one with a slow device only.
\* A pipeline may also be asked to start on an empty list.
MixedLists == {<<>>, <<fast, slow>>, <<twin>>}
LongLists  == {<<>>, <<fast, slow, twin>>, <<slow, fast>>}

Workers == Permutations({w1, w2})
=============================================================================
