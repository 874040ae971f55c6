---- MODULE MCLocalIndex ----
(* A browser with two tabs, three blocks and one operator. *)
EXTENDS LocalIndex, TLC

MCBlocks == 1..3
MCWatched == {1, 2}
MCEarlier == {2}
MCCharted == {1, 2}
MCFirstTier == (1 :> 0 @@ 2 :> 1)
MCSettled == {{1, 2}}
TabSymmetry == Permutations(Tabs)
====
