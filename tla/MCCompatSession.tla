---- MODULE MCCompatSession ----
(* A chain of four blocks with a fork at its start; two announcements may be held. *)
EXTENDS CompatSession

MCBlocks == 0..5
MCParent == [b \in 1..5 |-> CASE b = 1 -> 0 [] b = 2 -> 1 [] b = 3 -> 2 [] b = 4 -> 3 [] b = 5 -> 0]
MCRuntimes == 1..5
MCRuntimeMaps ==
    {f \in [MCBlocks -> MCRuntimes] : \A b \in 1..5 : f[b] >= f[MCParent[b]]}

(* The descriptors for 2 and 3 fit their own runtimes only; those for 4 fit 3. *)
MCCompatible == {<<2, 2>>, <<3, 3>>, <<4, 3>>}
====
