-------------------------- MODULE MCEpochLifecycle --------------------------
(***************************************************************************)
(* Small instances of EpochLifecycle.                                      *)
(***************************************************************************)
EXTENDS EpochTaught

\* An epoch of four blocks: intake, qualification, seeding, and one for the
\* rest.  No guard asks for the Trade and Decide phases: a decision waits for
\* decideAt, and a settlement may come in the block of a late decision.
ShortStart == [f \in Phases |-> IF f <= Trade THEN f ELSE Trade]

\* The offsets of the source, 0, 1/7, 2/7, 3/7, 5/7 and 6/7 of the epoch, in
\* an epoch of seven blocks of three days.
DailyStart == [f \in Phases |-> IF f <= Trade THEN f ELSE f + 1]

=============================================================================
