------------------------ MODULE MCConditionalLedger ------------------------
(* Small instances of ConditionalLedger for TLC.                           *)
EXTENDS LedgerTaught, TLC

CONSTANTS alice, bob, book

(* Holders outside the protocol are interchangeable.                       *)
Holders == Permutations(Accounts \ Protocol)

(* No amount is below the floor, as in the vault that is taught.           *)
ASSUME FloorAssumption == FloorsTaught

=============================================================================
