-------------------------- MODULE MCLedgerCustody --------------------------
(* Small instances of LedgerCustody for TLC.                               *)
EXTENDS LedgerCustody, TLC

CONSTANTS alice, bob, book, v1, v2

(* Vaults, and holders outside the protocol, are interchangeable.          *)
Symmetry == Permutations(Accounts \ Protocol) \cup Permutations(Vaults)

=============================================================================
