-------------------------- MODULE MCBaselineVault --------------------------
(* A small instance of BaselineVault and its tickets for TLC.              *)
EXTENDS BaselineTicket, TLC

CONSTANTS alice, bob, book, unread

(* Holders outside the protocol are interchangeable.                       *)
Holders == Permutations(Accounts \ Protocol)

=============================================================================
