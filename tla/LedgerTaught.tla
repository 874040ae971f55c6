---------------------------- MODULE LedgerTaught ----------------------------
(***************************************************************************)
(* The chain's vault implements the vault the explainer teaches.  The      *)
(* taught supplies are the totals of the instruments; its counter of       *)
(* redemptions is a history variable of the chain's vault.                 *)
(***************************************************************************)
EXTENDS ConditionalLedger

VARIABLE redeemed    \* history: a redemption has been paid

Taught == INSTANCE TaughtVault WITH
            MinSplit <- KernelMinSplit,
            s <- score, gateOutcomes <- outcome, supply <- total

(* The taught vault has no call below its floor.  The chain has one: the   *)
(* market authority may split a set of any size.                           *)
FloorsTaught == \A a \in Amounts : a >= KernelMinSplit

RecordedInit == Init /\ redeemed = FALSE

RecordedNext ==
    \/ /\ Decide \/ SweepRedemptionFees \/ \E who \in Accounts, a \in Amounts : Trade(who, a)
       /\ redeemed' = redeemed
    \/ /\ \E who \in Accounts, a \in Amounts : Claim(who, a)
       /\ redeemed' = TRUE

RecordedSpec == RecordedInit /\ [][RecordedNext]_<<vars, redeemed>>

(* Every call the chain accepts, from any holder and at any fee, is a call *)
(* the taught vault accepts and has the payout and the effect on escrow,   *)
(* supplies and terms it shows; a transfer and a fee sweep leave it as it  *)
(* was.  Terms are therefore fixed once: no score, outcome or void is ever *)
(* written over.                                                           *)
ImplementsTaught == Taught!Spec

(* What checkConservation asserts of the taught vault holds of the chain's. *)
TaughtConserves == Taught!CheckConservation

=============================================================================
