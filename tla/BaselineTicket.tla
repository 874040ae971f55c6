-------------------------- MODULE BaselineTicket --------------------------
(***************************************************************************)
(* A Baseline vault and the ticket a client shows for a redemption from it *)
(* at any moment of the vault's life: the client computes the payout apart *)
(* from the chain, in its own arithmetic.                                  *)
(***************************************************************************)
EXTENDS BaselineVault, RedemptionQuote

(* What the chain pays a holder outside Protocol, as a ticket.             *)
PaidPair(a, rate, m) == Ticket(a, PairFee(a, score, rate, m))
PaidSide(side, a, rate, m) ==
    Ticket(SideValue(side, a), Fee(SideValue(side, a), rate, m))

(* What the settled vault can still pay out, and the calls that ask for it. *)
Payable    == IF state = "Settled" THEN 0 .. escrowed ELSE {}
Redeemable == Amounts \cap Payable

-----------------------------------------------------------------------------

(* A ticket read from the live rate and floor is what the chain then pays, *)
(* gross, fee and net, for a leg and for a pair; where the client refuses  *)
(* a rate outside its domain the chain would waive the fee.  The fee the   *)
(* explainer teaches is the fee the chain charges.                         *)
TicketExact ==
    \A a \in Redeemable, rate \in Rates, m \in MinSplits :
      LET quote(call, gross, s) ==
            quoteRedemption(call, gross, s, publishedBps(rate), rate, m)
          promised(paid) == IF RateRefused(rate) THEN Unavailable ELSE paid
      IN  /\ quote("redeem_baseline_pair", a, score) = promised(PaidPair(a, rate, m))
          /\ m > 0 => TaughtPairFee(a, score, rate, m) = PairFee(a, score, rate, m)
          /\ \A side \in Sides :
               quote("redeem_baseline", SideValue(side, a), Unread)
                 = promised(PaidSide(side, a, rate, m))

(* The threshold the client prints, found by bisection up to all the vault *)
(* holds, is the smallest payout the chain charges: it says "never" only   *)
(* when nothing is charged.                                                *)
ThresholdExact ==
    \A rate \in Rates, m \in MinSplits :
      LET charged   == {g \in Payable : Fee(g, rate, m) > 0}
          threshold == feeThreshold(publishedBps(rate), rate, m, escrowed)
      IN  state = "Settled" =>
            IF threshold.kind = "above"
            THEN /\ threshold.gross \in charged
                 /\ \A g \in charged : threshold.gross <= g
            ELSE charged = {}

QuoteExact == TicketExact /\ ThresholdExact

=============================================================================
