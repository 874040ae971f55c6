-------------------------- MODULE RedemptionQuote --------------------------
(***************************************************************************)
(* What a client says a redemption pays: the quote of the application      *)
(* (features/tx/redemption-ticket.ts over packages/protocol/redemption.ts) *)
(* and the fee the explainer teaches.  They compute again, from what they  *)
(* read, the fee that RedemptionFee charges on chain.                      *)
(*                                                                         *)
(* A reading is a value or Unread.  All readings of a quote are of one     *)
(* block (combine refuses a mixture); the wording of a refusal is left     *)
(* out.  The explainer's doubles are taken as exact.                       *)
(***************************************************************************)
EXTENDS RedemptionFee

CONSTANTS
    Bp,        \* perbillToBps: the inner scalars of one basis point
    Unread     \* a reading that was not made: undefined

ASSUME BpAssumption     == Bp \in Nat \ {0}
ASSUME UnreadAssumption == Unread \notin Nat

-----------------------------------------------------------------------------
(* packages/protocol/redemption.ts                                         *)

(* requireRate and requireScore: outside its domain a value is refused.    *)
RateRefused(rate) == rate > PerbillOne
ScoreRefused(s)   == s > Scale

ChargeUp(gross, rate) ==
    IF gross * rate = 0 THEN 0 ELSE (gross * rate - 1) \div PerbillOne + 1

redemptionFee(gross, rate, minSplit) ==
    LET fee == ChargeUp(gross, rate)
    IN  IF gross - fee < minSplit THEN 0 ELSE fee

pairLegs(a, s) == [long  |-> (a * s) \div Scale,
                   short |-> (a * (Scale - s)) \div Scale]

(* A faulty redemptionFeePair, for mutation: the short leg is what the     *)
(* long one leaves of the set.                                             *)
RemainderFeePair(a, s, rate, minSplit) ==
    LET long == pairLegs(a, s).long
    IN  redemptionFee(long, rate, minSplit) + redemptionFee(a - long, rate, minSplit)

redemptionFeePair(a, s, rate, minSplit) ==
    LET legs == pairLegs(a, s)
    IN  redemptionFee(legs.long, rate, minSplit) + redemptionFee(legs.short, rate, minSplit)

(* The smallest charged gross up to the ceiling, by bisection; Unread when *)
(* the ceiling itself is not charged.                                      *)
firstChargedGross(rate, minSplit, ceiling) ==
    LET charged(g) == redemptionFee(g, rate, minSplit) > 0
        search[p \in (0 .. ceiling) \X (0 .. ceiling)] ==
            LET waived == p[1]
                found  == p[2]
                mid    == (waived + found) \div 2
            IN  IF found - waived <= 1 THEN found
                ELSE IF charged(mid) THEN search[<<waived, mid>>]
                ELSE search[<<mid, found>>]
    IN  IF charged(ceiling) THEN search[<<0, ceiling>>] ELSE Unread

-----------------------------------------------------------------------------
(* features/tx/redemption-ticket.ts                                        *)

PairCalls    == {"redeem_scalar_pair", "redeem_baseline_pair"}
ChargedCalls == PairCalls \cup {"redeem_scalar", "redeem_gate", "redeem_baseline"}

perbillToBps(perbill) == perbill \div Bp

(* The pallet's constant RedemptionFee: the rate in force, floored to      *)
(* basis points.                                                           *)
publishedBps(rate) == EffectiveRedeemFee(rate) \div Bp

(* redemptionRateBlocks: both published forms of the rate and the floor    *)
(* are read, and the two forms agree to the basis point.                   *)
RateBlocked(bps, perbill, minSplit) ==
    \/ Unread \in {bps, perbill, minSplit}
    \/ perbillToBps(perbill) # bps

Unavailable         == [kind |-> "unavailable"]
Exempt(gross)       == [kind |-> "exempt", gross |-> gross]
Ticket(gross, fee)  == [kind |-> "charged", gross |-> gross, fee |-> fee, net |-> gross - fee]

(* A pair call needs the settlement score and any other refuses one.       *)
quoteRedemption(call, gross, score, bps, perbill, minSplit) ==
    IF call \notin ChargedCalls
    THEN IF score = Unread THEN Exempt(gross) ELSE Unavailable
    ELSE IF \/ RateBlocked(bps, perbill, minSplit)
            \/ RateRefused(perbill)
            \/ (score = Unread) = (call \in PairCalls)
         THEN Unavailable
    ELSE IF call \in PairCalls
         THEN IF ScoreRefused(score) THEN Unavailable
              ELSE Ticket(gross, redemptionFeePair(gross, score, perbill, minSplit))
    ELSE Ticket(gross, redemptionFee(gross, perbill, minSplit))

(* feeThreshold: the sentence on payouts that are not charged.             *)
feeThreshold(bps, perbill, minSplit, ceiling) ==
    IF RateBlocked(bps, perbill, minSplit) \/ RateRefused(perbill)
    THEN [kind |-> "unknown"]
    ELSE LET first == firstChargedGross(perbill, minSplit, ceiling)
         IN  IF first = Unread THEN [kind |-> "never"]
             ELSE [kind |-> "above", gross |-> first]

-----------------------------------------------------------------------------
(* explainer/src/protocol/ledger.ts                                        *)

(* A charge that would take the whole payout is waived before the floor is *)
(* looked at.                                                              *)
TaughtFee(gross, rate, minSplit) ==
    LET n       == gross * rate
        charged == IF n % PerbillOne = 0 THEN n \div PerbillOne ELSE n \div PerbillOne + 1
    IN  IF gross = 0 \/ rate = 0 \/ charged >= gross \/ gross - charged < minSplit
        THEN 0 ELSE charged

TaughtPairFee(a, s, rate, minSplit) ==
    TaughtFee(LongPay(a, s), rate, minSplit) + TaughtFee(ShortPay(a, s), rate, minSplit)

=============================================================================
