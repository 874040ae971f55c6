--------------------------- MODULE RedemptionFee ---------------------------
(***************************************************************************)
(* The payout arithmetic of crates/conditional-ledger-core: the redemption *)
(* fee with its small-payout waiver, the pro-rata value of a scalar leg,   *)
(* and the two legs a complete scalar set is charged on.  Amounts are      *)
(* naturals; u128 overflow is a checked error in the code and cannot occur *)
(* below the supply of the collateral, so it is not modelled.              *)
(*                                                                         *)
(* rate is the raw ledger.redeem_fee record and minSplit the live          *)
(* ledger.min_split: the pallet overlays both from the constitution's      *)
(* parameters on every call, so they are arguments and not constants.      *)
(***************************************************************************)
EXTENDS Integers

CONSTANTS
    Scale,         \* SCALE_1E9: the fixed-point one of a settlement score
    PerbillOne     \* PERBILL_ONE: the fixed-point one of the fee rate

ASSUME ScaleAssumption == Scale \in Nat \ {0}
ASSUME PerbillAssumption == PerbillOne \in Nat \ {0}

-----------------------------------------------------------------------------

(* A rate outside the Perbill domain reads as zero: the fee is waived.     *)
EffectiveRedeemFee(rate) == IF rate > PerbillOne THEN 0 ELSE rate

(* ceil(gross * rate / PerbillOne), formed across the quotient and the     *)
(* remainder of gross so that no intermediate exceeds gross * PerbillOne.  *)
Charge(gross, rate) ==
    LET partial == (gross % PerbillOne) * rate
    IN  (gross \div PerbillOne) * rate
          + partial \div PerbillOne
          + (IF partial % PerbillOne = 0 THEN 0 ELSE 1)

(* A faulty Fee, for mutation: the waiver looks at the gross payout.       *)
GrossWaiverFee(gross, rate, minSplit) ==
    IF gross < minSplit THEN 0 ELSE Charge(gross, EffectiveRedeemFee(rate))

(* redemption_fee: the charge, waived when the NET payout would fall below *)
(* the live min_split.                                                     *)
Fee(gross, rate, minSplit) ==
    LET charge == Charge(gross, EffectiveRedeemFee(rate))
    IN  IF gross - charge < minSplit THEN 0 ELSE charge

(* mul_score: the floored pro-rata value of a legs at score s.             *)
MulScore(a, s) == (a * s) \div Scale

LongPay(a, s)  == MulScore(a, s)
ShortPay(a, s) == MulScore(a, Scale - s)

(* A faulty PairFee, for mutation: the pair is charged as one payout.      *)
CombinedPairFee(a, s, rate, minSplit) == Fee(a, rate, minSplit)

(* pair_legs as the base of a pair redemption's fee: each leg is charged,  *)
(* and waived, on its own.                                                 *)
PairFee(a, s, rate, minSplit) ==
    Fee(LongPay(a, s), rate, minSplit) + Fee(ShortPay(a, s), rate, minSplit)

=============================================================================
