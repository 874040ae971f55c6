--------------------------- MODULE BaselineProofs ---------------------------
(***************************************************************************)
(* For every set of holders, every scale, rate, floor, score and amount:   *)
(* the types of BaselineVault hold, the vault is solvent, a pair is never  *)
(* worse than its legs and the fee is sound; and the client's and the      *)
(* explainer's arithmetic give the fee the chain charges, so that the      *)
(* ticket of a Baseline redemption is exact in every reachable state.      *)
(***************************************************************************)
EXTENDS BaselineTicket, Sums

USE ScaleAssumption, PerbillAssumption, InputsAssumption

-----------------------------------------------------------------------------
(* Arithmetic of the payouts.                                              *)

(* A floored division with its remainder gives back what was divided.      *)
LEMMA Division ==
    ASSUME NEW S \in Nat \ {0}, NEW x \in Nat
    PROVE  /\ x \div S \in Nat
           /\ x % S \in Nat
           /\ x % S < S
           /\ x = S * (x \div S) + (x % S)
  OBVIOUS

(* A floored leg is a natural worth at most its exact share.               *)
LEMMA MulScoreBelow ==
    ASSUME NEW a \in Nat, NEW s \in Nat
    PROVE  /\ MulScore(a, s) \in Nat
           /\ Scale * MulScore(a, s) <= a * s
  <1>1. a * s \in Nat
    OBVIOUS
  <1>2. ASSUME NEW x \in Nat
        PROVE  x \div Scale \in Nat /\ Scale * (x \div Scale) <= x
    BY <1>2, Division
  <1> QED
    BY <1>1, <1>2 DEF MulScore

(* The two legs of a set are floored apart: together they are worth at     *)
(* most the set.                                                           *)
LEMMA LegsWithinSet ==
    ASSUME NEW a \in Nat, NEW s \in 0 .. Scale
    PROVE  /\ LongPay(a, s) \in Nat
           /\ ShortPay(a, s) \in Nat
           /\ LongPay(a, s) + ShortPay(a, s) <= a
  <1>1. s \in Nat /\ Scale - s \in Nat
    OBVIOUS
  <1>2. /\ LongPay(a, s) \in Nat /\ Scale * LongPay(a, s) <= a * s
        /\ ShortPay(a, s) \in Nat /\ Scale * ShortPay(a, s) <= a * (Scale - s)
    BY <1>1, MulScoreBelow DEF LongPay, ShortPay
  <1>3. a * s + a * (Scale - s) = Scale * a
    OBVIOUS
  <1>4. ASSUME NEW l \in Nat, NEW h \in Nat, Scale * l <= a * s, Scale * h <= a * (Scale - s)
        PROVE  l + h <= a
    <2>1. a * s \in Nat /\ a * (Scale - s) \in Nat /\ Scale * l \in Nat /\ Scale * h \in Nat
      OBVIOUS
    <2>2. Scale * (l + h) = Scale * l + Scale * h
      OBVIOUS
    <2>3. Scale * (l + h) <= Scale * a
      BY <1>3, <1>4, <2>1, <2>2
    <2> QED
      BY <2>3
  <1> QED
    BY <1>2, <1>4

(* The charge is the exact ceiling of the rate: the last share is rounded  *)
(* up to a whole unit.                                                     *)
LEMMA ChargeIsCeiling ==
    ASSUME NEW gross \in Nat, NEW r \in Nat
    PROVE  /\ Charge(gross, r) \in Nat
           /\ gross * r <= PerbillOne * Charge(gross, r)
           /\ PerbillOne * Charge(gross, r) < gross * r + PerbillOne
  <1> DEFINE q       == gross \div PerbillOne
             left    == gross % PerbillOne
             partial == left * r
             up      == IF partial % PerbillOne = 0 THEN 0 ELSE 1
  <1>1. q \in Nat /\ left \in Nat /\ gross = PerbillOne * q + left
    BY Division
  <1>2. partial \in Nat
    BY <1>1
  <1> HIDE DEF q, left
  <1>3. gross * r = PerbillOne * (q * r) + partial
    BY <1>1
  <1> HIDE DEF partial
  <1>4. /\ partial \div PerbillOne \in Nat
        /\ partial % PerbillOne \in Nat
        /\ partial % PerbillOne < PerbillOne
        /\ partial = PerbillOne * (partial \div PerbillOne) + (partial % PerbillOne)
    BY <1>2, Division
  <1>5. q * r \in Nat
    BY <1>1
  <1>6. Charge(gross, r) = q * r + partial \div PerbillOne + up
    BY DEF Charge, q, left, partial
  <1>7. ASSUME NEW x \in Nat, NEW d \in Nat, NEW m \in Nat, NEW u \in {0, 1},
               m < PerbillOne, u = 0 <=> m = 0
        PROVE  /\ PerbillOne * x + (PerbillOne * d + m) <= PerbillOne * (x + d + u)
               /\ PerbillOne * (x + d + u) < PerbillOne * x + (PerbillOne * d + m) + PerbillOne
    <2>1. PerbillOne * (x + d + u) = PerbillOne * x + PerbillOne * d + PerbillOne * u
      OBVIOUS
    <2>2. PerbillOne * x \in Nat /\ PerbillOne * d \in Nat
      OBVIOUS
    <2> QED
      BY <1>7, <2>1, <2>2
  <1>8. up \in {0, 1} /\ (up = 0 <=> partial % PerbillOne = 0)
    OBVIOUS
  <1> HIDE DEF up
  <1>9. /\ PerbillOne * (q * r) + (PerbillOne * (partial \div PerbillOne) + (partial % PerbillOne))
             <= PerbillOne * (q * r + partial \div PerbillOne + up)
        /\ PerbillOne * (q * r + partial \div PerbillOne + up)
             < PerbillOne * (q * r) + (PerbillOne * (partial \div PerbillOne) + (partial % PerbillOne))
                 + PerbillOne
    BY <1>4, <1>5, <1>7, <1>8
  <1>10. Charge(gross, r) \in Nat
    BY <1>4, <1>5, <1>6, <1>8
  <1> QED
    BY <1>3, <1>4, <1>6, <1>9, <1>10

(* The effective rate is at most one.                                      *)
LEMMA RateWithinOne ==
    ASSUME NEW rate \in Nat
    PROVE  /\ EffectiveRedeemFee(rate) \in Nat
           /\ EffectiveRedeemFee(rate) <= PerbillOne
  BY DEF EffectiveRedeemFee

(* The net payout grows with the gross one.                                *)
LEMMA NetGrows ==
    ASSUME NEW gross \in Nat, NEW g \in 0 .. gross, NEW r \in 0 .. PerbillOne
    PROVE  g - Charge(g, r) <= gross - Charge(gross, r)
  <1> DEFINE C == Charge(gross, r)
             c == Charge(g, r)
             d == gross - g
  <1>1. /\ C \in Nat /\ PerbillOne * C < gross * r + PerbillOne
        /\ c \in Nat /\ g * r <= PerbillOne * c
    <2>1. gross \in Nat /\ g \in Nat /\ r \in Nat
      OBVIOUS
    <2> QED
      BY <2>1, ChargeIsCeiling
  <1>2. d \in Nat /\ gross = g + d
    OBVIOUS
  <1> HIDE DEF C, c, d
  <1>3. gross * r = g * r + d * r
    BY <1>2
  <1>4. d * r <= PerbillOne * d
    BY <1>2
  <1>5. g * r \in Nat /\ d * r \in Nat /\ PerbillOne * c \in Nat /\ PerbillOne * C \in Nat
    BY <1>1, <1>2
  <1>6. PerbillOne * C < PerbillOne * c + PerbillOne * d + PerbillOne
    BY <1>1, <1>2, <1>3, <1>4, <1>5
  <1>7. PerbillOne * c + PerbillOne * d + PerbillOne = PerbillOne * (c + d + 1)
    BY <1>1, <1>2
  <1>8. C < c + d + 1
    BY <1>1, <1>2, <1>6, <1>7
  <1> QED
    BY <1>1, <1>2, <1>8 DEF C, c, d

(* A fee is a natural that never exceeds its payout's charge.              *)
LEMMA FeeIsNat ==
    ASSUME NEW gross \in Nat, NEW rate \in Nat, NEW m \in Nat
    PROVE  Fee(gross, rate, m) \in Nat
  BY ChargeIsCeiling, RateWithinOne DEF Fee

-----------------------------------------------------------------------------
(* The fee and the pair hold of every vault, reachable or not.             *)

(* PT-7: a pair is worth at least its two floored legs, and is charged     *)
(* what they are.                                                          *)
LEMMA PairKeeps ==
    ASSUME TypeOK
    PROVE  PairNeverWorse
  <1> SUFFICES ASSUME NEW a \in 0 .. Smaller(total["Long"], total["Short"]),
                      NEW rate \in Rates, NEW m \in MinSplits
               PROVE  Net(a, PairFee(a, score, rate, m)) >=
                        Net(LongPay(a, score), Fee(LongPay(a, score), rate, m))
                          + Net(ShortPay(a, score), Fee(ShortPay(a, score), rate, m))
    BY DEF PairNeverWorse
  <1>1. a \in Nat /\ score \in 0 .. Scale
    BY DEF TypeOK, Smaller
  <1>2. /\ LongPay(a, score) \in Nat /\ ShortPay(a, score) \in Nat
        /\ LongPay(a, score) + ShortPay(a, score) <= a
    BY <1>1, LegsWithinSet
  <1>3. /\ Fee(LongPay(a, score), rate, m) \in Nat
        /\ Fee(ShortPay(a, score), rate, m) \in Nat
    BY <1>2, FeeIsNat
  <1> QED
    BY <1>1, <1>2, <1>3 DEF Net, PairFee

(* The fee is the ceiling of its rate or waived, and never waived above a  *)
(* charged payout.                                                         *)
LEMMA FeeKeeps ==
    ASSUME TypeOK
    PROVE  ChargeSound
  <1> SUFFICES ASSUME NEW rate \in Rates, NEW m \in MinSplits, NEW gross \in 0 .. escrowed
               PROVE  LET fee == Fee(gross, rate, m)
                          r   == EffectiveRedeemFee(rate)
                      IN  /\ fee > 0 =>
                               /\ PerbillOne * fee \in gross * r .. gross * r + PerbillOne - 1
                               /\ gross - fee >= m
                          /\ fee = 0 /\ gross * r > 0 =>
                               \A g \in 0 .. gross : Fee(g, rate, m) = 0
    BY DEF ChargeSound
  <1> DEFINE r      == EffectiveRedeemFee(rate)
             charge == Charge(gross, r)
  <1>1. gross \in Nat /\ r \in 0 .. PerbillOne /\ r \in Nat
    BY RateWithinOne DEF TypeOK
  <1>2. Fee(gross, rate, m) = IF gross - charge < m THEN 0 ELSE charge
    BY DEF Fee
  <1> HIDE DEF r
  <1>3. /\ charge \in Nat /\ gross * r <= PerbillOne * charge
        /\ PerbillOne * charge < gross * r + PerbillOne
    BY <1>1, ChargeIsCeiling
  <1> HIDE DEF charge
  <1>4. gross * r \in Nat /\ PerbillOne * charge \in Nat
    BY <1>1, <1>3
  <1>5. Fee(gross, rate, m) > 0 =>
          /\ PerbillOne * Fee(gross, rate, m) \in gross * r .. gross * r + PerbillOne - 1
          /\ gross - Fee(gross, rate, m) >= m
    BY <1>1, <1>2, <1>3, <1>4
  <1>6. ASSUME Fee(gross, rate, m) = 0, gross * r > 0, NEW g \in 0 .. gross
        PROVE  Fee(g, rate, m) = 0
    <2>1. charge # 0
      BY <1>3, <1>4, <1>6
    <2>2. gross - charge < m
      BY <1>2, <1>6, <2>1
    <2>3. g - Charge(g, r) <= gross - charge
      BY <1>1, NetGrows DEF charge
    <2>4. g \in Nat
      BY <1>1
    <2>5. Charge(g, r) \in Nat
      BY <1>1, <2>4, ChargeIsCeiling
    <2>6. g - Charge(g, r) < m
      BY <1>1, <1>3, <2>2, <2>3, <2>4, <2>5
    <2> QED
      BY <2>6 DEF Fee, r
  <1> QED
    BY <1>5, <1>6 DEF r

-----------------------------------------------------------------------------
(* Type correctness.                                                       *)

(* Minting a set leaves balances and totals naturals.                      *)
LEMMA MintTypes ==
    ASSUME TypeOK, NEW who \in Accounts, NEW a \in Nat, MintSets(who, a)
    PROVE  /\ balance' \in [Sides -> [Accounts -> Nat]]
           /\ total' \in [Sides -> Nat]
           /\ \A side \in Sides : total'[side] = total[side] + a
  <1>1. \A side \in Sides : balance[side] \in [Accounts -> Nat] /\ total[side] \in Nat
    BY DEF TypeOK
  <1>2. \A side \in Sides : [balance[side] EXCEPT ![who] = @ + a] \in [Accounts -> Nat]
    BY <1>1
  <1> QED
    BY <1>1, <1>2 DEF MintSets

(* Burning legs leaves balances and totals naturals: it asks for both.     *)
LEMMA BurnTypes ==
    ASSUME TypeOK, NEW who \in Accounts, NEW a \in Nat, NEW burnt \in SUBSET Sides,
           Burn(who, burnt, a)
    PROVE  /\ balance' \in [Sides -> [Accounts -> Nat]]
           /\ total' \in [Sides -> Nat]
           /\ \A side \in Sides :
                total'[side] = total[side] - (IF side \in burnt THEN a ELSE 0)
  <1>1. \A side \in Sides : balance[side] \in [Accounts -> Nat] /\ total[side] \in Nat
    BY DEF TypeOK
  <1>2. ASSUME NEW side \in Sides
        PROVE  /\ [balance[side] EXCEPT ![who] =
                     @ - (IF side \in burnt THEN a ELSE 0)] \in [Accounts -> Nat]
               /\ total[side] - (IF side \in burnt THEN a ELSE 0) \in Nat
    BY <1>1 DEF Burn
  <1> QED
    BY <1>1, <1>2 DEF Burn

(* What redemptions pay, and the fees they leave behind, are naturals.     *)
LEMMA PaymentsAreNat ==
    ASSUME TypeOK, NEW who, NEW a \in Nat, NEW rate \in Nat, NEW m \in Nat
    PROVE  /\ \A side \in Sides : SideValue(side, a) \in Nat
           /\ \A x \in Nat : Charged(who, Fee(x, rate, m)) \in Nat
           /\ Charged(who, PairFee(a, score, rate, m)) \in Nat
  <1>1. LongPay(a, score) \in Nat /\ ShortPay(a, score) \in Nat
    BY LegsWithinSet DEF TypeOK
  <1>2. \A x \in Nat : Fee(x, rate, m) \in Nat
    BY FeeIsNat
  <1>3. PairFee(a, score, rate, m) \in Nat
    BY <1>1, <1>2 DEF PairFee
  <1> QED
    BY <1>1, <1>2, <1>3 DEF SideValue, Charged

(* Every step of the vault keeps its types.                                *)
LEMMA StepTypes ==
    ASSUME TypeOK, [Next]_vars
    PROVE  TypeOK'
  <1>1. CASE UNCHANGED vars
    BY <1>1 DEF TypeOK, vars
  <1>2. ASSUME NEW s \in Scores, SettleBaseline(s)
        PROVE  TypeOK'
    BY <1>2 DEF TypeOK, SettleBaseline
  <1>3. CASE SweepRedemptionFees
    BY <1>3 DEF TypeOK, SweepRedemptionFees
  <1>4. ASSUME NEW who \in Accounts, NEW a \in Amounts, SplitBaseline(who, a)
        PROVE  TypeOK'
    <2>1. balance' \in [Sides -> [Accounts -> Nat]] /\ total' \in [Sides -> Nat]
      BY <1>4, MintTypes DEF SplitBaseline
    <2> QED
      BY <1>4, <2>1 DEF TypeOK, SplitBaseline
  <1>5. ASSUME NEW who \in Accounts, NEW a \in Amounts, MergeBaseline(who, a)
        PROVE  TypeOK'
    <2>1. balance' \in [Sides -> [Accounts -> Nat]] /\ total' \in [Sides -> Nat]
      BY <1>5, BurnTypes DEF MergeBaseline
    <2> QED
      BY <1>5, <2>1 DEF TypeOK, MergeBaseline, PayOut
  <1>6. ASSUME NEW origin, NEW side \in Sides, NEW from \in Accounts, NEW to \in Accounts,
               NEW a \in Amounts, Transfer(origin, side, from, to, a)
        PROVE  TypeOK'
    <2> DEFINE moved == Moved(origin, side, from, a)
               row   == [w \in Accounts |-> balance[side][w]
                                              - (IF w = from THEN moved ELSE 0)
                                              + (IF w = to THEN moved ELSE 0)]
    <2>1. moved \in Nat /\ balance[side][from] >= moved
      BY <1>6 DEF Transfer, Moved, TypeOK
    <2>2. balance' = [balance EXCEPT ![side] = row]
      BY <1>6 DEF Transfer
    <2>3. \A w \in Accounts : balance[side][w] \in Nat
      BY DEF TypeOK
    <2>4. row \in [Accounts -> Nat]
      <3> HIDE DEF moved
      <3> QED
        BY <2>1, <2>3
    <2>5. balance' \in [Sides -> [Accounts -> Nat]]
      <3> HIDE DEF row
      <3> QED
        BY <2>2, <2>4 DEF TypeOK
    <2> QED
      BY <1>6, <2>5 DEF TypeOK, Transfer
  <1>7. ASSUME NEW rate \in Rates, NEW m \in MinSplits, NEW side \in Sides,
               NEW who \in Accounts, NEW a \in Amounts, RedeemBaseline(rate, m, side, who, a)
        PROVE  TypeOK'
    <2>1. /\ SideValue(side, a) \in Nat
          /\ Charged(who, Fee(SideValue(side, a), rate, m)) \in Nat
      BY PaymentsAreNat
    <2>2. balance' \in [Sides -> [Accounts -> Nat]] /\ total' \in [Sides -> Nat]
      BY <1>7, BurnTypes DEF RedeemBaseline
    <2> QED
      BY <1>7, <2>1, <2>2 DEF TypeOK, RedeemBaseline, PayOut
  <1>8. ASSUME NEW rate \in Rates, NEW m \in MinSplits, NEW who \in Accounts,
               NEW a \in Amounts, RedeemBaselinePair(rate, m, who, a)
        PROVE  TypeOK'
    <2>1. Charged(who, PairFee(a, score, rate, m)) \in Nat
      BY PaymentsAreNat
    <2>2. balance' \in [Sides -> [Accounts -> Nat]] /\ total' \in [Sides -> Nat]
      BY <1>8, BurnTypes DEF RedeemBaselinePair
    <2> QED
      BY <1>8, <2>1, <2>2 DEF TypeOK, RedeemBaselinePair, PayOut
  <1> QED
    BY <1>1, <1>2, <1>3, <1>4, <1>5, <1>6, <1>7, <1>8 DEF Next

(* The vault keeps its types: settlement scores are bounded, and no call   *)
(* takes more than there is.                                               *)
THEOREM BaselineTypeCorrect == Spec => []TypeOK
  <1>1. Init => TypeOK
    BY DEF Init, TypeOK, Sides
  <1>2. TypeOK /\ [Next]_vars => TypeOK'
    BY StepTypes
  <1> QED
    BY <1>1, <1>2, PTL DEF Spec

-----------------------------------------------------------------------------
(* The books.                                                              *)

(* A side of which one holder's balance and the total move alike.          *)
LEMMA SideAgrees ==
    ASSUME NEW f \in [Accounts -> Nat], NEW h \in [Accounts -> Nat], NEW who \in Accounts,
           NEW t \in Nat, NEW d \in Int, t = SumFunction(f),
           h[who] = f[who] + d, \A w \in Accounts \ {who} : h[w] = f[w]
    PROVE  t + d = SumFunction(h)
  <1>1. SumFunction(h) = SumFunction(f) + h[who] - f[who]
    BY RowMoves, AccountsAssumption
  <1>2. f[who] \in Nat
    OBVIOUS
  <1> QED
    BY <1>1, <1>2

(* A mint keeps the totals the sums of the balances.                       *)
LEMMA MintAgrees ==
    ASSUME TypeOK, BaselineBooksAgree, NEW who \in Accounts, NEW a \in Nat, MintSets(who, a)
    PROVE  BaselineBooksAgree'
  <1> SUFFICES ASSUME NEW side \in Sides
               PROVE  total'[side] = SumFunction(balance'[side])
    BY DEF BaselineBooksAgree
  <1>1. /\ balance[side] \in [Accounts -> Nat] /\ balance'[side] \in [Accounts -> Nat]
        /\ total[side] \in Nat /\ total'[side] = total[side] + a /\ a \in Int
    BY MintTypes DEF TypeOK
  <1>2. /\ balance'[side][who] = balance[side][who] + a
        /\ \A w \in Accounts \ {who} : balance'[side][w] = balance[side][w]
    BY <1>1 DEF MintSets
  <1>3. total[side] = SumFunction(balance[side])
    BY DEF BaselineBooksAgree
  <1> QED
    BY <1>1, <1>2, <1>3, SideAgrees

(* So does a burn of one leg, of both, or of none.                         *)
LEMMA BurnAgrees ==
    ASSUME TypeOK, BaselineBooksAgree, NEW who \in Accounts, NEW a \in Nat,
           NEW burnt \in SUBSET Sides, Burn(who, burnt, a)
    PROVE  BaselineBooksAgree'
  <1> SUFFICES ASSUME NEW side \in Sides
               PROVE  total'[side] = SumFunction(balance'[side])
    BY DEF BaselineBooksAgree
  <1> DEFINE d == -(IF side \in burnt THEN a ELSE 0)
  <1>1. /\ balance[side] \in [Accounts -> Nat] /\ balance'[side] \in [Accounts -> Nat]
        /\ total[side] \in Nat /\ total'[side] = total[side] + d /\ d \in Int
    BY BurnTypes DEF TypeOK
  <1>2. /\ balance'[side][who] = balance[side][who] + d
        /\ \A w \in Accounts \ {who} : balance'[side][w] = balance[side][w]
    BY <1>1 DEF Burn
  <1>3. total[side] = SumFunction(balance[side])
    BY DEF BaselineBooksAgree
  <1> HIDE DEF d
  <1> QED
    BY <1>1, <1>2, <1>3, SideAgrees

(* A transfer moves a claim within its side, swept or to oneself.          *)
LEMMA TransferAgrees ==
    ASSUME TypeOK, BaselineBooksAgree, NEW origin, NEW side \in Sides, NEW from \in Accounts,
           NEW to \in Accounts, NEW a \in Amounts, Transfer(origin, side, from, to, a)
    PROVE  BaselineBooksAgree'
  <1> DEFINE moved == Moved(origin, side, from, a)
             f     == balance[side]
             row   == [w \in Accounts |-> f[w] - (IF w = from THEN moved ELSE 0)
                                               + (IF w = to THEN moved ELSE 0)]
  <1>1. moved \in Nat /\ f[from] >= moved /\ f \in [Accounts -> Nat]
    BY DEF Transfer, Moved, TypeOK
  <1>2. balance' = [balance EXCEPT ![side] = row] /\ total' = total
    BY DEF Transfer
  <1>3. SumFunction(row) = SumFunction(f)
    <2>1. row = RowAfter(Accounts, f, from, to, moved)
      BY DEF RowAfter
    <2> HIDE DEF moved, f, row
    <2> QED
      BY <1>1, <2>1, RowTransfers, AccountsAssumption
  <1> HIDE DEF row
  <1> QED
    BY <1>2, <1>3 DEF BaselineBooksAgree, TypeOK

(* The books of a Baseline vault agree: the total of a side is the sum of  *)
(* its holders' balances, through splits, merges, redemptions and the      *)
(* transfers that sweep a balance.                                         *)
THEOREM BaselineBooksAlwaysAgree == Spec => []BaselineBooksAgree
  <1>1. Init => BaselineBooksAgree
    <2> SUFFICES ASSUME Init, NEW side \in Sides
                 PROVE  total[side] = SumFunction(balance[side])
      BY DEF BaselineBooksAgree
    <2>1. balance[side] \in [Accounts -> Nat] /\ \A w \in Accounts : balance[side][w] = 0
      BY DEF Init
    <2>2. SumFunction(balance[side]) = 0
      BY <2>1, RowOfZeros, AccountsAssumption
    <2> QED
      BY <2>2 DEF Init
  <1>2. TypeOK /\ BaselineBooksAgree /\ [Next]_vars => BaselineBooksAgree'
    <2> SUFFICES ASSUME TypeOK, BaselineBooksAgree, [Next]_vars PROVE BaselineBooksAgree'
      OBVIOUS
    <2>1. CASE UNCHANGED <<balance, total>>
      BY <2>1 DEF BaselineBooksAgree
    <2>2. ASSUME NEW who \in Accounts, NEW a \in Amounts, SplitBaseline(who, a)
          PROVE  BaselineBooksAgree'
      BY <2>2, MintAgrees DEF SplitBaseline
    <2>3. ASSUME NEW who \in Accounts, NEW a \in Amounts, NEW burnt \in SUBSET Sides,
                 Burn(who, burnt, a)
          PROVE  BaselineBooksAgree'
      BY <2>3, BurnAgrees
    <2>4. ASSUME NEW who \in Accounts, NEW a \in Amounts, MergeBaseline(who, a)
          PROVE  BaselineBooksAgree'
      BY <2>3, <2>4 DEF MergeBaseline
    <2>5. ASSUME NEW rate \in Rates, NEW m \in MinSplits, NEW who \in Accounts,
                 NEW a \in Amounts,
                 \/ \E side \in Sides : RedeemBaseline(rate, m, side, who, a)
                 \/ RedeemBaselinePair(rate, m, who, a)
          PROVE  BaselineBooksAgree'
      <3>1. \E burnt \in SUBSET Sides : Burn(who, burnt, a)
        BY <2>5 DEF RedeemBaseline, RedeemBaselinePair
      <3> QED
        BY <2>3, <3>1
    <2>6. CASE (\E s \in Scores : SettleBaseline(s)) \/ SweepRedemptionFees \/ UNCHANGED vars
      BY <2>1, <2>6 DEF SettleBaseline, SweepRedemptionFees, vars
    <2> QED
      BY <2>2, <2>4, <2>5, <2>6, TransferAgrees DEF Next
  <1> QED
    BY <1>1, <1>2, BaselineTypeCorrect, PTL DEF Spec

-----------------------------------------------------------------------------
(* Solvency.                                                               *)

(* Before any division: the two legs outstanding are backed at the exact   *)
(* score.                                                                  *)
LEMMA StepBacked ==
    ASSUME TypeOK, BaselineBacked, [Next]_vars
    PROVE  BaselineBacked'
  <1> USE DEF Sides
  <1>1. CASE UNCHANGED vars
    BY <1>1 DEF BaselineBacked, vars
  <1>2. ASSUME NEW s \in Scores, SettleBaseline(s)
        PROVE  BaselineBacked'
    <2>1. s \in Nat /\ Scale - s \in Nat /\ escrowed \in Nat
      BY <1>2 DEF SettleBaseline, TypeOK
    <2>2. Scale * escrowed = s * escrowed + (Scale - s) * escrowed
      BY <2>1
    <2> QED
      BY <1>2, <2>1, <2>2 DEF BaselineBacked, SettleBaseline, TypeOK
  <1>3. CASE SweepRedemptionFees
    BY <1>3 DEF BaselineBacked, SweepRedemptionFees
  <1>4. ASSUME NEW who \in Accounts, NEW a \in Amounts, SplitBaseline(who, a)
        PROVE  BaselineBacked'
    <2>1. total'["Long"] = total["Long"] + a /\ total'["Short"] = total["Short"] + a
      BY <1>4, MintTypes DEF SplitBaseline
    <2> QED
      BY <1>4, <2>1 DEF BaselineBacked, SplitBaseline, TypeOK
  <1>5. ASSUME NEW who \in Accounts, NEW a \in Amounts, MergeBaseline(who, a)
        PROVE  BaselineBacked'
    <2>1. total'["Long"] = total["Long"] - a /\ total'["Short"] = total["Short"] - a
      BY <1>5, BurnTypes DEF MergeBaseline
    <2> QED
      BY <1>5, <2>1 DEF BaselineBacked, MergeBaseline, PayOut, TypeOK
  <1>6. ASSUME NEW origin, NEW side \in Sides, NEW from \in Accounts, NEW to \in Accounts,
               NEW a \in Amounts, Transfer(origin, side, from, to, a)
        PROVE  BaselineBacked'
    BY <1>6 DEF BaselineBacked, Transfer
  <1> DEFINE L == total["Long"]
             S == total["Short"]
             other == Scale - score
  <1>7. /\ L \in Nat /\ S \in Nat /\ escrowed \in Nat /\ sets \in Nat
        /\ score \in Nat /\ other \in Nat
    BY DEF TypeOK
  <1>8. ASSUME NEW rate \in Rates, NEW m \in MinSplits, NEW side \in Sides,
               NEW who \in Accounts, NEW a \in Amounts, RedeemBaseline(rate, m, side, who, a)
        PROVE  BaselineBacked'
    <2>1. CASE side = "Long"
      <3>1. /\ total'["Long"] = L - a /\ total'["Short"] = S
            /\ total'["Long"] \in Nat
        BY <1>7, <1>8, <2>1, BurnTypes DEF RedeemBaseline
      <3>2. /\ escrowed' = escrowed - LongPay(a, score)
            /\ LongPay(a, score) \in Nat /\ Scale * LongPay(a, score) <= a * score
        BY <1>7, <1>8, <2>1, MulScoreBelow DEF RedeemBaseline, PayOut, SideValue, LongPay
      <3>3. Scale * (escrowed - LongPay(a, score)) = Scale * escrowed - Scale * LongPay(a, score)
        BY <1>7, <3>2
      <3>4. score * (L - a) = score * L - a * score
        BY <1>7
      <3>5. /\ score * L \in Nat /\ a * score \in Nat /\ other * S \in Nat
            /\ Scale * escrowed \in Nat /\ Scale * LongPay(a, score) \in Nat
        BY <1>7, <3>2
      <3>6. Scale * escrowed >= score * L + other * S
        BY <1>8 DEF BaselineBacked, RedeemBaseline
      <3>7. Scale * (escrowed - LongPay(a, score)) >= score * (L - a) + other * S
        BY <3>2, <3>3, <3>4, <3>5, <3>6
      <3>8. L <= sets /\ S <= sets
        BY DEF BaselineBacked
      <3> QED
        BY <1>7, <1>8, <3>1, <3>2, <3>7, <3>8 DEF BaselineBacked, RedeemBaseline
    <2>2. CASE side = "Short"
      <3>1. /\ total'["Short"] = S - a /\ total'["Long"] = L
            /\ total'["Short"] \in Nat
        BY <1>7, <1>8, <2>2, BurnTypes DEF RedeemBaseline
      <3>2. /\ escrowed' = escrowed - ShortPay(a, score)
            /\ ShortPay(a, score) \in Nat /\ Scale * ShortPay(a, score) <= a * other
        BY <1>7, <1>8, <2>2, MulScoreBelow DEF RedeemBaseline, PayOut, SideValue, ShortPay
      <3>3. Scale * (escrowed - ShortPay(a, score)) = Scale * escrowed - Scale * ShortPay(a, score)
        BY <1>7, <3>2
      <3>4. other * (S - a) = other * S - a * other
        BY <1>7
      <3>5. /\ score * L \in Nat /\ a * other \in Nat /\ other * S \in Nat
            /\ Scale * escrowed \in Nat /\ Scale * ShortPay(a, score) \in Nat
        BY <1>7, <3>2
      <3>6. Scale * escrowed >= score * L + other * S
        BY <1>8 DEF BaselineBacked, RedeemBaseline
      <3>7. Scale * (escrowed - ShortPay(a, score)) >= score * L + other * (S - a)
        BY <3>2, <3>3, <3>4, <3>5, <3>6
      <3>8. L <= sets /\ S <= sets
        BY DEF BaselineBacked
      <3> QED
        BY <1>7, <1>8, <3>1, <3>2, <3>7, <3>8 DEF BaselineBacked, RedeemBaseline
    <2> QED
      BY <2>1, <2>2
  <1>9. ASSUME NEW rate \in Rates, NEW m \in MinSplits, NEW who \in Accounts,
               NEW a \in Amounts, RedeemBaselinePair(rate, m, who, a)
        PROVE  BaselineBacked'
    <2>1. total'["Long"] = L - a /\ total'["Short"] = S - a
      BY <1>7, <1>9, BurnTypes DEF RedeemBaselinePair
    <2>2. escrowed' = escrowed - a /\ sets' = sets - a
      BY <1>9 DEF RedeemBaselinePair, PayOut
    <2>3. Scale * escrowed >= score * L + other * S
      BY <1>9 DEF BaselineBacked, RedeemBaselinePair
    <2>4. Scale * (escrowed - a) = Scale * escrowed - score * a - other * a
      BY <1>7
    <2>5. score * (L - a) + other * (S - a) = score * L + other * S - score * a - other * a
      BY <1>7
    <2>6. /\ score * L \in Nat /\ other * S \in Nat /\ score * a \in Nat /\ other * a \in Nat
          /\ Scale * escrowed \in Nat
      BY <1>7
    <2>7. Scale * (escrowed - a) >= score * (L - a) + other * (S - a)
      BY <2>3, <2>4, <2>5, <2>6
    <2>8. L <= sets /\ S <= sets
      BY DEF BaselineBacked
    <2> QED
      BY <1>7, <1>9, <2>1, <2>2, <2>7, <2>8 DEF BaselineBacked, RedeemBaselinePair
  <1> QED
    BY <1>1, <1>2, <1>3, <1>4, <1>5, <1>6, <1>8, <1>9 DEF Next

(* The floored liability of try_state is at most the exact share.          *)
LEMMA BackedIsSolvent ==
    ASSUME TypeOK, BaselineBacked
    PROVE  BaselineSolvent
  <1> DEFINE L == total["Long"]
             S == total["Short"]
             p == Smaller(L, S)
             other == Scale - score
             l == LongPay(L - p, score)
             h == ShortPay(S - p, score)
  <1>1. /\ L \in Nat /\ S \in Nat /\ escrowed \in Nat
        /\ score \in Nat /\ other \in Nat
    BY DEF TypeOK, Sides
  <1>2. p \in Nat /\ L - p \in Nat /\ S - p \in Nat
    BY <1>1 DEF Smaller
  <1> HIDE DEF L, S, p
  <1>3. /\ l \in Nat /\ Scale * l <= (L - p) * score
        /\ h \in Nat /\ Scale * h <= (S - p) * other
    BY <1>1, <1>2, MulScoreBelow DEF LongPay, ShortPay
  <1>4. Liability = p + l + h
    BY DEF Liability, L, S, p
  <1> HIDE DEF l, h
  <1>5. ASSUME state = "Settled"
        PROVE  escrowed >= p + l + h
    <2>1. Scale * escrowed >= score * L + other * S
      BY <1>5 DEF BaselineBacked, L, S
    <2>2. /\ (L - p) * score = score * L - score * p
          /\ (S - p) * other = other * S - other * p
          /\ score * p + other * p = Scale * p
      BY <1>1, <1>2
    <2>3. Scale * (p + l + h) = Scale * p + Scale * l + Scale * h
      BY <1>2, <1>3
    <2>4. /\ score * L \in Nat /\ other * S \in Nat /\ score * p \in Nat /\ other * p \in Nat
          /\ Scale * l \in Nat /\ Scale * h \in Nat /\ Scale * escrowed \in Nat
      BY <1>1, <1>2, <1>3
    <2>5. Scale * escrowed >= Scale * (p + l + h)
      BY <1>3, <2>1, <2>2, <2>3, <2>4
    <2> HIDE DEF other
    <2>6. p + l + h \in Nat
      BY <1>2, <1>3
    <2> QED
      BY <1>1, <2>5, <2>6
  <1> QED
    BY <1>4, <1>5 DEF BaselineBacked, BaselineSolvent

(* The exact backing is an invariant.                                      *)
THEOREM BaselineAlwaysBacked == Spec => []BaselineBacked
  <1>1. Init => BaselineBacked
    BY DEF Init, BaselineBacked, Sides
  <1>2. TypeOK /\ BaselineBacked /\ [Next]_vars => BaselineBacked'
    BY StepBacked
  <1> QED
    BY <1>1, <1>2, BaselineTypeCorrect, PTL DEF Spec

(* The Baseline vault covers every claim on it, whatever was redeemed, in  *)
(* whatever pieces and order.                                              *)
THEOREM BaselineAlwaysSolvent == Spec => []BaselineSolvent
  <1>1. TypeOK /\ BaselineBacked => BaselineSolvent
    BY BackedIsSolvent
  <1> QED
    BY <1>1, BaselineTypeCorrect, BaselineAlwaysBacked, PTL

(* The fee of every payout is the ceiling of its rate or soundly waived,   *)
(* and a pair redeemed as one never nets less than its legs apart.         *)
THEOREM FeesSound == Spec => []FeeSound
  <1>1. TypeOK => FeeSound
    BY FeeKeeps, PairKeeps DEF FeeSound
  <1> QED
    BY <1>1, BaselineTypeCorrect, PTL

USE BpAssumption, UnreadAssumption

-----------------------------------------------------------------------------
(* Three ways of writing one ceiling.                                      *)

(* A ceiling is determined by its bounds.                                  *)
LEMMA CeilingUnique ==
    ASSUME NEW n \in Nat, NEW c \in Nat, NEW d \in Nat,
           n <= PerbillOne * c, PerbillOne * c < n + PerbillOne,
           n <= PerbillOne * d, PerbillOne * d < n + PerbillOne
    PROVE  c = d
  <1>1. ASSUME NEW x \in Nat, NEW y \in Nat, n <= PerbillOne * y,
               PerbillOne * x < n + PerbillOne
        PROVE  x <= y
    <2>1. PerbillOne * x < PerbillOne * (y + 1)
      <3>1. PerbillOne * x \in Nat /\ PerbillOne * y \in Nat
        OBVIOUS
      <3>2. PerbillOne * (y + 1) = PerbillOne * y + PerbillOne
        OBVIOUS
      <3> QED
        BY <1>1, <3>1, <3>2
    <2>2. x < y + 1
      BY <2>1
    <2> QED
      BY <2>2
  <1>2. c <= d /\ d <= c
    BY <1>1
  <1> QED
    BY <1>2

(* The client's ceiling, of the whole product at once, is the chain's,     *)
(* formed across quotient and remainder.                                   *)
LEMMA ChargeUpIsCharge ==
    ASSUME NEW gross \in Nat, NEW r \in Nat
    PROVE  ChargeUp(gross, r) = Charge(gross, r)
  <1> DEFINE n == gross * r
             c == Charge(gross, r)
  <1>1. n \in Nat
    OBVIOUS
  <1>2. c \in Nat /\ n <= PerbillOne * c /\ PerbillOne * c < n + PerbillOne
    BY ChargeIsCeiling
  <1>3. ChargeUp(gross, r) = IF n = 0 THEN 0 ELSE (n - 1) \div PerbillOne + 1
    BY DEF ChargeUp
  <1> HIDE DEF n, c
  <1>4. CASE n = 0
    <2>1. 0 <= PerbillOne * 0 /\ PerbillOne * 0 < 0 + PerbillOne
      OBVIOUS
    <2>2. c = 0
      BY <1>2, <1>4, <2>1, CeilingUnique
    <2> QED
      BY <1>3, <1>4, <2>2 DEF c
  <1>5. CASE n # 0
    <2> DEFINE q == (n - 1) \div PerbillOne
               left == (n - 1) % PerbillOne
    <2>1. n - 1 \in Nat
      BY <1>1, <1>5
    <2>2. q \in Nat /\ left \in Nat /\ left < PerbillOne /\ n - 1 = PerbillOne * q + left
      BY <2>1, Division
    <2>3. ChargeUp(gross, r) = q + 1
      BY <1>3, <1>5
    <2> HIDE DEF q, left
    <2>4. PerbillOne * (q + 1) = PerbillOne * q + PerbillOne /\ PerbillOne * q \in Nat
      BY <2>2
    <2>5. n <= PerbillOne * (q + 1) /\ PerbillOne * (q + 1) < n + PerbillOne
      BY <1>1, <2>2, <2>4
    <2>6. q + 1 = c
      <3>1. q + 1 \in Nat
        BY <2>2
      <3> HIDE DEF c
      <3> QED
        BY <1>1, <1>2, <2>5, <3>1, CeilingUnique
    <2> QED
      BY <2>3, <2>6 DEF c
  <1> QED
    BY <1>4, <1>5

(* The explainer's ceiling is the chain's.                                 *)
LEMMA TaughtCeiling ==
    ASSUME NEW gross \in Nat, NEW r \in Nat
    PROVE  Charge(gross, r) = IF (gross * r) % PerbillOne = 0
                              THEN (gross * r) \div PerbillOne
                              ELSE (gross * r) \div PerbillOne + 1
  <1> DEFINE n    == gross * r
             c    == Charge(gross, r)
             q    == n \div PerbillOne
             left == n % PerbillOne
             t    == IF left = 0 THEN q ELSE q + 1
  <1>1. n \in Nat
    OBVIOUS
  <1>2. c \in Nat /\ n <= PerbillOne * c /\ PerbillOne * c < n + PerbillOne
    BY ChargeIsCeiling
  <1> HIDE DEF n, c
  <1>3. q \in Nat /\ left \in Nat /\ left < PerbillOne /\ n = PerbillOne * q + left
    BY <1>1, Division
  <1> HIDE DEF q, left
  <1>4. PerbillOne * (q + 1) = PerbillOne * q + PerbillOne /\ PerbillOne * q \in Nat
    BY <1>3
  <1>5. t \in Nat /\ n <= PerbillOne * t /\ PerbillOne * t < n + PerbillOne
    BY <1>3, <1>4
  <1> HIDE DEF t
  <1>6. t = c
    BY <1>1, <1>2, <1>5, CeilingUnique
  <1> QED
    BY <1>6 DEF t, c, q, left, n

-----------------------------------------------------------------------------
(* The fees agree.                                                         *)

(* On a rate within its domain the client computes the chain's fee.        *)
LEMMA ClientFeeIsFee ==
    ASSUME NEW gross \in Nat, NEW rate \in Nat, NEW m \in Nat, ~RateRefused(rate)
    PROVE  redemptionFee(gross, rate, m) = Fee(gross, rate, m)
  <1>1. EffectiveRedeemFee(rate) = rate
    BY DEF EffectiveRedeemFee, RateRefused
  <1>2. ChargeUp(gross, rate) = Charge(gross, rate)
    BY ChargeUpIsCharge
  <1> QED
    BY <1>1, <1>2 DEF redemptionFee, Fee

(* At any rate, also one the chain reads as zero, the explainer teaches    *)
(* the chain's fee, as long as the floor is not zero.                      *)
LEMMA TaughtFeeIsFee ==
    ASSUME NEW gross \in Nat, NEW rate \in Nat, NEW m \in Nat \ {0}
    PROVE  TaughtFee(gross, rate, m) = Fee(gross, rate, m)
  <1> DEFINE c == Charge(gross, rate)
  <1>1. c \in Nat /\ gross * rate <= PerbillOne * c /\ PerbillOne * c < gross * rate + PerbillOne
    BY ChargeIsCeiling
  <1>2. TaughtFee(gross, rate, m) =
          IF gross = 0 \/ rate = 0 \/ c >= gross \/ gross - c < m THEN 0 ELSE c
    BY TaughtCeiling DEF TaughtFee
  <1>3. gross = 0 \/ rate = 0 => c = 0
    <2>1. gross = 0 \/ rate = 0 => gross * rate = 0
      OBVIOUS
    <2>2. 0 <= PerbillOne * 0 /\ PerbillOne * 0 < 0 + PerbillOne
      OBVIOUS
    <2> HIDE DEF c
    <2> QED
      BY <1>1, <2>1, <2>2, CeilingUnique
  <1>4. CASE rate <= PerbillOne
    <2>1. Fee(gross, rate, m) = IF gross - c < m THEN 0 ELSE c
      BY <1>4 DEF Fee, EffectiveRedeemFee
    <2> HIDE DEF c
    <2> QED
      BY <1>1, <1>2, <1>3, <2>1
  <1>5. CASE rate > PerbillOne
    <2>1. Charge(gross, 0) = 0
      <3>1. /\ Charge(gross, 0) \in Nat
            /\ PerbillOne * Charge(gross, 0) < gross * 0 + PerbillOne
        BY ChargeIsCeiling
      <3>2. gross * 0 = 0
        OBVIOUS
      <3>3. 0 <= PerbillOne * Charge(gross, 0) /\ PerbillOne * 0 = 0
        BY <3>1
      <3> QED
        BY <3>1, <3>2, <3>3, CeilingUnique
    <2>2. Fee(gross, rate, m) = 0
      BY <1>5, <2>1 DEF Fee, EffectiveRedeemFee
    <2>3. c >= gross
      <3> HIDE DEF c
      <3>1. PerbillOne * gross <= gross * rate
        BY <1>5
      <3>2. PerbillOne * gross <= PerbillOne * c
        <4>1. gross * rate \in Nat /\ PerbillOne * gross \in Nat /\ PerbillOne * c \in Nat
          BY <1>1
        <4> QED
          BY <1>1, <3>1, <4>1
      <3> QED
        BY <1>1, <3>2
    <2> QED
      BY <1>2, <2>2, <2>3
  <1> QED
    BY <1>4, <1>5

-----------------------------------------------------------------------------

(* The tickets of a vault in any typed state are exact.                    *)
LEMMA TicketsAgree ==
    ASSUME TypeOK
    PROVE  TicketExact
  <1> DEFINE quote(call, gross, s, rate, m) ==
               quoteRedemption(call, gross, s, publishedBps(rate), rate, m)
  <1> SUFFICES ASSUME NEW a \in Redeemable, NEW rate \in Rates, NEW m \in MinSplits
               PROVE  /\ quote("redeem_baseline_pair", a, score, rate, m) =
                           IF RateRefused(rate) THEN Unavailable ELSE PaidPair(a, rate, m)
                      /\ m > 0 => TaughtPairFee(a, score, rate, m) = PairFee(a, score, rate, m)
                      /\ \A side \in Sides :
                           quote("redeem_baseline", SideValue(side, a), Unread, rate, m) =
                             IF RateRefused(rate) THEN Unavailable ELSE PaidSide(side, a, rate, m)
    BY DEF TicketExact
  <1>1. a \in Nat /\ rate \in Nat /\ m \in Nat /\ score \in 0 .. Scale
    BY DEF Redeemable, TypeOK
  <1>2. publishedBps(rate) \in Nat
    BY <1>1, RateWithinOne, Division DEF publishedBps
  <1>3. /\ ~RateRefused(rate) => ~RateBlocked(publishedBps(rate), rate, m)
        /\ ~ScoreRefused(score) /\ score # Unread
    BY <1>1, <1>2 DEF RateBlocked, ScoreRefused, RateRefused, publishedBps, perbillToBps,
                      EffectiveRedeemFee
  <1>4. LongPay(a, score) \in Nat /\ ShortPay(a, score) \in Nat
    BY <1>1, LegsWithinSet
  <1>5. /\ pairLegs(a, score).long = LongPay(a, score)
        /\ pairLegs(a, score).short = ShortPay(a, score)
    BY DEF pairLegs, LongPay, ShortPay, MulScore
  <1>6. ~RateRefused(rate) =>
          redemptionFeePair(a, score, rate, m) = PairFee(a, score, rate, m)
    BY <1>1, <1>4, <1>5, ClientFeeIsFee DEF redemptionFeePair, PairFee
  <1>7. quote("redeem_baseline_pair", a, score, rate, m) =
          IF RateRefused(rate) THEN Unavailable ELSE PaidPair(a, rate, m)
    BY <1>3, <1>6 DEF quoteRedemption, ChargedCalls, PairCalls, PaidPair
  <1>8. m > 0 => TaughtPairFee(a, score, rate, m) = PairFee(a, score, rate, m)
    <2>1. m > 0 => m \in Nat \ {0}
      BY <1>1
    <2> QED
      BY <1>1, <1>4, <2>1, TaughtFeeIsFee DEF TaughtPairFee, PairFee
  <1>9. ASSUME NEW side \in Sides
        PROVE  quote("redeem_baseline", SideValue(side, a), Unread, rate, m) =
                 IF RateRefused(rate) THEN Unavailable ELSE PaidSide(side, a, rate, m)
    <2>1. SideValue(side, a) \in Nat
      BY <1>4 DEF SideValue
    <2>2. ~RateRefused(rate) =>
            redemptionFee(SideValue(side, a), rate, m) = Fee(SideValue(side, a), rate, m)
      BY <1>1, <2>1, ClientFeeIsFee
    <2> QED
      BY <1>3, <2>2 DEF quoteRedemption, ChargedCalls, PairCalls, PaidSide
  <1> QED
    BY <1>7, <1>8, <1>9

(* Whatever happened to the vault before, the ticket of a redemption at    *)
(* the live rate and floor is exactly what the chain pays.                 *)
THEOREM TicketsExact == Spec => []TicketExact
  <1>1. TypeOK => TicketExact
    BY TicketsAgree
  <1> QED
    BY <1>1, BaselineTypeCorrect, PTL

-----------------------------------------------------------------------------
(* The threshold of the waiver, and the bisection that looks for it.       *)

(* Above a charged payout every payout is charged.                         *)
LEMMA ChargedAbove ==
    ASSUME NEW gross \in Nat, NEW g \in 0 .. gross, NEW rate \in Nat, NEW m \in Nat,
           Fee(g, rate, m) > 0
    PROVE  Fee(gross, rate, m) > 0
  <1> DEFINE r == EffectiveRedeemFee(rate)
             C == Charge(gross, r)
             c == Charge(g, r)
  <1>1. r \in 0 .. PerbillOne /\ r \in Nat /\ g \in Nat
    BY RateWithinOne
  <1>2. /\ C \in Nat /\ gross * r <= PerbillOne * C
        /\ c \in Nat /\ PerbillOne * c < g * r + PerbillOne
    BY <1>1, ChargeIsCeiling
  <1>3. g - c <= gross - C
    BY <1>1, NetGrows
  <1>4. /\ Fee(gross, rate, m) = IF gross - C < m THEN 0 ELSE C
        /\ Fee(g, rate, m) = IF g - c < m THEN 0 ELSE c
    BY DEF Fee
  <1> HIDE DEF C, c
  <1>5. c > 0 /\ ~(g - c < m)
    BY <1>2, <1>4
  <1>6. ~(gross - C < m)
    BY <1>1, <1>2, <1>3, <1>5
  <1>7. C > 0
    <2> HIDE DEF r
    <2>1. g * r <= gross * r /\ g * r \in Nat /\ gross * r \in Nat
      <3>1. gross - g \in Nat /\ (gross - g) * r \in Nat /\ gross * r = g * r + (gross - g) * r
        BY <1>1
      <3> QED
        BY <1>1, <3>1
    <2>2. PerbillOne <= PerbillOne * c
      BY <1>2, <1>5
    <2>3. gross * r > 0
      BY <1>2, <2>1, <2>2
    <2>4. C # 0
      BY <1>2, <2>1, <2>3
    <2> QED
      BY <1>2, <2>4
  <1> QED
    BY <1>4, <1>6, <1>7

(* A rate the chain reads as zero charges nothing, and nothing is charged  *)
(* on no payout.                                                           *)
LEMMA NothingCharged ==
    ASSUME NEW gross \in Nat, NEW rate \in Nat, NEW m \in Nat,
           RateRefused(rate) \/ gross = 0
    PROVE  Fee(gross, rate, m) = 0
  <1> DEFINE r == EffectiveRedeemFee(rate)
             c == Charge(gross, r)
  <1>1. r \in Nat
    BY RateWithinOne
  <1>2. gross * r = 0
    BY <1>1 DEF EffectiveRedeemFee, RateRefused
  <1>3. c \in Nat /\ PerbillOne * c < gross * r + PerbillOne
    BY <1>1, ChargeIsCeiling
  <1>4. Fee(gross, rate, m) = IF gross - c < m THEN 0 ELSE c
    BY DEF Fee
  <1> HIDE DEF r, c
  <1>5. c = 0
    <2>1. c > 0 => PerbillOne <= PerbillOne * c
      BY <1>3
    <2> QED
      BY <1>2, <1>3, <2>1
  <1> QED
    BY <1>4, <1>5

(* The intervals of a search up to c, the half of one that is left, and    *)
(* one step of the search; f is what the search finds.                     *)
Intervals(c) == (0 .. c) \X (0 .. c)

Middle(p) == (p[1] + p[2]) \div 2

Half(rate, m, p) ==
    IF redemptionFee(Middle(p), rate, m) > 0 THEN <<p[1], Middle(p)>> ELSE <<Middle(p), p[2]>>

Halving(f, rate, m, p) == IF p[2] - p[1] <= 1 THEN p[2] ELSE f[Half(rate, m, p)]

Bisects(f, rate, m, c) == f = [p \in Intervals(c) |-> Halving(f, rate, m, p)]

(* From t on, and not before, the payouts are charged.                     *)
ChargedFrom(t, rate, m, c) == \A g \in 0 .. c : redemptionFee(g, rate, m) > 0 <=> t <= g

(* What the search finds when t is the first charged payout, also in an    *)
(* interval that misses it.                                                *)
Found(t, p) ==
    IF p[2] - p[1] <= 1 \/ p[2] < t THEN p[2]
    ELSE IF t <= p[1] THEN p[1] + 1 ELSE t

LEMMA HalfIsShorter ==
    ASSUME NEW c \in Nat, NEW rate, NEW m, NEW p \in Intervals(c), p[2] - p[1] > 1
    PROVE  /\ Middle(p) \in 0 .. c /\ p[1] < Middle(p) /\ Middle(p) < p[2]
           /\ Half(rate, m, p) \in Intervals(c)
           /\ Half(rate, m, p)[2] - Half(rate, m, p)[1] < p[2] - p[1]
           /\ Half(rate, m, p)[2] - Half(rate, m, p)[1] \in Nat
  <1>1. p[1] \in 0 .. c /\ p[2] \in 0 .. c
    BY DEF Intervals
  <1>2. ASSUME NEW x \in 0 .. c, NEW y \in 0 .. c, y - x > 1
        PROVE  (x + y) \div 2 \in 0 .. c /\ x < (x + y) \div 2 /\ (x + y) \div 2 < y
    BY <1>2
  <1>3. Middle(p) \in 0 .. c /\ p[1] < Middle(p) /\ Middle(p) < p[2]
    BY <1>1, <1>2 DEF Middle
  <1>4. CASE redemptionFee(Middle(p), rate, m) > 0
    <2>1. Half(rate, m, p) = <<p[1], Middle(p)>>
      BY <1>4 DEF Half
    <2> QED
      BY <1>1, <1>3, <2>1 DEF Intervals
  <1>5. CASE ~(redemptionFee(Middle(p), rate, m) > 0)
    <2>1. Half(rate, m, p) = <<Middle(p), p[2]>>
      BY <1>5 DEF Half
    <2> QED
      BY <1>1, <1>3, <2>1 DEF Intervals
  <1> QED
    BY <1>4, <1>5

(* What is found in an interval is what is found in the half that is left. *)
LEMMA FoundInHalf ==
    ASSUME NEW c \in Nat, NEW t \in Nat, NEW rate, NEW m, ChargedFrom(t, rate, m, c),
           NEW p \in Intervals(c), p[2] - p[1] > 1
    PROVE  Found(t, p) = Found(t, Half(rate, m, p))
  <1> DEFINE x   == p[1]
             y   == p[2]
             mid == Middle(p)
  <1>1. x \in 0 .. c /\ y \in 0 .. c
    BY DEF Intervals
  <1>2. mid \in 0 .. c /\ x < mid /\ mid < y
    BY HalfIsShorter
  <1>3. redemptionFee(mid, rate, m) > 0 <=> t <= mid
    BY <1>2 DEF ChargedFrom
  <1>4. Found(t, p) = IF y < t THEN y ELSE IF t <= x THEN x + 1 ELSE t
    <2>1. ~(y - x <= 1)
      BY <1>1
    <2> QED
      BY <2>1 DEF Found
  <1>5. CASE t <= mid
    <2>1. Half(rate, m, p) = <<x, mid>>
      BY <1>3, <1>5 DEF Half
    <2>2. Found(t, Half(rate, m, p)) =
            IF mid - x <= 1 \/ mid < t THEN mid ELSE IF t <= x THEN x + 1 ELSE t
      BY <2>1 DEF Found
    <2> HIDE DEF x, y, mid
    <2> QED
      BY <1>1, <1>2, <1>4, <1>5, <2>2
  <1>6. CASE ~(t <= mid)
    <2>1. Half(rate, m, p) = <<mid, y>>
      BY <1>3, <1>6 DEF Half
    <2>2. Found(t, Half(rate, m, p)) =
            IF y - mid <= 1 \/ y < t THEN y ELSE IF t <= mid THEN mid + 1 ELSE t
      BY <2>1 DEF Found
    <2> HIDE DEF x, y, mid
    <2> QED
      BY <1>1, <1>2, <1>4, <1>6, <2>2
  <1> QED
    BY <1>5, <1>6

(* The recursion of the bisection has a solution ...                       *)
LEMMA BisectionExists ==
    ASSUME NEW c \in Nat, NEW t \in Nat, NEW rate, NEW m, ChargedFrom(t, rate, m, c)
    PROVE  \E f : Bisects(f, rate, m, c)
  <1> DEFINE F == [p \in Intervals(c) |-> Found(t, p)]
  <1>1. ASSUME NEW p \in Intervals(c)
        PROVE  F[p] = Halving(F, rate, m, p)
    <2>1. CASE p[2] - p[1] <= 1
      BY <2>1 DEF Found, Halving
    <2>2. CASE ~(p[2] - p[1] <= 1)
      <3>1. p[2] - p[1] > 1
        BY <2>2 DEF Intervals
      <3>2. F[p] = Found(t, Half(rate, m, p)) /\ Half(rate, m, p) \in Intervals(c)
        BY <3>1, FoundInHalf, HalfIsShorter
      <3> QED
        BY <2>2, <3>2 DEF Halving
    <2> QED
      BY <2>1, <2>2
  <1>2. F = [p \in Intervals(c) |-> F[p]]
    OBVIOUS
  <1> HIDE DEF F
  <1>3. F = [p \in Intervals(c) |-> Halving(F, rate, m, p)]
    BY <1>1, <1>2
  <1> QED
    BY <1>3 DEF Bisects

(* ... and any solution finds the first charged payout: were it wrong in   *)
(* an interval, it would be wrong in a shortest one.                       *)
LEMMA BisectionFinds ==
    ASSUME NEW c \in Nat, NEW t \in Nat, NEW rate, NEW m, ChargedFrom(t, rate, m, c),
           NEW f, Bisects(f, rate, m, c)
    PROVE  \A p \in Intervals(c) : p[2] - p[1] \in Nat => f[p] = Found(t, p)
  <1> DEFINE Wrong  == {p \in Intervals(c) : p[2] - p[1] \in Nat /\ f[p] # Found(t, p)}
             Widths == {p[2] - p[1] : p \in Wrong}
  <1>1. SUFFICES ASSUME Wrong # {} PROVE FALSE
    OBVIOUS
  <1>2. Widths \subseteq Nat /\ Widths # {}
    BY <1>1
  <1>3. \E w \in Widths : \A v \in Widths : ~(v < w)
    <2> HIDE DEF Widths
    <2> QED
      BY <1>2, LeastNatural
  <1>4. PICK p \in Wrong : \A q \in Wrong : ~(q[2] - q[1] < p[2] - p[1])
    BY <1>3
  <1>5. f[p] = Halving(f, rate, m, p)
    BY <1>4 DEF Bisects
  <1>6. CASE p[2] - p[1] <= 1
    BY <1>4, <1>5, <1>6 DEF Found, Halving
  <1>7. CASE ~(p[2] - p[1] <= 1)
    <2>1. p \in Intervals(c) /\ p[2] - p[1] > 1
      BY <1>4, <1>7
    <2> DEFINE q == Half(rate, m, p)
    <2>2. q \in Intervals(c) /\ q[2] - q[1] < p[2] - p[1] /\ q[2] - q[1] \in Nat
      BY <2>1, HalfIsShorter
    <2>3. Found(t, p) = Found(t, q)
      BY <2>1, FoundInHalf
    <2>4. f[p] = f[q]
      BY <1>5, <1>7 DEF Halving
    <2> HIDE DEF q
    <2>5. f[q] = Found(t, q)
      BY <1>4, <2>2
    <2> QED
      BY <1>4, <2>3, <2>4, <2>5
  <1> QED
    BY <1>6, <1>7

(* The bisection finds the first charged payout, if the ceiling is charged. *)
LEMMA FirstChargedIsFound ==
    ASSUME NEW c \in Nat, NEW t \in 0 .. c, t # 0, NEW rate, NEW m, ChargedFrom(t, rate, m, c)
    PROVE  firstChargedGross(rate, m, c) = t
  <1> DEFINE Search == CHOOSE f : Bisects(f, rate, m, c)
  <1>1. redemptionFee(c, rate, m) > 0
    BY DEF ChargedFrom
  <1>2. firstChargedGross(rate, m, c) = Search[<<0, c>>]
    BY <1>1 DEF firstChargedGross, Bisects, Halving, Half, Middle, Intervals
  <1>3. Bisects(Search, rate, m, c)
    <2>1. \E f : Bisects(f, rate, m, c)
      BY BisectionExists
    <2> QED
      BY <2>1
  <1> HIDE DEF Search
  <1>4. <<0, c>> \in Intervals(c) /\ <<0, c>>[2] - <<0, c>>[1] \in Nat
    BY DEF Intervals
  <1>5. Search[<<0, c>>] = Found(t, <<0, c>>)
    BY <1>3, <1>4, BisectionFinds
  <1>6. Found(t, <<0, c>>) = t
    BY DEF Found
  <1> QED
    BY <1>2, <1>5, <1>6

(* The threshold of a vault in any typed state is exact.                   *)
LEMMA ThresholdsAgree ==
    ASSUME TypeOK
    PROVE  ThresholdExact
  <1> DEFINE charged(rate, m)   == {g \in Payable : Fee(g, rate, m) > 0}
             threshold(rate, m) == feeThreshold(publishedBps(rate), rate, m, escrowed)
  <1> SUFFICES ASSUME NEW rate \in Rates, NEW m \in MinSplits, state = "Settled"
               PROVE  IF threshold(rate, m).kind = "above"
                      THEN /\ threshold(rate, m).gross \in charged(rate, m)
                           /\ \A g \in charged(rate, m) : threshold(rate, m).gross <= g
                      ELSE charged(rate, m) = {}
    BY DEF ThresholdExact
  <1>1. rate \in Nat /\ m \in Nat /\ escrowed \in Nat /\ Payable = 0 .. escrowed
    BY DEF TypeOK, Payable
  <1>2. CASE RateRefused(rate)
    <2>1. threshold(rate, m).kind # "above"
      BY <1>2 DEF feeThreshold
    <2>2. \A g \in Payable : Fee(g, rate, m) = 0
      BY <1>1, <1>2, NothingCharged
    <2> QED
      BY <2>1, <2>2
  <1>3. CASE ~RateRefused(rate)
    <2>1. publishedBps(rate) \in Nat
      BY <1>1, RateWithinOne, Division DEF publishedBps
    <2>2. ~RateBlocked(publishedBps(rate), rate, m)
      BY <1>1, <1>3, <2>1 DEF RateBlocked, RateRefused, publishedBps, perbillToBps,
                              EffectiveRedeemFee
    <2> DEFINE first == firstChargedGross(rate, m, escrowed)
    <2>3. threshold(rate, m) = IF first = Unread THEN [kind |-> "never"]
                               ELSE [kind |-> "above", gross |-> first]
      BY <1>3, <2>2 DEF feeThreshold
    <2>4. \A g \in 0 .. escrowed : redemptionFee(g, rate, m) = Fee(g, rate, m)
      BY <1>1, <1>3, ClientFeeIsFee
    <2>5. CASE Fee(escrowed, rate, m) > 0
      <3>1. charged(rate, m) \subseteq Nat /\ charged(rate, m) # {}
        BY <1>1, <2>5
      <3>2. PICK t \in charged(rate, m) : \A g \in charged(rate, m) : ~(g < t)
        <4> HIDE DEF charged
        <4> QED
          BY <3>1, LeastNatural
      <3>3. t \in 0 .. escrowed /\ Fee(t, rate, m) > 0 /\ \A g \in charged(rate, m) : t <= g
        BY <1>1, <3>1, <3>2
      <3>4. ASSUME NEW g \in 0 .. escrowed
            PROVE  Fee(g, rate, m) > 0 <=> t <= g
        <4>1. ASSUME t <= g PROVE Fee(g, rate, m) > 0
          <5>1. g \in Nat /\ t \in 0 .. g
            BY <3>3, <4>1
          <5> QED
            BY <1>1, <3>3, <5>1, ChargedAbove
        <4> QED
          BY <1>1, <3>3, <4>1
      <3>5. t # 0
        BY <1>1, <3>3, NothingCharged
      <3>6. ChargedFrom(t, rate, m, escrowed)
        BY <2>4, <3>4 DEF ChargedFrom
      <3>7. first = t
        BY <1>1, <3>3, <3>5, <3>6, FirstChargedIsFound
      <3>8. t # Unread
        BY <3>3
      <3>9. threshold(rate, m) = [kind |-> "above", gross |-> t]
        BY <2>3, <3>7, <3>8
      <3> HIDE DEF threshold, charged
      <3> QED
        BY <3>2, <3>3, <3>9
    <2>6. CASE ~(Fee(escrowed, rate, m) > 0)
      <3>1. ~(redemptionFee(escrowed, rate, m) > 0)
        BY <1>1, <2>4, <2>6
      <3>2. first = Unread
        BY <3>1 DEF firstChargedGross
      <3>3. threshold(rate, m).kind # "above"
        BY <2>3, <3>2
      <3>4. \A g \in Payable : ~(Fee(g, rate, m) > 0)
        BY <1>1, <2>6, ChargedAbove
      <3> QED
        BY <3>3, <3>4
    <2> QED
      BY <2>5, <2>6
  <1> QED
    BY <1>2, <1>3

(* In every reachable state what the client quotes is what the chain does: *)
(* the ticket is what is paid, and the threshold it prints is the smallest *)
(* payout that is charged.                                                 *)
THEOREM QuotesExact == Spec => []QuoteExact
  <1>1. TypeOK => QuoteExact
    BY TicketsAgree, ThresholdsAgree DEF QuoteExact
  <1> QED
    BY <1>1, BaselineTypeCorrect, PTL

=============================================================================
