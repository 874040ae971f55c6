---------------------- MODULE ConditionalLedgerProofs ----------------------
(***************************************************************************)
(* For every set of holders, every scale, rate, floor and amount: the      *)
(* types of ConditionalLedger hold, the vault is always backed, and hence  *)
(* solvent in the sense of try_state_vault_conservation.  Each step of the *)
(* vault is a step of the taught vault or leaves it as it was, and what    *)
(* the explainer's checkConservation asserts holds of the chain's vault.   *)
(***************************************************************************)
EXTENDS LedgerTaught, Sums

USE ScaleAssumption, PerbillAssumption, InputsAssumption

-----------------------------------------------------------------------------
(* Arithmetic of the payouts.                                              *)

(* Amounts, rates and scores are naturals, and so are their products.      *)
LEMMA ProductIsNat ==
    ASSUME NEW x \in Nat, NEW y \in Nat
    PROVE  x * y \in Nat
  OBVIOUS

(* A floored division gives back at most what was divided.                 *)
LEMMA FloorBelow ==
    ASSUME NEW S \in Nat \ {0}, NEW x \in Nat
    PROVE  /\ x \div S \in Nat
           /\ S * (x \div S) <= x
  OBVIOUS

(* A floored leg is a natural worth at most its exact share.               *)
LEMMA MulScoreBelow ==
    ASSUME NEW a \in Nat, NEW s \in Nat
    PROVE  /\ MulScore(a, s) \in Nat
           /\ Scale * MulScore(a, s) <= a * s
  <1>1. a * s \in Nat
    OBVIOUS
  <1> QED
    BY <1>1, FloorBelow DEF MulScore

(* The effective rate of a natural record is a natural.                    *)
LEMMA ChargeIsNat ==
    ASSUME NEW gross \in Nat, NEW rate \in Nat
    PROVE  Charge(gross, EffectiveRedeemFee(rate)) \in Nat
  <1> DEFINE r       == EffectiveRedeemFee(rate)
             partial == (gross % PerbillOne) * r
  <1>1. r \in Nat
    BY DEF EffectiveRedeemFee
  <1>2. gross % PerbillOne \in Nat /\ gross \div PerbillOne \in Nat
    BY FloorBelow
  <1>3. partial \in Nat /\ (gross \div PerbillOne) * r \in Nat
    BY <1>1, <1>2
  <1>4. partial \div PerbillOne \in Nat
    BY <1>3, FloorBelow
  <1> HIDE DEF r, partial
  <1> QED
    BY <1>3, <1>4 DEF Charge, r, partial

(* The fee of redemption_fee is never negative.                            *)
LEMMA FeeIsNat ==
    ASSUME NEW gross \in Nat, NEW rate \in Nat, NEW m \in Nat
    PROVE  Fee(gross, rate, m) \in Nat
  BY ChargeIsNat DEF Fee

-----------------------------------------------------------------------------
(* Instruments.                                                            *)

(* Every branch and kind make one of the 14 instruments of a vault.        *)
LEMMA IdsOf ==
    /\ \A b \in Branches, k \in Kinds : <<b, k>> \in Ids
    /\ \A g \in Gates : /\ Yes(g) \in Kinds \ {"BranchUsdc", "Long", "Short"}
                        /\ No(g) \in Kinds \ {"BranchUsdc", "Long", "Short"}
    /\ "BranchUsdc" \in Kinds /\ "Long" \in Kinds /\ "Short" \in Kinds
    /\ \A B \in SUBSET Branches, K \in SUBSET Kinds : B \X K \in SUBSET Ids
  BY DEF Ids, Gates, Kinds, Yes, No

(* The YES and NO legs of the two gates are four different kinds.          *)
LEMMA YesNoDistinct ==
    ASSUME NEW g \in Gates, NEW h \in Gates
    PROVE  /\ Yes(g) # No(h)
           /\ Yes(g) = Yes(h) => g = h
           /\ No(g) = No(h) => g = h
  BY DEF Gates, Yes, No

(* The sets of instruments the operations burn and mint.                   *)
LEMMA BurntIds ==
    /\ Branches \X {"BranchUsdc"} \in SUBSET Ids
    /\ \A b \in Branches, k \in Kinds : {<<b, k>>} \in SUBSET Ids
    /\ \A b \in Branches : {b} \X {"Long", "Short"} \in SUBSET Ids
    /\ \A b \in Branches, g \in Gates : {b} \X {Yes(g), No(g)} \in SUBSET Ids
    /\ \A g \in Gates : WinningSide(g) \in Kinds
  <1>1. \A b \in Branches : {b} \in SUBSET Branches
    OBVIOUS
  <1>2. {"Long", "Short"} \in SUBSET Kinds /\ {"BranchUsdc"} \in SUBSET Kinds
    BY DEF Kinds
  <1>3. \A g \in Gates : WinningSide(g) \in Kinds /\ {Yes(g), No(g)} \in SUBSET Kinds
    BY IdsOf DEF WinningSide
  <1> QED
    BY <1>1, <1>2, <1>3, IdsOf

(* What burning and minting does to the books.                             *)
LEMMA RebookBooks ==
    ASSUME TypeOK,
           NEW who \in Accounts, NEW a \in Nat,
           NEW burns \in SUBSET Ids, NEW mints \in SUBSET Ids,
           Rebook(who, burns, mints, a)
    PROVE  /\ balance' \in [Ids -> [Accounts -> Nat]]
           /\ total' \in [Ids -> Nat]
           /\ \A id \in Ids : total'[id] = total[id] - Part(id, burns, a)
                                                     + Part(id, mints, a)
  <1>1. \A id \in Ids : /\ Part(id, burns, a) \in Nat
                        /\ Part(id, mints, a) \in Nat
    BY DEF Part
  <1>2. \A id \in Ids : balance[id][who] >= Part(id, burns, a)
    BY DEF Part, Rebook, TypeOK
  <1>3. \A id \in Ids : total[id] >= Part(id, burns, a)
    BY DEF Part, Rebook, TypeOK
  <1>4. \A id \in Ids : balance[id] \in [Accounts -> Nat] /\ total[id] \in Nat
    BY DEF TypeOK
  <1>5. balance' = [id \in Ids |-> [balance[id] EXCEPT ![who] =
                       @ - Part(id, burns, a) + Part(id, mints, a)]]
    BY DEF Rebook
  <1>6. total' = [id \in Ids |-> total[id] - Part(id, burns, a) + Part(id, mints, a)]
    BY DEF Rebook
  <1>7. ASSUME NEW id \in Ids
        PROVE  [balance[id] EXCEPT ![who] =
                  @ - Part(id, burns, a) + Part(id, mints, a)] \in [Accounts -> Nat]
    <2>1. balance[id][who] - Part(id, burns, a) + Part(id, mints, a) \in Nat
      BY <1>1, <1>2, <1>4
    <2> QED
      BY <2>1, <1>4
  <1>8. balance' \in [Ids -> [Accounts -> Nat]]
    BY <1>5, <1>7
  <1>9. total' \in [Ids -> Nat]
    BY <1>1, <1>3, <1>4, <1>6
  <1> QED
    BY <1>6, <1>8, <1>9

(* A payout leaves the escrow and the accrual naturals.                    *)
LEMMA PayOutTypes ==
    ASSUME TypeOK, NEW gross \in Nat, NEW fee \in Nat, PayOut(gross, fee)
    PROVE  escrowed' \in Nat /\ accrued' \in Nat
  BY DEF TypeOK, PayOut

(* What claimant_treatment leaves of a fee is never negative.              *)
LEMMA ChargedIsNat ==
    ASSUME NEW who, NEW fee \in Nat
    PROVE  Charged(who, fee) \in Nat
  BY DEF Charged

-----------------------------------------------------------------------------
(* Type correctness, one step per operation.                               *)

(* A split keeps every counter a natural.                                  *)
LEMMA SplitTypes ==
    ASSUME TypeOK, NEW who \in Accounts, NEW a \in Amounts, Split(who, a)
    PROVE  TypeOK'
  <1>1. a \in Nat
    OBVIOUS
  <1>2. Branches \X {"BranchUsdc"} \in SUBSET Ids
    BY BurntIds
  <1>3. Rebook(who, {}, Branches \X {"BranchUsdc"}, a)
    BY DEF Split
  <1>4. balance' \in [Ids -> [Accounts -> Nat]] /\ total' \in [Ids -> Nat]
    BY <1>1, <1>2, <1>3, RebookBooks
  <1> QED
    BY <1>1, <1>4 DEF TypeOK, Split, terms

(* A merge keeps every counter a natural: each subtraction is covered.     *)
LEMMA MergeTypes ==
    ASSUME TypeOK, NEW who \in Accounts, NEW a \in Amounts, Merge(who, a)
    PROVE  TypeOK'
  <1>1. a \in Nat
    OBVIOUS
  <1>2. Branches \X {"BranchUsdc"} \in SUBSET Ids
    BY BurntIds
  <1>3. Rebook(who, Branches \X {"BranchUsdc"}, {}, a)
    BY DEF Merge
  <1>4. balance' \in [Ids -> [Accounts -> Nat]] /\ total' \in [Ids -> Nat]
    <2>1. {} \in SUBSET Ids
      OBVIOUS
    <2> QED
      BY <1>1, <1>2, <1>3, <2>1, RebookBooks
  <1>5. escrowed' \in Nat /\ accrued' \in Nat
    BY <1>1, PayOutTypes DEF Merge
  <1>6. usdc' \in [Branches -> Nat]
    BY <1>1 DEF Merge, TypeOK
  <1> QED
    BY <1>4, <1>5, <1>6 DEF TypeOK, Merge, terms

(* The four operations that trade branch-USDC against sets of a branch.    *)
LEMMA SetTypes ==
    ASSUME TypeOK, NEW who \in Accounts, NEW a \in Amounts, NEW b \in Branches,
           NEW g \in Gates,
           \/ \E origin \in Origins, m \in MinSplits : SplitScalar(origin, m, b, who, a)
           \/ MergeScalar(b, who, a)
           \/ \E origin \in Origins, m \in MinSplits : SplitGate(origin, m, b, g, who, a)
           \/ MergeGate(b, g, who, a)
    PROVE  TypeOK'
  <1>1. a \in Nat
    OBVIOUS
  <1> DEFINE U == {<<b, "BranchUsdc">>}
             L == {b} \X {"Long", "Short"}
             G == {b} \X {Yes(g), No(g)}
  <1>2. U \in SUBSET Ids /\ L \in SUBSET Ids /\ G \in SUBSET Ids
    BY BurntIds DEF Kinds
  <1>3. \/ Rebook(who, U, L, a) \/ Rebook(who, L, U, a)
        \/ Rebook(who, U, G, a) \/ Rebook(who, G, U, a)
    BY DEF SplitScalar, MergeScalar, SplitGate, MergeGate
  <1>4. balance' \in [Ids -> [Accounts -> Nat]] /\ total' \in [Ids -> Nat]
    <2> HIDE DEF U, L, G
    <2> QED
      BY <1>1, <1>2, <1>3, RebookBooks
  <1>5. usdc' \in [Branches -> Nat]
    BY <1>1 DEF SplitScalar, MergeScalar, SplitGate, MergeGate, TypeOK
  <1>6. scalarSets' \in [Branches -> Nat]
    BY <1>1 DEF SplitScalar, MergeScalar, SplitGate, MergeGate, TypeOK
  <1>7. gateSets' \in [Branches -> [Gates -> Nat]]
    <2>1. CASE \E origin \in Origins, m \in MinSplits : SplitGate(origin, m, b, g, who, a)
      BY <1>1, <2>1 DEF SplitGate, TypeOK
    <2>2. CASE MergeGate(b, g, who, a)
      BY <1>1, <2>2 DEF MergeGate, TypeOK
    <2> QED
      BY <2>1, <2>2 DEF SplitScalar, MergeScalar, TypeOK
  <1> QED
    BY <1>4, <1>5, <1>6, <1>7 DEF TypeOK, SplitScalar, MergeScalar, SplitGate,
       MergeGate, terms

(* A transfer keeps every balance a natural, also when the whole balance   *)
(* is swept.                                                               *)
LEMMA TransferTypes ==
    ASSUME TypeOK, NEW origin \in Origins, NEW id \in Ids, NEW from \in Accounts,
           NEW to \in Accounts, NEW a \in Amounts, Transfer(origin, id, from, to, a)
    PROVE  TypeOK'
  <1> DEFINE moved == Moved(origin, id, from, a)
             row   == [w \in Accounts |-> balance[id][w]
                                          - (IF w = from THEN moved ELSE 0)
                                          + (IF w = to THEN moved ELSE 0)]
  <1>1. moved \in Nat /\ balance[id][from] >= moved
    BY DEF Transfer, Moved, TypeOK
  <1>2. balance' = [balance EXCEPT ![id] = row]
    BY DEF Transfer
  <1>3. \A w \in Accounts : balance[id][w] \in Nat
    BY DEF TypeOK
  <1>4. row \in [Accounts -> Nat]
    <2> HIDE DEF moved
    <2> QED
      BY <1>1, <1>3
  <1>5. balance' \in [Ids -> [Accounts -> Nat]]
    <2> HIDE DEF row
    <2> QED
      BY <1>2, <1>4 DEF TypeOK
  <1> QED
    BY <1>5 DEF TypeOK, Transfer, terms, supplies

(* The authorities' calls keep the vault's terms in their ranges; a score  *)
(* is at most Scale.                                                       *)
LEMMA DecideTypes ==
    ASSUME TypeOK, Decide
    PROVE  TypeOK'
  <1>1. ASSUME NEW w \in Branches, Resolve(w)
        PROVE  TypeOK'
    BY <1>1 DEF TypeOK, Resolve, supplies, claims
  <1>2. ASSUME Void
        PROVE  TypeOK'
    BY <1>2 DEF TypeOK, Void, supplies, claims, NoBranch
  <1>3. ASSUME NEW s \in Scores, SettleScalar(s)
        PROVE  TypeOK'
    BY <1>3 DEF TypeOK, SettleScalar, supplies, claims
  <1>4. ASSUME NEW g \in LiveGates, NEW o \in {"True", "False"}, SettleGate(g, o)
        PROVE  TypeOK'
    BY <1>4 DEF TypeOK, SettleGate, supplies, claims
  <1> QED
    BY <1>1, <1>2, <1>3, <1>4 DEF Decide

(* Every redemption burns instruments of the vault and pays a natural.     *)
LEMMA RedeemBooks ==
    ASSUME TypeOK, NEW who \in Accounts, NEW a \in Amounts,
           NEW burns \in SUBSET Ids, NEW gross \in Nat, NEW fee \in Nat,
           Rebook(who, burns, {}, a), PayOut(gross, fee)
    PROVE  /\ balance' \in [Ids -> [Accounts -> Nat]]
           /\ total' \in [Ids -> Nat]
           /\ escrowed' \in Nat
           /\ accrued' \in Nat
           /\ escrowed' = escrowed - gross
           /\ \A id \in Ids : total'[id] = total[id] - Part(id, burns, a)
  <1>1. {} \in SUBSET Ids /\ a \in Nat
    OBVIOUS
  <1>2. /\ balance' \in [Ids -> [Accounts -> Nat]]
        /\ total' \in [Ids -> Nat]
        /\ \A id \in Ids : total'[id] = total[id] - Part(id, burns, a) + Part(id, {}, a)
    BY <1>1, RebookBooks
  <1>3. escrowed' \in Nat /\ accrued' \in Nat
    BY PayOutTypes
  <1>4. \A id \in Ids : /\ Part(id, {}, a) = 0
                        /\ Part(id, burns, a) \in Int
                        /\ total[id] \in Int
    BY <1>1 DEF Part, TypeOK
  <1>5. \A id \in Ids : total'[id] = total[id] - Part(id, burns, a)
    BY <1>2, <1>4
  <1>6. escrowed' = escrowed - gross
    BY DEF PayOut
  <1> QED
    BY <1>2, <1>3, <1>5, <1>6

(* What redemptions pay, and the fees they leave behind, are naturals.     *)
LEMMA PaymentsAreNat ==
    ASSUME TypeOK, NEW who \in Accounts, NEW a \in Nat,
           NEW rate \in Nat, NEW m \in Nat
    PROVE  /\ LongPay(a, score) \in Nat
           /\ ShortPay(a, score) \in Nat
           /\ \A side \in {"Long", "Short"} : SideValue(side, a) \in Nat
           /\ \A x \in Nat : Charged(who, Fee(x, rate, m)) \in Nat
           /\ Charged(who, PairFee(a, score, rate, m)) \in Nat
           /\ \A kind \in Kinds : VoidPay(kind, a) \in Nat
  <1>1. score \in Nat /\ Scale - score \in Nat
    BY DEF TypeOK
  <1>2. LongPay(a, score) \in Nat /\ ShortPay(a, score) \in Nat
    BY <1>1, MulScoreBelow DEF LongPay, ShortPay
  <1>3. \A x \in Nat : Fee(x, rate, m) \in Nat
    BY FeeIsNat
  <1>4. PairFee(a, score, rate, m) \in Nat
    BY <1>2, <1>3 DEF PairFee
  <1> QED
    BY <1>2, <1>3, <1>4, ChargedIsNat DEF SideValue, VoidPay

(* No redemption can push a supply, a balance or the escrow below zero.    *)
LEMMA ClaimTypes ==
    ASSUME TypeOK, NEW who \in Accounts, NEW a \in Amounts, Claim(who, a)
    PROVE  TypeOK'
  <1>1. a \in Nat
    OBVIOUS
  <1>2. ASSUME Redeem(who, a)
        PROVE  TypeOK'
    <2>1. winner \in Branches
      BY <1>2 DEF Redeem, TypeOK
    <2>2. {<<winner, "BranchUsdc">>} \in SUBSET Ids
      BY <2>1, BurntIds DEF Kinds
    <2>3. /\ balance' \in [Ids -> [Accounts -> Nat]]
          /\ total' \in [Ids -> Nat]
          /\ escrowed' \in Nat /\ accrued' \in Nat
      BY <1>1, <1>2, <2>2, RedeemBooks DEF Redeem
    <2>4. usdc' \in [Branches -> Nat]
      BY <1>1, <1>2 DEF Redeem, TypeOK
    <2> QED
      BY <1>2, <2>3, <2>4 DEF TypeOK, Redeem, terms
  <1>3. ASSUME NEW rate \in Rates, NEW m \in MinSplits, NEW side \in {"Long", "Short"},
               RedeemScalar(rate, m, side, who, a)
        PROVE  TypeOK'
    <2> DEFINE pay == SideValue(side, a)
               fee == Charged(who, Fee(SideValue(side, a), rate, m))
    <2>1. winner \in Branches
      BY <1>3 DEF RedeemScalar, TypeOK
    <2>2. {<<winner, side>>} \in SUBSET Ids
      BY <2>1, BurntIds DEF Kinds
    <2>3. rate \in Nat /\ m \in Nat
      OBVIOUS
    <2>4. pay \in Nat /\ fee \in Nat
      BY <1>1, <2>3, PaymentsAreNat
    <2>5. PayOut(pay, fee) /\ Rebook(who, {<<winner, side>>}, {}, a)
      BY <1>3 DEF RedeemScalar
    <2>6. /\ balance' \in [Ids -> [Accounts -> Nat]]
          /\ total' \in [Ids -> Nat]
          /\ escrowed' \in Nat /\ accrued' \in Nat
      <3> HIDE DEF pay, fee
      <3> QED
        BY <2>2, <2>4, <2>5, RedeemBooks
    <2> QED
      BY <1>3, <2>6 DEF TypeOK, RedeemScalar, terms, supplies
  <1>4. ASSUME NEW rate \in Rates, NEW m \in MinSplits,
               RedeemScalarPair(rate, m, who, a)
        PROVE  TypeOK'
    <2> DEFINE fee == Charged(who, PairFee(a, score, rate, m))
    <2>1. winner \in Branches
      BY <1>4 DEF RedeemScalarPair, TypeOK
    <2>2. {winner} \X {"Long", "Short"} \in SUBSET Ids
      BY <2>1, BurntIds
    <2>3. rate \in Nat /\ m \in Nat
      OBVIOUS
    <2>4. fee \in Nat
      BY <1>1, <2>3, PaymentsAreNat
    <2>5. PayOut(a, fee) /\ Rebook(who, {winner} \X {"Long", "Short"}, {}, a)
      BY <1>4 DEF RedeemScalarPair
    <2>6. /\ balance' \in [Ids -> [Accounts -> Nat]]
          /\ total' \in [Ids -> Nat]
          /\ escrowed' \in Nat /\ accrued' \in Nat
      <3> HIDE DEF fee
      <3> QED
        BY <1>1, <2>2, <2>4, <2>5, RedeemBooks
    <2>7. scalarSets' \in [Branches -> Nat]
      BY <1>1, <1>4 DEF RedeemScalarPair, TypeOK
    <2> QED
      BY <1>4, <2>6, <2>7 DEF TypeOK, RedeemScalarPair, terms
  <1>5. ASSUME NEW rate \in Rates, NEW m \in MinSplits, NEW g \in LiveGates,
               RedeemGate(rate, m, g, who, a)
        PROVE  TypeOK'
    <2> DEFINE fee == Charged(who, Fee(a, rate, m))
    <2>1. winner \in Branches
      BY <1>5 DEF RedeemGate, TypeOK
    <2>2. {<<winner, WinningSide(g)>>} \in SUBSET Ids
      BY <2>1, BurntIds
    <2>3. rate \in Nat /\ m \in Nat
      OBVIOUS
    <2>4. fee \in Nat
      BY <1>1, <2>3, PaymentsAreNat
    <2>5. PayOut(a, fee) /\ Rebook(who, {<<winner, WinningSide(g)>>}, {}, a)
      BY <1>5 DEF RedeemGate
    <2>6. /\ balance' \in [Ids -> [Accounts -> Nat]]
          /\ total' \in [Ids -> Nat]
          /\ escrowed' \in Nat /\ accrued' \in Nat
      <3> HIDE DEF fee
      <3> QED
        BY <1>1, <2>2, <2>4, <2>5, RedeemBooks
    <2> QED
      BY <1>5, <2>6 DEF TypeOK, RedeemGate, terms, supplies
  <1>6. ASSUME NEW b \in Branches, NEW kind \in Kinds, RedeemVoid(b, kind, who, a)
        PROVE  TypeOK'
    <2>1. VoidPay(kind, a) \in Nat /\ 0 \in Nat
      BY <1>1 DEF VoidPay
    <2>2. {<<b, kind>>} \in SUBSET Ids
      BY BurntIds
    <2>3. /\ balance' \in [Ids -> [Accounts -> Nat]]
          /\ total' \in [Ids -> Nat]
          /\ escrowed' \in Nat /\ accrued' \in Nat
      BY <1>6, <2>1, <2>2, RedeemBooks DEF RedeemVoid
    <2>4. usdc' \in [Branches -> Nat]
      BY <1>1, <1>6 DEF RedeemVoid, TypeOK
    <2> QED
      BY <1>6, <2>3, <2>4 DEF TypeOK, RedeemVoid, terms
  <1> QED
    BY <1>2, <1>3, <1>4, <1>5, <1>6 DEF Claim

(* Type correctness: TypeOK of ConditionalLedger, for every instance.      *)
THEOREM TypeCorrect == Spec => []TypeOK
  <1>1. Init => TypeOK
    BY DEF Init, TypeOK, NoBranch
  <1>2. TypeOK /\ [Next]_vars => TypeOK'
    <2> SUFFICES ASSUME TypeOK, [Next]_vars PROVE TypeOK'
      OBVIOUS
    <2>1. CASE Decide
      BY <2>1, DecideTypes
    <2>2. ASSUME NEW who \in Accounts, NEW a \in Amounts, Trade(who, a)
          PROVE  TypeOK'
      <3>1. "Survival" \in Gates
        BY DEF Gates
      <3>2. ASSUME NEW b \in LiveBranches,
                   \/ \E o \in Origins, m \in MinSplits : SplitScalar(o, m, b, who, a)
                   \/ \E o \in Origins, m \in MinSplits, h \in LiveGates :
                        SplitGate(o, m, b, h, who, a)
            PROVE  TypeOK'
        BY <3>1, <3>2, SetTypes
      <3>3. ASSUME NEW b \in LiveBranches,
                   \/ MergeScalar(b, who, a)
                   \/ \E h \in LiveGates : MergeGate(b, h, who, a)
            PROVE  TypeOK'
        BY <3>1, <3>3, SetTypes
      <3> QED
        BY <2>2, <3>2, <3>3, SplitTypes, MergeTypes, TransferTypes DEF Trade
    <2>3. ASSUME NEW who \in Accounts, NEW a \in Amounts, Claim(who, a)
          PROVE  TypeOK'
      BY <2>3, ClaimTypes
    <2>4. CASE SweepRedemptionFees
      BY <2>4 DEF SweepRedemptionFees, TypeOK, terms, supplies, claims
    <2>5. CASE UNCHANGED vars
      BY <2>5 DEF vars, TypeOK
    <2> QED
      BY <2>1, <2>2, <2>3, <2>4, <2>5 DEF Next
  <1> QED
    BY <1>1, <1>2, PTL DEF Spec

-----------------------------------------------------------------------------
(* The vault stays backed, one step per operation.                         *)

(* What burning and minting does to the total of one instrument.           *)
LEMMA RebookTotal ==
    ASSUME TypeOK, NEW who \in Accounts, NEW a \in Nat,
           NEW burns \in SUBSET Ids, NEW mints \in SUBSET Ids,
           Rebook(who, burns, mints, a),
           NEW b \in Branches, NEW k \in Kinds
    PROVE  /\ total[<<b, k>>] \in Nat
           /\ total'[<<b, k>>] \in Nat
           /\ <<b, k>> \in burns => total[<<b, k>>] >= a
           /\ <<b, k>> \in burns /\ <<b, k>> \notin mints =>
                total'[<<b, k>>] = total[<<b, k>>] - a
           /\ <<b, k>> \notin burns /\ <<b, k>> \in mints =>
                total'[<<b, k>>] = total[<<b, k>>] + a
           /\ <<b, k>> \notin burns /\ <<b, k>> \notin mints =>
                total'[<<b, k>>] = total[<<b, k>>]
  <1>1. <<b, k>> \in Ids
    BY IdsOf
  <1>2. total[<<b, k>>] \in Nat /\ total'[<<b, k>>] \in Nat
    BY <1>1, RebookBooks DEF TypeOK
  <1>3. total'[<<b, k>>] = total[<<b, k>>] - Part(<<b, k>>, burns, a)
                                          + Part(<<b, k>>, mints, a)
    BY <1>1, RebookBooks
  <1>4. <<b, k>> \in burns => total[<<b, k>>] >= a
    BY DEF Rebook
  <1> QED
    BY <1>2, <1>3, <1>4 DEF Part

(* The supply counters are naturals, and what a gate can cost is one too.  *)
LEMMA CountersAreNat ==
    ASSUME TypeOK, NEW b \in Branches
    PROVE  /\ usdc[b] \in Nat /\ scalarSets[b] \in Nat /\ escrowed \in Nat
           /\ \A g \in Gates : gateSets[b][g] \in Nat
           /\ gateSets[b]["Survival"] \in Nat /\ gateSets[b]["Security"] \in Nat
  BY DEF TypeOK, Gates

(* A split raises the escrow and both branches' supplies together.         *)
LEMMA SplitBacked ==
    ASSUME TypeOK, Backed, NEW who \in Accounts, NEW a \in Amounts, Split(who, a)
    PROVE  Backed'
  <1> DEFINE none == {}
             minted == Branches \X {"BranchUsdc"}
  <1>1. a \in Nat /\ none \in SUBSET Ids /\ minted \in SUBSET Ids
    BY BurntIds
  <1>2. Rebook(who, none, minted, a)
    BY DEF Split
  <1>3. ASSUME NEW b \in Branches, NEW k \in Kinds
        PROVE  /\ total[<<b, k>>] \in Nat
               /\ k = "BranchUsdc" => total'[<<b, k>>] = total[<<b, k>>] + a
               /\ k # "BranchUsdc" => total'[<<b, k>>] = total[<<b, k>>]
    <2>1. <<b, k>> \in minted <=> k = "BranchUsdc"
      OBVIOUS
    <2>2. <<b, k>> \notin none
      OBVIOUS
    <2> HIDE DEF minted, none
    <2> QED
      BY <1>1, <1>2, <2>1, <2>2, RebookTotal
  <1>4. state = "Open" /\ state' = "Open" /\ escrowed' = escrowed + a
    BY DEF Split, terms
  <1>5. ASSUME NEW b \in Branches
        PROVE  SupplyMatches(b)'
    <2>1. SupplyMatches(b)
      BY <1>4 DEF Backed
    <2>2. /\ usdc'[b] = usdc[b] + a
          /\ UNCHANGED <<scalarSets, gateSets>>
      BY DEF Split
    <2>3. /\ total'[<<b, "BranchUsdc">>] = usdc'[b]
          /\ total'[<<b, "Long">>] = scalarSets'[b]
          /\ total'[<<b, "Short">>] = scalarSets'[b]
      BY <1>3, <2>1, <2>2 DEF SupplyMatches, Kinds
    <2>4. ASSUME NEW g \in Gates
          PROVE  /\ total'[<<b, Yes(g)>>] = gateSets'[b][g]
                 /\ total'[<<b, No(g)>>] = gateSets'[b][g]
      BY <1>3, <2>1, <2>2, IdsOf DEF SupplyMatches
    <2> QED
      BY <1>1, <1>4, <2>1, <2>2, <2>3, <2>4, CountersAreNat DEF SupplyMatches
  <1> QED
    BY <1>4, <1>5 DEF Backed

(* merge takes a from the escrow and from the branch-USDC of both branches.*)
LEMMA MergeBacked ==
    ASSUME TypeOK, Backed, NEW who \in Accounts, NEW a \in Amounts, Merge(who, a)
    PROVE  Backed' /\ \A c \in Branches : SupplyMatches(c) => SupplyMatches(c)'
  <1> DEFINE none == {}
             burnt == Branches \X {"BranchUsdc"}
  <1>1. a \in Nat /\ none \in SUBSET Ids /\ burnt \in SUBSET Ids
    BY BurntIds
  <1>2. Rebook(who, burnt, none, a)
    BY DEF Merge
  <1>3. ASSUME NEW b \in Branches, NEW k \in Kinds
        PROVE  /\ total[<<b, k>>] \in Nat
               /\ k = "BranchUsdc" => total'[<<b, k>>] = total[<<b, k>>] - a
               /\ k # "BranchUsdc" => total'[<<b, k>>] = total[<<b, k>>]
    <2>1. <<b, k>> \in burnt <=> k = "BranchUsdc"
      OBVIOUS
    <2>2. <<b, k>> \notin none
      OBVIOUS
    <2> HIDE DEF burnt, none
    <2> QED
      BY <1>1, <1>2, <2>1, <2>2, RebookTotal
  <1>4. state' = state /\ escrowed' = escrowed - a
    BY DEF Merge, PayOut, terms
  <1>5. UNCHANGED <<scalarSets, gateSets>> /\ \A b \in Branches : usdc'[b] = usdc[b] - a
    BY DEF Merge
  <1>6. ASSUME NEW b \in Branches, SupplyMatches(b)
        PROVE  SupplyMatches(b)'
    <2>1. /\ total'[<<b, "BranchUsdc">>] = usdc'[b]
          /\ total'[<<b, "Long">>] = scalarSets'[b]
          /\ total'[<<b, "Short">>] = scalarSets'[b]
      BY <1>3, <1>5, <1>6 DEF SupplyMatches, Kinds
    <2>2. ASSUME NEW g \in Gates
          PROVE  /\ total'[<<b, Yes(g)>>] = gateSets'[b][g]
                 /\ total'[<<b, No(g)>>] = gateSets'[b][g]
      BY <1>3, <1>5, <1>6, IdsOf DEF SupplyMatches
    <2> QED
      BY <1>1, <1>4, <1>5, <1>6, <2>1, <2>2, CountersAreNat DEF SupplyMatches
  <1>7. ASSUME NEW b \in Branches, CountersCover(b)
        PROVE  CountersCover(b)'
    <2>1. /\ total'[<<b, "BranchUsdc">>] = usdc'[b]
          /\ total'[<<b, "Long">>] <= scalarSets'[b]
          /\ total'[<<b, "Short">>] <= scalarSets'[b]
      BY <1>3, <1>5, <1>7 DEF CountersCover, Kinds
    <2>2. ASSUME NEW g \in Gates
          PROVE  /\ total'[<<b, Yes(g)>>] <= gateSets'[b][g]
                 /\ total'[<<b, No(g)>>] <= gateSets'[b][g]
      BY <1>3, <1>5, <1>7, IdsOf DEF CountersCover
    <2> QED
      BY <2>1, <2>2 DEF CountersCover
  <1>8. ASSUME NEW b \in Branches
        PROVE  /\ BranchWeight(b)' = BranchWeight(b) - 2 * a
               /\ BranchWeight(b) \in Int
    <2>1. "BranchUsdc" \in Kinds /\ {"Long", "Short", "SurvivalYes", "SurvivalNo",
                                      "SecurityYes", "SecurityNo"} \subseteq Kinds \ {"BranchUsdc"}
      BY DEF Kinds
    <2> QED
      BY <1>1, <1>3, <2>1 DEF BranchWeight
  <1>9. 4 * escrowed >= BranchWeight("Accept") + BranchWeight("Reject") =>
        4 * escrowed' >= BranchWeight("Accept")' + BranchWeight("Reject")'
    BY <1>1, <1>4, <1>8, CountersAreNat DEF Branches
  <1>10. state # "ScalarSettled"
    BY DEF Merge, Mergeable
  <1>11. Backed'
    BY <1>4, <1>6, <1>7, <1>9, <1>10 DEF Backed
  <1> QED
    BY <1>6, <1>11

(* split_scalar trades branch-USDC for sets while the vault is Open.      *)
LEMMA SplitScalarBacked ==
    ASSUME TypeOK, Backed, NEW who \in Accounts, NEW a \in Amounts, NEW b \in Branches,
           NEW origin \in Origins, NEW m \in MinSplits,
           SplitScalar(origin, m, b, who, a)
    PROVE  Backed'
  <1> DEFINE unit == {<<b, "BranchUsdc">>}
             sets == {b} \X {"Long", "Short"}
  <1>1. a \in Nat /\ unit \in SUBSET Ids /\ sets \in SUBSET Ids
    BY BurntIds DEF Kinds
  <1>2. Rebook(who, unit, sets, a)
    BY DEF SplitScalar
  <1>3. ASSUME NEW c \in Branches, NEW k \in Kinds
        PROVE  /\ total[<<c, k>>] \in Nat
               /\ c = b /\ k = "BranchUsdc" => total'[<<c, k>>] = total[<<c, k>>] - a
               /\ c = b /\ k \in {"Long", "Short"} => total'[<<c, k>>] = total[<<c, k>>] + a
               /\ c # b \/ k \notin {"BranchUsdc"} \cup {"Long", "Short"} => total'[<<c, k>>] = total[<<c, k>>]
    <2>1. /\ <<c, k>> \in unit <=> c = b /\ k = "BranchUsdc"
          /\ <<c, k>> \in sets <=> c = b /\ k \in {"Long", "Short"}
      OBVIOUS
    <2>2. "BranchUsdc" \notin {"Long", "Short"}
      BY IdsOf
    <2> HIDE DEF unit, sets
    <2> QED
      BY <1>1, <1>2, <2>1, <2>2, RebookTotal
  <1>4. state = "Open" /\ state' = state /\ escrowed' = escrowed
    BY DEF SplitScalar, terms
  <1>5. ASSUME NEW c \in Branches
        PROVE  /\ usdc'[c] = IF c = b THEN usdc[c] - a ELSE usdc[c]
               /\ scalarSets'[c] = IF c = b THEN scalarSets[c] + a ELSE scalarSets[c]
               /\ gateSets'[c] = gateSets[c]
    BY DEF SplitScalar, TypeOK
  <1>6. ASSUME NEW c \in Branches, SupplyMatches(c)
        PROVE  SupplyMatches(c)'
    <2>1. total'[<<c, "BranchUsdc">>] = usdc'[c]
      BY <1>3, <1>5, <1>6, IdsOf DEF SupplyMatches
    <2>2. /\ total'[<<c, "Long">>] = scalarSets'[c]
          /\ total'[<<c, "Short">>] = scalarSets'[c]
      BY <1>1, <1>3, <1>5, <1>6, IdsOf, CountersAreNat DEF SupplyMatches
    <2>3. ASSUME NEW h \in Gates
          PROVE  /\ total'[<<c, Yes(h)>>] = gateSets'[c][h]
                 /\ total'[<<c, No(h)>>] = gateSets'[c][h]
      BY <1>1, <1>3, <1>5, <1>6, IdsOf, CountersAreNat DEF SupplyMatches
    <2>4. usdc'[c] + scalarSets'[c] + gateSets'[c]["Survival"] + gateSets'[c]["Security"]
            = escrowed'
      BY <1>1, <1>4, <1>5, <1>6, CountersAreNat DEF SupplyMatches, Gates
    <2> QED
      BY <2>1, <2>2, <2>3, <2>4 DEF SupplyMatches
  <1> QED
    BY <1>4, <1>6 DEF Backed

(* merge_scalar trades sets for branch-USDC; in a void it keeps the debt. *)
LEMMA MergeScalarBacked ==
    ASSUME TypeOK, Backed, NEW who \in Accounts, NEW a \in Amounts, NEW b \in Branches,
           MergeScalar(b, who, a)
    PROVE  Backed' /\ \A c \in Branches : SupplyMatches(c) => SupplyMatches(c)'
  <1> DEFINE unit == {<<b, "BranchUsdc">>}
             sets == {b} \X {"Long", "Short"}
  <1>1. a \in Nat /\ unit \in SUBSET Ids /\ sets \in SUBSET Ids
    BY BurntIds DEF Kinds
  <1>2. Rebook(who, sets, unit, a)
    BY DEF MergeScalar
  <1>3. ASSUME NEW c \in Branches, NEW k \in Kinds
        PROVE  /\ total[<<c, k>>] \in Nat
               /\ c = b /\ k = "BranchUsdc" => total'[<<c, k>>] = total[<<c, k>>] + a
               /\ c = b /\ k \in {"Long", "Short"} => total'[<<c, k>>] = total[<<c, k>>] - a
               /\ c # b \/ k \notin {"BranchUsdc"} \cup {"Long", "Short"} => total'[<<c, k>>] = total[<<c, k>>]
    <2>1. /\ <<c, k>> \in unit <=> c = b /\ k = "BranchUsdc"
          /\ <<c, k>> \in sets <=> c = b /\ k \in {"Long", "Short"}
      OBVIOUS
    <2>2. "BranchUsdc" \notin {"Long", "Short"}
      BY IdsOf
    <2> HIDE DEF unit, sets
    <2> QED
      BY <1>1, <1>2, <2>1, <2>2, RebookTotal
  <1>4. state # "ScalarSettled" /\ state' = state /\ escrowed' = escrowed
    BY DEF MergeScalar, terms, Mergeable
  <1>5. ASSUME NEW c \in Branches
        PROVE  /\ usdc'[c] = IF c = b THEN usdc[c] + a ELSE usdc[c]
               /\ scalarSets'[c] = IF c = b THEN scalarSets[c] - a ELSE scalarSets[c]
               /\ gateSets'[c] = gateSets[c]
    BY DEF MergeScalar, TypeOK
  <1>6. ASSUME NEW c \in Branches, SupplyMatches(c)
        PROVE  SupplyMatches(c)'
    <2>1. total'[<<c, "BranchUsdc">>] = usdc'[c]
      BY <1>3, <1>5, <1>6, IdsOf DEF SupplyMatches
    <2>2. /\ total'[<<c, "Long">>] = scalarSets'[c]
          /\ total'[<<c, "Short">>] = scalarSets'[c]
      BY <1>1, <1>3, <1>5, <1>6, IdsOf, CountersAreNat DEF SupplyMatches
    <2>3. ASSUME NEW h \in Gates
          PROVE  /\ total'[<<c, Yes(h)>>] = gateSets'[c][h]
                 /\ total'[<<c, No(h)>>] = gateSets'[c][h]
      BY <1>1, <1>3, <1>5, <1>6, IdsOf, CountersAreNat DEF SupplyMatches
    <2>4. usdc'[c] + scalarSets'[c] + gateSets'[c]["Survival"] + gateSets'[c]["Security"]
            = escrowed'
      BY <1>1, <1>4, <1>5, <1>6, CountersAreNat DEF SupplyMatches, Gates
    <2> QED
      BY <2>1, <2>2, <2>3, <2>4 DEF SupplyMatches
  <1>7. ASSUME NEW c \in Branches, CountersCover(c)
        PROVE  CountersCover(c)'
    <2>1. total'[<<c, "BranchUsdc">>] = usdc'[c]
      BY <1>3, <1>5, <1>7, IdsOf DEF CountersCover
    <2>2. /\ total'[<<c, "Long">>] <= scalarSets'[c]
          /\ total'[<<c, "Short">>] <= scalarSets'[c]
      BY <1>1, <1>3, <1>5, <1>7, IdsOf, CountersAreNat DEF CountersCover
    <2>3. ASSUME NEW h \in Gates
          PROVE  /\ total'[<<c, Yes(h)>>] <= gateSets'[c][h]
                 /\ total'[<<c, No(h)>>] <= gateSets'[c][h]
      BY <1>1, <1>3, <1>5, <1>7, IdsOf, CountersAreNat DEF CountersCover
    <2> QED
      BY <2>1, <2>2, <2>3 DEF CountersCover
  <1>8. ASSUME NEW c \in Branches
        PROVE  BranchWeight(c)' = BranchWeight(c)
    <2>1. \A k \in {"SurvivalYes", "SurvivalNo", "SecurityYes", "SecurityNo"} :
            total'[<<c, k>>] = total[<<c, k>>]
      BY <1>3 DEF Kinds
    <2> QED
      BY <1>1, <1>3, <2>1, IdsOf DEF BranchWeight
  <1>11. Backed'
    BY <1>4, <1>6, <1>7, <1>8 DEF Backed, Branches
  <1> QED
    BY <1>6, <1>11

(* split_gate trades branch-USDC for gate sets while the vault is Open.   *)
LEMMA SplitGateBacked ==
    ASSUME TypeOK, Backed, NEW who \in Accounts, NEW a \in Amounts, NEW b \in Branches,
           NEW g \in Gates, NEW origin \in Origins, NEW m \in MinSplits,
           SplitGate(origin, m, b, g, who, a)
    PROVE  Backed'
  <1> DEFINE unit == {<<b, "BranchUsdc">>}
             sets == {b} \X {Yes(g), No(g)}
  <1>1. a \in Nat /\ unit \in SUBSET Ids /\ sets \in SUBSET Ids
    BY BurntIds DEF Kinds
  <1>2. Rebook(who, unit, sets, a)
    BY DEF SplitGate
  <1>3. ASSUME NEW c \in Branches, NEW k \in Kinds
        PROVE  /\ total[<<c, k>>] \in Nat
               /\ c = b /\ k = "BranchUsdc" => total'[<<c, k>>] = total[<<c, k>>] - a
               /\ c = b /\ k \in {Yes(g), No(g)} => total'[<<c, k>>] = total[<<c, k>>] + a
               /\ c # b \/ k \notin {"BranchUsdc"} \cup {Yes(g), No(g)} => total'[<<c, k>>] = total[<<c, k>>]
    <2>1. /\ <<c, k>> \in unit <=> c = b /\ k = "BranchUsdc"
          /\ <<c, k>> \in sets <=> c = b /\ k \in {Yes(g), No(g)}
      OBVIOUS
    <2>2. "BranchUsdc" \notin {Yes(g), No(g)}
      BY IdsOf
    <2> HIDE DEF unit, sets
    <2> QED
      BY <1>1, <1>2, <2>1, <2>2, RebookTotal
  <1>4. state = "Open" /\ state' = state /\ escrowed' = escrowed
    BY DEF SplitGate, terms
  <1>5. ASSUME NEW c \in Branches
        PROVE  /\ usdc'[c] = IF c = b THEN usdc[c] - a ELSE usdc[c]
               /\ scalarSets'[c] = scalarSets[c]
               /\ \A h \in Gates : gateSets'[c][h] =
                    IF c = b /\ h = g THEN gateSets[c][h] + a ELSE gateSets[c][h]
    BY DEF SplitGate, TypeOK
  <1>6. ASSUME NEW c \in Branches, SupplyMatches(c)
        PROVE  SupplyMatches(c)'
    <2>1. total'[<<c, "BranchUsdc">>] = usdc'[c]
      BY <1>3, <1>5, <1>6, IdsOf DEF SupplyMatches
    <2>2. /\ total'[<<c, "Long">>] = scalarSets'[c]
          /\ total'[<<c, "Short">>] = scalarSets'[c]
      BY <1>1, <1>3, <1>5, <1>6, IdsOf, CountersAreNat DEF SupplyMatches
    <2>3. ASSUME NEW h \in Gates
          PROVE  /\ total'[<<c, Yes(h)>>] = gateSets'[c][h]
                 /\ total'[<<c, No(h)>>] = gateSets'[c][h]
      BY <1>1, <1>3, <1>5, <1>6, IdsOf, YesNoDistinct, CountersAreNat DEF SupplyMatches
    <2>4. usdc'[c] + scalarSets'[c] + gateSets'[c]["Survival"] + gateSets'[c]["Security"]
            = escrowed'
      BY <1>1, <1>4, <1>5, <1>6, CountersAreNat DEF SupplyMatches, Gates
    <2> QED
      BY <2>1, <2>2, <2>3, <2>4 DEF SupplyMatches
  <1> QED
    BY <1>4, <1>6 DEF Backed

(* merge_gate trades gate sets for branch-USDC; in a void it keeps the de *)
LEMMA MergeGateBacked ==
    ASSUME TypeOK, Backed, NEW who \in Accounts, NEW a \in Amounts, NEW b \in Branches,
           NEW g \in Gates, MergeGate(b, g, who, a)
    PROVE  Backed' /\ \A c \in Branches : SupplyMatches(c) => SupplyMatches(c)'
  <1> DEFINE unit == {<<b, "BranchUsdc">>}
             sets == {b} \X {Yes(g), No(g)}
  <1>1. a \in Nat /\ unit \in SUBSET Ids /\ sets \in SUBSET Ids
    BY BurntIds DEF Kinds
  <1>2. Rebook(who, sets, unit, a)
    BY DEF MergeGate
  <1>3. ASSUME NEW c \in Branches, NEW k \in Kinds
        PROVE  /\ total[<<c, k>>] \in Nat
               /\ c = b /\ k = "BranchUsdc" => total'[<<c, k>>] = total[<<c, k>>] + a
               /\ c = b /\ k \in {Yes(g), No(g)} => total'[<<c, k>>] = total[<<c, k>>] - a
               /\ c # b \/ k \notin {"BranchUsdc"} \cup {Yes(g), No(g)} => total'[<<c, k>>] = total[<<c, k>>]
    <2>1. /\ <<c, k>> \in unit <=> c = b /\ k = "BranchUsdc"
          /\ <<c, k>> \in sets <=> c = b /\ k \in {Yes(g), No(g)}
      OBVIOUS
    <2>2. "BranchUsdc" \notin {Yes(g), No(g)}
      BY IdsOf
    <2> HIDE DEF unit, sets
    <2> QED
      BY <1>1, <1>2, <2>1, <2>2, RebookTotal
  <1>4. state # "ScalarSettled" /\ state' = state /\ escrowed' = escrowed
    BY DEF MergeGate, terms, Mergeable
  <1>5. ASSUME NEW c \in Branches
        PROVE  /\ usdc'[c] = IF c = b THEN usdc[c] + a ELSE usdc[c]
               /\ scalarSets'[c] = scalarSets[c]
               /\ \A h \in Gates : gateSets'[c][h] =
                    IF c = b /\ h = g THEN gateSets[c][h] - a ELSE gateSets[c][h]
    BY DEF MergeGate, TypeOK
  <1>6. ASSUME NEW c \in Branches, SupplyMatches(c)
        PROVE  SupplyMatches(c)'
    <2>1. total'[<<c, "BranchUsdc">>] = usdc'[c]
      BY <1>3, <1>5, <1>6, IdsOf DEF SupplyMatches
    <2>2. /\ total'[<<c, "Long">>] = scalarSets'[c]
          /\ total'[<<c, "Short">>] = scalarSets'[c]
      BY <1>1, <1>3, <1>5, <1>6, IdsOf, CountersAreNat DEF SupplyMatches
    <2>3. ASSUME NEW h \in Gates
          PROVE  /\ total'[<<c, Yes(h)>>] = gateSets'[c][h]
                 /\ total'[<<c, No(h)>>] = gateSets'[c][h]
      BY <1>1, <1>3, <1>5, <1>6, IdsOf, YesNoDistinct, CountersAreNat DEF SupplyMatches
    <2>4. usdc'[c] + scalarSets'[c] + gateSets'[c]["Survival"] + gateSets'[c]["Security"]
            = escrowed'
      BY <1>1, <1>4, <1>5, <1>6, CountersAreNat DEF SupplyMatches, Gates
    <2> QED
      BY <2>1, <2>2, <2>3, <2>4 DEF SupplyMatches
  <1>7. ASSUME NEW c \in Branches, CountersCover(c)
        PROVE  CountersCover(c)'
    <2>1. total'[<<c, "BranchUsdc">>] = usdc'[c]
      BY <1>3, <1>5, <1>7, IdsOf DEF CountersCover
    <2>2. /\ total'[<<c, "Long">>] <= scalarSets'[c]
          /\ total'[<<c, "Short">>] <= scalarSets'[c]
      BY <1>1, <1>3, <1>5, <1>7, IdsOf, CountersAreNat DEF CountersCover
    <2>3. ASSUME NEW h \in Gates
          PROVE  /\ total'[<<c, Yes(h)>>] <= gateSets'[c][h]
                 /\ total'[<<c, No(h)>>] <= gateSets'[c][h]
      BY <1>1, <1>3, <1>5, <1>7, IdsOf, YesNoDistinct, CountersAreNat DEF CountersCover
    <2> QED
      BY <2>1, <2>2, <2>3 DEF CountersCover
  <1>8. ASSUME NEW c \in Branches
        PROVE  BranchWeight(c)' = BranchWeight(c)
    <2>1. g = "Survival" \/ g = "Security"
      BY DEF Gates
    <2>2. total'[<<c, "Long">>] = total[<<c, "Long">>] /\ total'[<<c, "Short">>] = total[<<c, "Short">>]
      BY <1>3, IdsOf
    <2>3. /\ Yes("Survival") = "SurvivalYes" /\ No("Survival") = "SurvivalNo"
          /\ Yes("Security") = "SecurityYes" /\ No("Security") = "SecurityNo"
      BY DEF Yes, No
    <2>4. "Survival" \in Gates /\ "Security" \in Gates
      BY DEF Gates
    <2>5. ASSUME NEW h \in Gates
          PROVE  LET d == IF c = b /\ h = g THEN a ELSE 0 IN
                 /\ total[<<c, Yes(h)>>] \in Nat /\ total[<<c, No(h)>>] \in Nat
                 /\ total'[<<c, Yes(h)>>] = total[<<c, Yes(h)>>] - d
                 /\ total'[<<c, No(h)>>] = total[<<c, No(h)>>] - d
      BY <1>1, <1>3, IdsOf, YesNoDistinct
    <2>6. /\ total'[<<c, "BranchUsdc">>] = total[<<c, "BranchUsdc">>] + (IF c = b THEN a ELSE 0)
          /\ total[<<c, "BranchUsdc">>] \in Nat
          /\ total[<<c, "Long">>] \in Nat /\ total[<<c, "Short">>] \in Nat
      BY <1>1, <1>3, IdsOf
    <2>7. CASE g = "Survival"
      BY <1>1, <2>2, <2>3, <2>4, <2>5, <2>6, <2>7 DEF BranchWeight
    <2>8. CASE g = "Security"
      BY <1>1, <2>2, <2>3, <2>4, <2>5, <2>6, <2>8 DEF BranchWeight
    <2> QED
      BY <2>1, <2>7, <2>8
  <1>11. Backed'
    BY <1>4, <1>6, <1>7, <1>8 DEF Backed, Branches
  <1> QED
    BY <1>6, <1>11

(* Moving a position between holders, and sweeping the fees, leave every   *)
(* total, supply and the escrow alone.                                     *)
LEMMA UnchangedBacked ==
    ASSUME Backed, UNCHANGED <<state, winner, score, outcome, escrowed,
                               usdc, scalarSets, gateSets, total>>
    PROVE  Backed'
  BY DEF Backed, SupplyMatches, CountersCover, ExactDebt, GateLiability, Larger, BranchWeight

(* A supply that matches is covered.                                       *)
LEMMA MatchedIsCovered ==
    ASSUME TypeOK, NEW b \in Branches, SupplyMatches(b)
    PROVE  CountersCover(b)
  BY CountersAreNat DEF SupplyMatches, CountersCover

(* The escrow splits into exactly the supplies of each branch.             *)
LEMMA MatchedWeight ==
    ASSUME TypeOK, NEW b \in Branches, SupplyMatches(b)
    PROVE  BranchWeight(b) = 2 * escrowed
  <1>1. /\ total[<<b, "SurvivalYes">>] = gateSets[b]["Survival"]
        /\ total[<<b, "SurvivalNo">>] = gateSets[b]["Survival"]
        /\ total[<<b, "SecurityYes">>] = gateSets[b]["Security"]
        /\ total[<<b, "SecurityNo">>] = gateSets[b]["Security"]
    BY DEF SupplyMatches, Gates, Yes, No
  <1> QED
    BY <1>1, CountersAreNat DEF SupplyMatches, BranchWeight

(* Resolving a vault moves no collateral and no claim.                     *)
LEMMA ResolveBacked ==
    ASSUME TypeOK, Backed, NEW w \in Branches, Resolve(w)
    PROVE  Backed'
  BY DEF Resolve, Backed, SupplyMatches, supplies, claims

(* A void leaves the claims of the two branches worth at most the escrow   *)
(* at the VOID rates.                                                      *)
LEMMA VoidBacked ==
    ASSUME TypeOK, Backed, Void
    PROVE  Backed'
  <1>1. \A b \in Branches : SupplyMatches(b)
    BY DEF Void, Backed
  <1>2. \A b \in Branches : CountersCover(b)
    BY <1>1, MatchedIsCovered
  <1>3. BranchWeight("Accept") = 2 * escrowed /\ BranchWeight("Reject") = 2 * escrowed
    BY <1>1, MatchedWeight DEF Branches
  <1>4. /\ state' = "Voided"
        /\ UNCHANGED <<escrowed, usdc, scalarSets, gateSets, total>>
    BY DEF Void, supplies, claims
  <1>5. \A b \in Branches : CountersCover(b)'
    BY <1>2, <1>4 DEF CountersCover
  <1>6. 4 * escrowed' >= BranchWeight("Accept")' + BranchWeight("Reject")'
    <2>1. 4 * escrowed >= BranchWeight("Accept") + BranchWeight("Reject")
      BY <1>3, CountersAreNat DEF Branches
    <2> QED
      BY <1>4, <2>1 DEF BranchWeight
  <1> QED
    BY <1>4, <1>5, <1>6 DEF Backed

(* What an open gate can still cost is at most its sets.                   *)
LEMMA MatchedGate ==
    ASSUME TypeOK, winner \in Branches, SupplyMatches(winner), NEW g \in Gates
    PROVE  GateLiability(g) = gateSets[winner][g]
  BY CountersAreNat DEF SupplyMatches, GateLiability, Larger

(* At settlement the winning branch's claims are worth exactly the escrow, *)
(* at any score.                                                           *)
LEMMA SettleScalarBacked ==
    ASSUME TypeOK, Backed, NEW s \in Scores, SettleScalar(s)
    PROVE  Backed'
  <1>1. winner \in Branches /\ SupplyMatches(winner)
    BY DEF SettleScalar, Backed, TypeOK
  <1>2. \A b \in Branches : CountersCover(b)
    BY MatchedIsCovered DEF SettleScalar, Backed
  <1>3. /\ state' = "ScalarSettled" /\ score' = s
        /\ UNCHANGED <<winner, outcome, escrowed, usdc, scalarSets, gateSets, total>>
    BY DEF SettleScalar, supplies, claims
  <1>4. \A b \in Branches : CountersCover(b)'
    BY <1>2, <1>3 DEF CountersCover
  <1> DEFINE U == usdc[winner]
             Q == scalarSets[winner]
             V == gateSets[winner]["Survival"]
             W == gateSets[winner]["Security"]
  <1>5. U \in Nat /\ Q \in Nat /\ V \in Nat /\ W \in Nat /\ escrowed = U + Q + V + W
    BY <1>1, CountersAreNat DEF SupplyMatches
  <1>6. ExactDebt' = s * Q + (Scale - s) * Q + Scale * (U + (V + W))
    <2>1. GateLiability("Survival") = V /\ GateLiability("Security") = W
      BY <1>1, MatchedGate DEF Gates
    <2>2. /\ total[<<winner, "Long">>] = Q /\ total[<<winner, "Short">>] = Q
          /\ total[<<winner, "BranchUsdc">>] = U
      BY <1>1 DEF SupplyMatches
    <2>3. \A g \in Gates : GateLiability(g)' = GateLiability(g)
      BY <1>3 DEF GateLiability, Larger
    <2>4. ExactDebt' = s * Q + (Scale - s) * Q + Scale * (U + V + W)
      BY <1>3, <2>1, <2>2, <2>3 DEF ExactDebt, Gates
    <2> HIDE DEF U, Q, V, W
    <2> QED
      BY <1>5, <2>4
  <1>7. Scale * escrowed' >= ExactDebt'
    <2>1. s \in Nat /\ Scale - s \in Nat
      BY DEF SettleScalar
    <2>2. escrowed' = U + Q + V + W
      BY <1>3, <1>5
    <2> HIDE DEF U, Q, V, W
    <2>3. s * Q + (Scale - s) * Q = Scale * Q
      BY <1>5, <2>1
    <2> QED
      BY <1>5, <1>6, <2>1, <2>2, <2>3
  <1> QED
    BY <1>3, <1>4, <1>7 DEF Backed

(* Fixing a gate outcome can only lower what the gate costs.               *)
LEMMA SettleGateBacked ==
    ASSUME TypeOK, Backed, NEW g \in LiveGates, NEW o \in {"True", "False"}, SettleGate(g, o)
    PROVE  Backed'
  <1>1. UNCHANGED <<state, winner, score, escrowed, usdc, scalarSets, gateSets, total>>
    BY DEF SettleGate, supplies, claims
  <1>2. CASE state = "Resolved"
    BY <1>1, <1>2 DEF Backed, SupplyMatches
  <1>3. CASE state = "ScalarSettled"
    <2>1. winner \in Branches
      BY <1>3 DEF TypeOK
    <2>2. \A b \in Branches : CountersCover(b)'
      BY <1>1, <1>3 DEF Backed, CountersCover
    <2>3. \A h \in Gates, k \in Kinds : total[<<winner, k>>] \in Nat
      BY <2>1, IdsOf DEF TypeOK
    <2>4. ASSUME NEW h \in Gates
          PROVE  /\ GateLiability(h) \in Nat /\ GateLiability(h)' \in Nat
                 /\ GateLiability(h)' <= GateLiability(h)
      <3>1. outcome[h]' = IF h = g THEN o ELSE outcome[h]
        BY DEF SettleGate, TypeOK
      <3>2. outcome[g] = "None"
        BY DEF SettleGate
      <3>3. total[<<winner, Yes(h)>>] \in Nat /\ total[<<winner, No(h)>>] \in Nat
        BY <2>3, IdsOf
      <3>4. CASE h = g
        BY <1>1, <3>1, <3>2, <3>3, <3>4 DEF GateLiability, Larger
      <3>5. CASE h # g
        <4>1. GateLiability(h)' = GateLiability(h)
          BY <1>1, <3>1, <3>5 DEF GateLiability, Larger
        <4> QED
          BY <3>3, <4>1 DEF GateLiability, Larger
      <3> QED
        BY <3>4, <3>5
    <2> DEFINE A == score * total[<<winner, "Long">>] + (Scale - score) * total[<<winner, "Short">>]
               X == total[<<winner, "BranchUsdc">>] + GateLiability("Survival")
                      + GateLiability("Security")
               Y == total[<<winner, "BranchUsdc">>] + GateLiability("Survival")'
                      + GateLiability("Security")'
    <2>5. ExactDebt = A + Scale * X /\ ExactDebt' = A + Scale * Y
      BY <1>1 DEF ExactDebt
    <2>6. X \in Nat /\ Y \in Nat /\ Y <= X
      BY <2>3, <2>4, IdsOf DEF Gates
    <2>7. A \in Nat
      <3>1. score \in Nat /\ Scale - score \in Nat
        BY DEF TypeOK
      <3>2. total[<<winner, "Long">>] \in Nat /\ total[<<winner, "Short">>] \in Nat
        BY <2>3, IdsOf DEF Gates
      <3>3. /\ score * total[<<winner, "Long">>] \in Nat
            /\ (Scale - score) * total[<<winner, "Short">>] \in Nat
        BY <3>1, <3>2, ProductIsNat
      <3> QED
        BY <3>3
    <2>8. Scale * escrowed' >= ExactDebt'
      <3>1. Scale * escrowed >= ExactDebt /\ escrowed' = escrowed /\ escrowed \in Nat
        BY <1>1, <1>3 DEF Backed, TypeOK
      <3> HIDE DEF A, X, Y
      <3>2. Scale * Y <= Scale * X
        BY <2>6
      <3> QED
        BY <2>5, <2>6, <2>7, <3>1, <3>2
    <2> QED
      BY <1>1, <1>3, <2>2, <2>8 DEF Backed
  <1> QED
    BY <1>2, <1>3 DEF SettleGate

(* Redemptions after settlement.  Each takes from the exact debt at least  *)
(* what it takes from the escrow, which is what this lemma asks for.       *)
LEMMA DebtPaid ==
    ASSUME TypeOK, Backed, state = "ScalarSettled",
           UNCHANGED <<state, winner, score, outcome>>,
           NEW gross \in Nat, NEW relief \in Nat,
           escrowed' = escrowed - gross,
           Scale * gross <= relief,
           ExactDebt' = ExactDebt - relief, ExactDebt \in Nat,
           \A b \in Branches : CountersCover(b)'
    PROVE  Backed'
  <1>1. Scale * escrowed >= ExactDebt /\ escrowed \in Nat
    BY DEF Backed, TypeOK
  <1>2. Scale * (escrowed - gross) = Scale * escrowed - Scale * gross
    BY <1>1
  <1>3. Scale * escrowed \in Nat /\ Scale * gross \in Nat
    BY <1>1, ProductIsNat
  <1>4. Scale * escrowed' >= ExactDebt'
    BY <1>1, <1>2, <1>3
  <1> QED
    BY <1>4 DEF Backed

(* The parts of the exact debt are naturals.                               *)
LEMMA DebtParts ==
    ASSUME TypeOK, winner \in Branches
    PROVE  /\ score \in Nat /\ Scale - score \in Nat
           /\ \A k \in Kinds : total[<<winner, k>>] \in Nat
           /\ \A g \in Gates : GateLiability(g) \in Nat
           /\ score * total[<<winner, "Long">>] \in Nat
           /\ (Scale - score) * total[<<winner, "Short">>] \in Nat
           /\ ExactDebt \in Nat
  <1>1. score \in Nat /\ Scale - score \in Nat
    BY DEF TypeOK
  <1>2. \A k \in Kinds : total[<<winner, k>>] \in Nat
    BY IdsOf DEF TypeOK
  <1>3. \A g \in Gates : GateLiability(g) \in Nat
    BY <1>2, IdsOf DEF GateLiability, Larger
  <1>4. /\ score * total[<<winner, "Long">>] \in Nat
        /\ (Scale - score) * total[<<winner, "Short">>] \in Nat
    BY <1>1, <1>2, IdsOf, ProductIsNat
  <1> DEFINE X == total[<<winner, "BranchUsdc">>] + GateLiability("Survival")
                    + GateLiability("Security")
  <1>5. X \in Nat
    BY <1>2, <1>3, IdsOf DEF Gates
  <1>6. Scale * X \in Nat
    <2> HIDE DEF X
    <2> QED
      BY <1>5, ProductIsNat
  <1>7. ExactDebt \in Nat
    BY <1>4, <1>6 DEF ExactDebt
  <1> QED
    BY <1>1, <1>2, <1>3, <1>4, <1>7

(* What a burn does to the total of one instrument.                        *)
LEMMA BurnTotal ==
    ASSUME TypeOK, NEW who \in Accounts, NEW a \in Nat, NEW burns \in SUBSET Ids,
           Rebook(who, burns, {}, a),
           NEW c \in Branches, NEW k \in Kinds
    PROVE  /\ total[<<c, k>>] \in Nat
           /\ total'[<<c, k>>] = total[<<c, k>>] - Part(<<c, k>>, burns, a)
           /\ total'[<<c, k>>] <= total[<<c, k>>]
  <1> DEFINE none == {}
  <1>1. Rebook(who, burns, none, a)
    OBVIOUS
  <1>2. <<c, k>> \notin none /\ none \in SUBSET Ids
    OBVIOUS
  <1> HIDE DEF none
  <1>3. CASE <<c, k>> \in burns
    BY <1>1, <1>2, <1>3, RebookTotal DEF Part
  <1>4. CASE <<c, k>> \notin burns
    BY <1>1, <1>2, <1>4, RebookTotal DEF Part
  <1> QED
    BY <1>3, <1>4

(* Burning some instruments of one branch, with the set counter of a pair  *)
(* or the branch-USDC counter following, keeps the counters covering.      *)
LEMMA BurnCovered ==
    ASSUME TypeOK, NEW who \in Accounts, NEW a \in Nat, NEW burns \in SUBSET Ids,
           Rebook(who, burns, {}, a),
           NEW c \in Branches, CountersCover(c),
           usdc'[c] = usdc[c] - Part(<<c, "BranchUsdc">>, burns, a),
           \/ scalarSets'[c] = scalarSets[c]
           \/ /\ scalarSets'[c] = scalarSets[c] - a
              /\ <<c, "Long">> \in burns /\ <<c, "Short">> \in burns,
           gateSets' = gateSets
    PROVE  CountersCover(c)'
  <1>2. ASSUME NEW k \in Kinds
        PROVE  /\ total[<<c, k>>] \in Nat
               /\ total'[<<c, k>>] = total[<<c, k>>] - Part(<<c, k>>, burns, a)
               /\ total'[<<c, k>>] <= total[<<c, k>>]
    BY BurnTotal
  <1>3. total'[<<c, "BranchUsdc">>] = usdc'[c]
    BY <1>2, IdsOf DEF CountersCover
  <1>4. total'[<<c, "Long">>] <= scalarSets'[c] /\ total'[<<c, "Short">>] <= scalarSets'[c]
    BY <1>2, IdsOf, CountersAreNat DEF CountersCover, Part
  <1>5. ASSUME NEW g \in Gates
        PROVE  total'[<<c, Yes(g)>>] <= gateSets'[c][g] /\ total'[<<c, No(g)>>] <= gateSets'[c][g]
    <2>1. total[<<c, Yes(g)>>] <= gateSets[c][g] /\ total[<<c, No(g)>>] <= gateSets[c][g]
      BY DEF CountersCover
    <2>2. /\ total[<<c, Yes(g)>>] \in Nat /\ total'[<<c, Yes(g)>>] <= total[<<c, Yes(g)>>]
          /\ total[<<c, No(g)>>] \in Nat /\ total'[<<c, No(g)>>] <= total[<<c, No(g)>>]
          /\ total'[<<c, Yes(g)>>] \in Int /\ total'[<<c, No(g)>>] \in Int
      BY <1>2, IdsOf DEF Part
    <2> QED
      BY <2>1, <2>2, CountersAreNat
  <1> QED
    BY <1>3, <1>4, <1>5 DEF CountersCover

(* Redeeming winning branch-USDC takes out what the claim was worth.       *)
LEMMA RedeemBacked ==
    ASSUME TypeOK, Backed, NEW who \in Accounts, NEW a \in Amounts, Redeem(who, a)
    PROVE  Backed'
  <1> DEFINE burns == {<<winner, "BranchUsdc">>}
  <1>1. a \in Nat /\ winner \in Branches /\ state = "ScalarSettled"
    BY DEF Redeem, TypeOK
  <1>2. burns \in SUBSET Ids /\ Rebook(who, burns, {}, a)
    BY <1>1, BurntIds, IdsOf DEF Redeem
  <1>3. UNCHANGED <<state, winner, score, outcome, scalarSets, gateSets>>
    BY DEF Redeem, terms
  <1>4. \A b \in Branches, k \in Kinds :
          <<b, k>> \in burns <=> b = winner /\ k = "BranchUsdc"
    OBVIOUS
  <1>5. \A b \in Branches : usdc'[b] = usdc[b] - Part(<<b, "BranchUsdc">>, burns, a)
    BY <1>1, <1>4, IdsOf, CountersAreNat DEF Redeem, Part, TypeOK
  <1>6. \A k \in Kinds : total'[<<winner, k>>] = IF k = "BranchUsdc"
                                                THEN total[<<winner, k>>] - a
                                                ELSE total[<<winner, k>>]
    <2> HIDE DEF burns
    <2> QED
      BY <1>1, <1>2, <1>4, BurnTotal DEF Part
  <1>7. \A b \in Branches : CountersCover(b)'
    <2>1. \A b \in Branches : CountersCover(b)
      BY <1>1 DEF Backed
    <2> HIDE DEF burns
    <2> QED
      BY <1>1, <1>2, <1>3, <1>5, <2>1, BurnCovered
  <1>8. ExactDebt' = ExactDebt - Scale * a
    <2>1. \A g \in Gates : GateLiability(g)' = GateLiability(g)
      BY <1>3, <1>6, IdsOf DEF GateLiability, Larger
    <2> DEFINE U == total[<<winner, "BranchUsdc">>]
               G == GateLiability("Survival") + GateLiability("Security")
               A == score * total[<<winner, "Long">>] + (Scale - score) * total[<<winner, "Short">>]
    <2>2. U \in Nat /\ G \in Nat /\ A \in Nat
      BY <1>1, DebtParts, IdsOf DEF Gates
    <2>3. /\ total'[<<winner, "BranchUsdc">>] = U - a
          /\ total'[<<winner, "Long">>] = total[<<winner, "Long">>]
          /\ total'[<<winner, "Short">>] = total[<<winner, "Short">>]
      BY <1>6, IdsOf
    <2>4. ExactDebt = A + Scale * (U + GateLiability("Survival") + GateLiability("Security"))
      BY DEF ExactDebt
    <2>5. ExactDebt' = A + Scale * ((U - a) + GateLiability("Survival") + GateLiability("Security"))
      BY <1>3, <2>1, <2>3 DEF ExactDebt, Gates
    <2>6. GateLiability("Survival") \in Nat /\ GateLiability("Security") \in Nat
      BY <1>1, DebtParts DEF Gates
    <2> HIDE DEF U, A
    <2> QED
      BY <1>1, <2>2, <2>4, <2>5, <2>6
  <1>9. escrowed' = escrowed - a
    BY DEF Redeem, PayOut
  <1>10. ExactDebt \in Nat /\ Scale * a \in Nat
    BY <1>1, DebtParts, ProductIsNat
  <1> QED
    BY <1>1, <1>3, <1>7, <1>8, <1>9, <1>10, DebtPaid

(* A leg relieves the exact debt of its exact share, and is paid the floor.*)
LEMMA RedeemScalarBacked ==
    ASSUME TypeOK, Backed, NEW who \in Accounts, NEW a \in Amounts,
           NEW rate \in Rates, NEW m \in MinSplits, NEW side \in {"Long", "Short"},
           RedeemScalar(rate, m, side, who, a)
    PROVE  Backed'
  <1> DEFINE burns == {<<winner, side>>}
             share == IF side = "Long" THEN score ELSE Scale - score
             gross == SideValue(side, a)
  <1>1. a \in Nat /\ winner \in Branches /\ state = "ScalarSettled"
    BY DEF RedeemScalar, TypeOK
  <1>2. burns \in SUBSET Ids /\ Rebook(who, burns, {}, a)
    BY <1>1, BurntIds, IdsOf DEF RedeemScalar
  <1>3. UNCHANGED <<state, winner, score, outcome, usdc, scalarSets, gateSets>>
    BY DEF RedeemScalar, terms, supplies
  <1>4. \A b \in Branches, k \in Kinds : <<b, k>> \in burns <=> b = winner /\ k = side
    OBVIOUS
  <1>5. \A b \in Branches : usdc'[b] = usdc[b] - Part(<<b, "BranchUsdc">>, burns, a)
    BY <1>1, <1>3, <1>4, IdsOf, CountersAreNat DEF Part
  <1>6. \A k \in Kinds : total'[<<winner, k>>] = IF k = side
                                                THEN total[<<winner, k>>] - a
                                                ELSE total[<<winner, k>>]
    <2> HIDE DEF burns
    <2> QED
      BY <1>1, <1>2, <1>4, BurnTotal DEF Part
  <1>7. \A b \in Branches : CountersCover(b)'
    <2>1. \A b \in Branches : CountersCover(b)
      BY <1>1 DEF Backed
    <2> HIDE DEF burns
    <2> QED
      BY <1>1, <1>2, <1>3, <1>5, <2>1, BurnCovered
  <1>8. share \in Nat /\ gross \in Nat /\ Scale * gross <= share * a /\ share * a \in Nat
    <2>1. score \in Nat /\ Scale - score \in Nat
      BY DEF TypeOK
    <2>2. Scale * MulScore(a, score) <= a * score /\ MulScore(a, score) \in Nat
      BY <1>1, <2>1, MulScoreBelow
    <2>3. /\ Scale * MulScore(a, Scale - score) <= a * (Scale - score)
          /\ MulScore(a, Scale - score) \in Nat
      BY <1>1, <2>1, MulScoreBelow
    <2>4. share \in Nat /\ share * a \in Nat /\ a * share = share * a
      BY <1>1, <2>1, ProductIsNat
    <2> QED
      BY <2>2, <2>3, <2>4 DEF SideValue, LongPay, ShortPay
  <1>9. ExactDebt' = ExactDebt - share * a
    <2>1. \A g \in Gates : GateLiability(g)' = GateLiability(g)
      BY <1>3, <1>6, IdsOf DEF GateLiability, Larger
    <2> DEFINE X == total[<<winner, "BranchUsdc">>]
                      + GateLiability("Survival") + GateLiability("Security")
               L == total[<<winner, "Long">>]
               H == total[<<winner, "Short">>]
    <2>2. X \in Nat /\ L \in Nat /\ H \in Nat /\ Scale * X \in Nat
      BY <1>1, DebtParts, IdsOf, ProductIsNat DEF Gates
    <2>3. /\ total'[<<winner, "BranchUsdc">>] = total[<<winner, "BranchUsdc">>]
          /\ total'[<<winner, "Long">>] = IF side = "Long" THEN L - a ELSE L
          /\ total'[<<winner, "Short">>] = IF side = "Short" THEN H - a ELSE H
      BY <1>6, IdsOf
    <2>4. ExactDebt = score * L + (Scale - score) * H + Scale * X
      BY DEF ExactDebt
    <2>5. ExactDebt' = score * (IF side = "Long" THEN L - a ELSE L)
                         + (Scale - score) * (IF side = "Short" THEN H - a ELSE H) + Scale * X
      BY <1>3, <2>1, <2>3 DEF ExactDebt, Gates
    <2>6. score \in Nat /\ Scale - score \in Nat
      BY DEF TypeOK
    <2> HIDE DEF X, L, H
    <2>7. CASE side = "Long"
      BY <1>1, <2>2, <2>4, <2>5, <2>6, <2>7
    <2>8. CASE side = "Short"
      BY <1>1, <2>2, <2>4, <2>5, <2>6, <2>8
    <2> QED
      BY <2>7, <2>8
  <1>10. escrowed' = escrowed - gross
    BY DEF RedeemScalar, PayOut
  <1>11. ExactDebt \in Nat
    BY <1>1, DebtParts
  <1> HIDE DEF share, gross
  <1> QED
    BY <1>1, <1>3, <1>7, <1>8, <1>9, <1>10, <1>11, DebtPaid

(* A pair relieves the exact debt of a * score + a * (Scale - score), which*)
(* is the par it is paid.                                                  *)
LEMMA RedeemScalarPairBacked ==
    ASSUME TypeOK, Backed, NEW who \in Accounts, NEW a \in Amounts,
           NEW rate \in Rates, NEW m \in MinSplits, RedeemScalarPair(rate, m, who, a)
    PROVE  Backed'
  <1> DEFINE burns == {winner} \X {"Long", "Short"}
  <1>1. a \in Nat /\ winner \in Branches /\ state = "ScalarSettled"
    BY DEF RedeemScalarPair, TypeOK
  <1>2. burns \in SUBSET Ids /\ Rebook(who, burns, {}, a)
    BY <1>1, BurntIds DEF RedeemScalarPair
  <1>3. UNCHANGED <<state, winner, score, outcome, usdc, gateSets>>
    BY DEF RedeemScalarPair, terms
  <1>4. \A b \in Branches, k \in Kinds :
          <<b, k>> \in burns <=> b = winner /\ k \in {"Long", "Short"}
    OBVIOUS
  <1>5. ASSUME NEW b \in Branches
        PROVE  /\ usdc'[b] = usdc[b] - Part(<<b, "BranchUsdc">>, burns, a)
               /\ \/ scalarSets'[b] = scalarSets[b]
                  \/ /\ scalarSets'[b] = scalarSets[b] - a
                     /\ <<b, "Long">> \in burns /\ <<b, "Short">> \in burns
    <2>1. usdc'[b] = usdc[b] - Part(<<b, "BranchUsdc">>, burns, a)
      BY <1>1, <1>3, <1>4, IdsOf, CountersAreNat DEF Part
    <2>2. scalarSets'[b] = IF b = winner THEN scalarSets[b] - a ELSE scalarSets[b]
      BY <1>1 DEF RedeemScalarPair, TypeOK
    <2> QED
      BY <1>4, <2>1, <2>2, IdsOf
  <1>6. \A k \in Kinds : total'[<<winner, k>>] = IF k \in {"Long", "Short"}
                                                THEN total[<<winner, k>>] - a
                                                ELSE total[<<winner, k>>]
    <2> HIDE DEF burns
    <2> QED
      BY <1>1, <1>2, <1>4, BurnTotal DEF Part
  <1>7. \A b \in Branches : CountersCover(b)'
    <2>1. \A b \in Branches : CountersCover(b)
      BY <1>1 DEF Backed
    <2> HIDE DEF burns
    <2> QED
      BY <1>1, <1>2, <1>3, <1>5, <2>1, BurnCovered
  <1>8. ExactDebt' = ExactDebt - Scale * a
    <2>1. \A g \in Gates : GateLiability(g)' = GateLiability(g)
      BY <1>3, <1>6, IdsOf DEF GateLiability, Larger
    <2> DEFINE X == total[<<winner, "BranchUsdc">>]
                      + GateLiability("Survival") + GateLiability("Security")
               L == total[<<winner, "Long">>]
               H == total[<<winner, "Short">>]
    <2>2. X \in Nat /\ L \in Nat /\ H \in Nat /\ Scale * X \in Nat
      BY <1>1, DebtParts, IdsOf, ProductIsNat DEF Gates
    <2>3. /\ total'[<<winner, "BranchUsdc">>] = total[<<winner, "BranchUsdc">>]
          /\ total'[<<winner, "Long">>] = L - a
          /\ total'[<<winner, "Short">>] = H - a
      BY <1>6, IdsOf
    <2>4. ExactDebt = score * L + (Scale - score) * H + Scale * X
      BY DEF ExactDebt
    <2>5. ExactDebt' = score * (L - a) + (Scale - score) * (H - a) + Scale * X
      BY <1>3, <2>1, <2>3 DEF ExactDebt, Gates
    <2>6. score \in Nat /\ Scale - score \in Nat
      BY DEF TypeOK
    <2> HIDE DEF X, L, H
    <2> QED
      BY <1>1, <2>2, <2>4, <2>5, <2>6
  <1>9. escrowed' = escrowed - a
    BY DEF RedeemScalarPair, PayOut
  <1>10. ExactDebt \in Nat /\ Scale * a \in Nat
    BY <1>1, DebtParts, ProductIsNat
  <1> QED
    BY <1>1, <1>3, <1>7, <1>8, <1>9, <1>10, DebtPaid

(* Redeeming a winning gate leg takes out what the gate still owed on it.  *)
LEMMA RedeemGateBacked ==
    ASSUME TypeOK, Backed, NEW who \in Accounts, NEW a \in Amounts,
           NEW rate \in Rates, NEW m \in MinSplits, NEW g \in LiveGates,
           RedeemGate(rate, m, g, who, a)
    PROVE  Backed'
  <1> DEFINE side  == WinningSide(g)
             burns == {<<winner, side>>}
  <1>1. a \in Nat /\ winner \in Branches /\ state = "ScalarSettled" /\ g \in Gates
    BY DEF RedeemGate, TypeOK
  <1>2. burns \in SUBSET Ids /\ Rebook(who, burns, {}, a)
    BY <1>1, BurntIds DEF RedeemGate
  <1>3. UNCHANGED <<state, winner, score, outcome, usdc, scalarSets, gateSets>>
    BY DEF RedeemGate, terms, supplies
  <1>4. side \in Kinds \ {"BranchUsdc", "Long", "Short"}
    BY <1>1, IdsOf DEF WinningSide
  <1>5. \A b \in Branches : usdc'[b] = usdc[b] - Part(<<b, "BranchUsdc">>, burns, a)
    <2> HIDE DEF side
    <2>1. \A b \in Branches : <<b, "BranchUsdc">> \notin burns
      BY <1>4
    <2> QED
      BY <1>1, <1>3, <2>1, CountersAreNat DEF Part
  <1>6. \A k \in Kinds : total'[<<winner, k>>] = IF k = side THEN total[<<winner, k>>] - a
                                                            ELSE total[<<winner, k>>]
    <2>1. \A k \in Kinds : <<winner, k>> \in burns <=> k = side
      OBVIOUS
    <2> HIDE DEF burns, side
    <2> QED
      BY <1>1, <1>2, <2>1, BurnTotal DEF Part
  <1>7. \A b \in Branches : CountersCover(b)'
    <2>1. \A b \in Branches : CountersCover(b)
      BY <1>1 DEF Backed
    <2> HIDE DEF burns
    <2> QED
      BY <1>1, <1>2, <1>3, <1>5, <2>1, BurnCovered
  <1>8. ASSUME NEW h \in Gates
        PROVE  GateLiability(h)' = IF h = g THEN GateLiability(h) - a ELSE GateLiability(h)
    <2>1. Yes(h) \in Kinds /\ No(h) \in Kinds
      BY IdsOf
    <2>2. CASE h = g
      <3>1. outcome[g] \in {"True", "False"}
        BY <1>1 DEF RedeemGate, TypeOK
      <3>2. total'[<<winner, side>>] = total[<<winner, side>>] - a
        BY <1>4, <1>6
      <3>3. outcome' = outcome /\ winner' = winner
        BY <1>3
      <3>4. GateLiability(g) = total[<<winner, side>>]
        BY <3>1 DEF GateLiability, WinningSide
      <3>5. GateLiability(g)' = total'[<<winner, side>>]
        BY <3>1, <3>3 DEF GateLiability, WinningSide
      <3> QED
        BY <2>2, <3>2, <3>4, <3>5
    <2>3. CASE h # g
      <3>1. Yes(h) # side /\ No(h) # side
        BY <1>1, <2>3, YesNoDistinct DEF WinningSide
      <3>2. /\ total'[<<winner, Yes(h)>>] = total[<<winner, Yes(h)>>]
            /\ total'[<<winner, No(h)>>] = total[<<winner, No(h)>>]
        BY <1>6, <2>1, <3>1
      <3> QED
        BY <1>3, <2>3, <3>2 DEF GateLiability, Larger
    <2> QED
      BY <2>2, <2>3
  <1>9. ExactDebt' = ExactDebt - Scale * a
    <2> DEFINE A == score * total[<<winner, "Long">>] + (Scale - score) * total[<<winner, "Short">>]
               U == total[<<winner, "BranchUsdc">>]
               V == GateLiability("Survival")
               W == GateLiability("Security")
               V1 == GateLiability("Survival")'
               W1 == GateLiability("Security")'
    <2>1. A \in Nat /\ U \in Nat /\ V \in Nat /\ W \in Nat
      BY <1>1, DebtParts, IdsOf DEF Gates
    <2>2. /\ total'[<<winner, "BranchUsdc">>] = total[<<winner, "BranchUsdc">>]
          /\ total'[<<winner, "Long">>] = total[<<winner, "Long">>]
          /\ total'[<<winner, "Short">>] = total[<<winner, "Short">>]
      BY <1>4, <1>6, IdsOf
    <2>3. /\ V1 = IF g = "Survival" THEN V - a ELSE V
          /\ W1 = IF g = "Security" THEN W - a ELSE W
      BY <1>8 DEF Gates
    <2>4. ExactDebt = A + Scale * (U + V + W)
      BY DEF ExactDebt
    <2>5. ExactDebt' = A + Scale * (U + V1 + W1)
      BY <1>3, <2>2 DEF ExactDebt
    <2>6. V1 + W1 = V + W - a
      BY <1>1, <2>1, <2>3 DEF Gates
    <2>7. V1 \in Int /\ W1 \in Int
      BY <1>1, <2>1, <2>3
    <2> HIDE DEF A, U, V, W, V1, W1
    <2>8. U + V1 + W1 = U + V + W - a
      BY <1>1, <2>1, <2>6, <2>7
    <2>9. Scale * (U + V + W - a) = Scale * (U + V + W) - Scale * a
      BY <1>1, <2>1
    <2>10. Scale * (U + V + W) \in Int /\ Scale * a \in Int
      BY <1>1, <2>1
    <2> QED
      BY <2>1, <2>4, <2>5, <2>8, <2>9, <2>10
  <1>10. escrowed' = escrowed - a
    BY DEF RedeemGate, PayOut
  <1>11. ExactDebt \in Nat /\ Scale * a \in Nat
    BY <1>1, DebtParts, ProductIsNat
  <1> QED
    BY <1>1, <1>3, <1>7, <1>9, <1>10, <1>11, DebtPaid

(* A void redemption pays at most half a branch-USDC or a quarter of any   *)
(* other claim, which is what the claim weighs.                            *)
LEMMA RedeemVoidBacked ==
    ASSUME TypeOK, Backed, NEW who \in Accounts, NEW a \in Amounts,
           NEW b \in Branches, NEW kind \in Kinds, RedeemVoid(b, kind, who, a)
    PROVE  Backed'
  <1> DEFINE burns  == {<<b, kind>>}
             weight == IF kind = "BranchUsdc" THEN 2 * a ELSE a
             pay    == VoidPay(kind, a)
  <1>1. a \in Nat /\ state = "Voided" /\ state' = "Voided"
    BY DEF RedeemVoid, terms
  <1>2. burns \in SUBSET Ids /\ Rebook(who, burns, {}, a)
    BY BurntIds DEF RedeemVoid
  <1>3. UNCHANGED <<scalarSets, gateSets>> /\ escrowed' = escrowed - pay
    BY DEF RedeemVoid, PayOut
  <1>4. \A c \in Branches, k \in Kinds : <<c, k>> \in burns <=> c = b /\ k = kind
    OBVIOUS
  <1>5. \A c \in Branches : usdc'[c] = usdc[c] - Part(<<c, "BranchUsdc">>, burns, a)
    BY <1>1, <1>4, IdsOf, CountersAreNat DEF RedeemVoid, Part, TypeOK
  <1>6. ASSUME NEW c \in Branches, NEW k \in Kinds
        PROVE  /\ total[<<c, k>>] \in Nat
               /\ total'[<<c, k>>] = IF c = b /\ k = kind THEN total[<<c, k>>] - a
                                                         ELSE total[<<c, k>>]
    <2> HIDE DEF burns
    <2> QED
      BY <1>1, <1>2, <1>4, BurnTotal DEF Part
  <1>7. \A c \in Branches : CountersCover(c)'
    <2>1. \A c \in Branches : CountersCover(c)
      BY <1>1 DEF Backed
    <2> HIDE DEF burns
    <2> QED
      BY <1>1, <1>2, <1>3, <1>5, <2>1, BurnCovered
  <1>8. ASSUME NEW c \in Branches
        PROVE  /\ BranchWeight(c) \in Nat
               /\ BranchWeight(c)' = BranchWeight(c) - (IF c = b THEN weight ELSE 0)
    <2> DEFINE d(k) == IF c = b /\ k = kind THEN a ELSE 0
    <2>1. \A k \in Kinds : /\ total[<<c, k>>] \in Nat /\ d(k) \in Nat
                          /\ total'[<<c, k>>] = total[<<c, k>>] - d(k)
      BY <1>1, <1>6
    <2>2. 2 * d("BranchUsdc") + d("Long") + d("Short") + d("SurvivalYes") + d("SurvivalNo")
            + d("SecurityYes") + d("SecurityNo") = IF c = b THEN weight ELSE 0
      BY <1>1 DEF Kinds
    <2>3. \A k \in {"BranchUsdc", "Long", "Short", "SurvivalYes", "SurvivalNo",
                    "SecurityYes", "SecurityNo"} :
            /\ total[<<c, k>>] \in Nat /\ d(k) \in Nat
            /\ total'[<<c, k>>] = total[<<c, k>>] - d(k)
      BY <2>1 DEF Kinds
    <2> HIDE DEF d, weight
    <2> QED
      BY <2>2, <2>3 DEF BranchWeight
  <1>9. pay \in Nat /\ 4 * pay <= weight
    BY <1>1 DEF VoidPay
  <1>10. 4 * escrowed' >= BranchWeight("Accept")' + BranchWeight("Reject")'
    <2>1. 4 * escrowed >= BranchWeight("Accept") + BranchWeight("Reject") /\ escrowed \in Nat
      BY <1>1 DEF Backed, TypeOK
    <2>2. weight \in Nat
      BY <1>1
    <2> HIDE DEF pay, weight
    <2> QED
      BY <1>3, <1>8, <1>9, <2>1, <2>2 DEF Branches
  <1> QED
    BY <1>1, <1>7, <1>10 DEF Backed

-----------------------------------------------------------------------------
(* Invariance.                                                             *)

(* No call of the deciding authorities leaves the vault short.             *)
LEMMA DecideBacked ==
    ASSUME TypeOK, Backed, Decide
    PROVE  Backed'
  BY ResolveBacked, VoidBacked, SettleScalarBacked, SettleGateBacked DEF Decide

(* No split, merge or transfer leaves the vault short.                     *)
LEMMA TradeBacked ==
    ASSUME TypeOK, Backed, NEW who \in Accounts, NEW a \in Amounts, Trade(who, a)
    PROVE  Backed'
  <1>1. ASSUME NEW origin \in Origins, NEW id \in Ids, NEW to \in Accounts,
               Transfer(origin, id, who, to, a)
        PROVE  Backed'
    BY <1>1, UnchangedBacked DEF Transfer, terms, supplies
  <1>2. ASSUME NEW b \in LiveBranches, NEW origin \in Origins, NEW m \in MinSplits,
               SplitScalar(origin, m, b, who, a)
        PROVE  Backed'
    BY <1>2, SplitScalarBacked
  <1>3. ASSUME NEW b \in LiveBranches, MergeScalar(b, who, a)
        PROVE  Backed'
    BY <1>3, MergeScalarBacked
  <1>4. ASSUME NEW b \in LiveBranches, NEW g \in LiveGates, NEW origin \in Origins,
               NEW m \in MinSplits, SplitGate(origin, m, b, g, who, a)
        PROVE  Backed'
    BY <1>4, SplitGateBacked
  <1>5. ASSUME NEW b \in LiveBranches, NEW g \in LiveGates, MergeGate(b, g, who, a)
        PROVE  Backed'
    BY <1>5, MergeGateBacked
  <1> QED
    BY <1>1, <1>2, <1>3, <1>4, <1>5, SplitBacked, MergeBacked DEF Trade

(* No redemption, in whatever order and by whomever, leaves the vault      *)
(* short.                                                                  *)
LEMMA ClaimBacked ==
    ASSUME TypeOK, Backed, NEW who \in Accounts, NEW a \in Amounts, Claim(who, a)
    PROVE  Backed'
  BY RedeemBacked, RedeemScalarBacked, RedeemScalarPairBacked, RedeemGateBacked,
     RedeemVoidBacked DEF Claim

(* The vault is always backed: the escrow covers the exact, unrounded debt *)
(* and the supply counters cover every outstanding claim.                  *)
THEOREM AlwaysBacked == Spec => []Backed
  <1>1. Init => Backed
    BY DEF Init, Backed, SupplyMatches, Ids, Kinds, Branches, Gates, Yes, No
  <1>2. TypeOK /\ Backed /\ [Next]_vars => Backed'
    <2> SUFFICES ASSUME TypeOK, Backed, [Next]_vars PROVE Backed'
      OBVIOUS
    <2>1. CASE Decide
      BY <2>1, DecideBacked
    <2>2. ASSUME NEW who \in Accounts, NEW a \in Amounts, Trade(who, a)
          PROVE  Backed'
      BY <2>2, TradeBacked
    <2>3. ASSUME NEW who \in Accounts, NEW a \in Amounts, Claim(who, a)
          PROVE  Backed'
      BY <2>3, ClaimBacked
    <2>4. CASE SweepRedemptionFees
      BY <2>4, UnchangedBacked DEF SweepRedemptionFees, terms, supplies, claims
    <2>5. CASE UNCHANGED vars
      BY <2>5, UnchangedBacked DEF vars
    <2> QED
      BY <2>1, <2>2, <2>3, <2>4, <2>5 DEF Next
  <1> QED
    BY <1>1, <1>2, TypeCorrect, PTL DEF Spec

(* Multiplying by the scale preserves and reflects the order.              *)
LEMMA ScaleCancels ==
    ASSUME NEW x \in Int, NEW y \in Int, Scale * x <= Scale * y
    PROVE  x <= y
  OBVIOUS

(* The rounded, pair-first debt of a settled vault is below the exact one. *)
LEMMA SettledSolvent ==
    ASSUME TypeOK, Backed, state = "ScalarSettled"
    PROVE  escrowed >= SettledLiability
  <1> DEFINE L == total[<<winner, "Long">>]
             H == total[<<winner, "Short">>]
             U == total[<<winner, "BranchUsdc">>]
             p == Smaller(L, H)
             G == GateLiability("Survival") + GateLiability("Security")
             lp == LongPay(L - p, score)
             sp == ShortPay(H - p, score)
  <1>1. winner \in Branches /\ escrowed \in Nat
    BY DEF TypeOK
  <1>2. L \in Nat /\ H \in Nat /\ U \in Nat /\ G \in Nat
    BY <1>1, DebtParts, IdsOf DEF Gates
  <1>3. p \in Nat /\ L - p \in Nat /\ H - p \in Nat
    BY <1>2 DEF Smaller
  <1>4. score \in Nat /\ Scale - score \in Nat
    BY DEF TypeOK
  <1>5. /\ lp \in Nat /\ Scale * lp <= (L - p) * score
        /\ sp \in Nat /\ Scale * sp <= (H - p) * (Scale - score)
    <2> HIDE DEF L, H, p
    <2> QED
      BY <1>3, <1>4, MulScoreBelow DEF LongPay, ShortPay
  <1>6. Scale * escrowed >= score * L + (Scale - score) * H + Scale * (U + G)
    <2>1. ExactDebt = score * L + (Scale - score) * H
                        + Scale * (U + GateLiability("Survival") + GateLiability("Security"))
      BY DEF ExactDebt
    <2>2. GateLiability("Survival") \in Nat /\ GateLiability("Security") \in Nat
      BY <1>1, DebtParts DEF Gates
    <2>3. U + G = U + GateLiability("Survival") + GateLiability("Security")
      BY <1>2, <2>2
    <2> QED
      BY <2>1, <2>3 DEF Backed
  <1>7. SettledLiability = U + p + lp + sp + G
    <2>1. GateLiability("Survival") \in Nat /\ GateLiability("Security") \in Nat
      BY <1>1, DebtParts DEF Gates
    <2>2. SettledLiability = U + p + lp + sp + GateLiability("Survival") + GateLiability("Security")
      BY DEF SettledLiability
    <2> HIDE DEF U, p, lp, sp
    <2> QED
      BY <1>2, <1>3, <1>5, <2>1, <2>2
  <1> HIDE DEF L, H, U, p, G, lp, sp
  <1>8. (L - p) * score + (H - p) * (Scale - score) + Scale * p
          = score * L + (Scale - score) * H
    BY <1>2, <1>3, <1>4
  <1>9. Scale * (U + p + lp + sp + G) =
          Scale * (U + G) + Scale * p + Scale * lp + Scale * sp
    BY <1>2, <1>3, <1>5
  <1>10. /\ Scale * (U + G) \in Nat /\ Scale * p \in Nat
         /\ Scale * lp \in Nat /\ Scale * sp \in Nat
         /\ (L - p) * score \in Nat /\ (H - p) * (Scale - score) \in Nat
         /\ Scale * escrowed \in Nat
         /\ score * L \in Nat /\ (Scale - score) * H \in Nat
    BY <1>1, <1>2, <1>3, <1>4, <1>5, ProductIsNat
  <1>11. Scale * (U + p + lp + sp + G) <= Scale * escrowed
    BY <1>5, <1>6, <1>8, <1>9, <1>10
  <1> QED
    BY <1>1, <1>2, <1>3, <1>5, <1>7, <1>11, ScaleCancels

(* The rounded, pair-first debt of a void is below its weight.             *)
LEMMA VoidSolvent ==
    ASSUME TypeOK, Backed, state = "Voided"
    PROVE  escrowed >= VoidLiability
  <1>1. ASSUME NEW b \in Branches, NEW y \in Kinds, NEW n \in Kinds
        PROVE  /\ SetsOf(b, y, n) \in Nat /\ RestOf(b, y, n) \in Nat
               /\ 2 * SetsOf(b, y, n) + 4 * RestOf(b, y, n) <= total[<<b, y>>] + total[<<b, n>>]
    <2>1. total[<<b, y>>] \in Nat /\ total[<<b, n>>] \in Nat
      BY IdsOf DEF TypeOK
    <2> QED
      BY <2>1 DEF SetsOf, RestOf, Smaller
  <1>2. ASSUME NEW b \in Branches
        PROVE  /\ EffectiveUsdc(b) \in Nat /\ Leftovers(b) \in Nat
               /\ 2 * EffectiveUsdc(b) + 4 * Leftovers(b) <= BranchWeight(b)
               /\ BranchWeight(b) \in Nat
    <2>1. /\ "SurvivalYes" \in Kinds /\ "SurvivalNo" \in Kinds
          /\ "SecurityYes" \in Kinds /\ "SecurityNo" \in Kinds
      BY DEF Kinds
    <2>2. \A k \in Kinds : total[<<b, k>>] \in Nat
      BY IdsOf DEF TypeOK
    <2> QED
      BY <1>1, <2>1, <2>2, IdsOf DEF EffectiveUsdc, Leftovers, BranchWeight
  <1>3. 4 * escrowed >= BranchWeight("Accept") + BranchWeight("Reject") /\ escrowed \in Nat
    BY DEF Backed, TypeOK
  <1> DEFINE x == EffectiveUsdc("Accept")
             y == EffectiveUsdc("Reject")
             z == Leftovers("Accept") + Leftovers("Reject")
             p == Smaller(x, y)
  <1>4. x \in Nat /\ y \in Nat /\ z \in Nat /\ 2 * x + 2 * y + 4 * z <= 4 * escrowed
    BY <1>2, <1>3 DEF Branches
  <1>5. VoidLiability = p + (x - p) \div 2 + (y - p) \div 2 + z
    <2>1. Leftovers("Accept") \in Nat /\ Leftovers("Reject") \in Nat
      BY <1>2 DEF Branches
    <2>2. p + (x - p) \div 2 + (y - p) \div 2 \in Int
      BY <1>4 DEF Smaller
    <2>3. VoidLiability = p + (x - p) \div 2 + (y - p) \div 2
                            + Leftovers("Accept") + Leftovers("Reject")
      BY DEF VoidLiability
    <2> HIDE DEF x, y, p
    <2> QED
      BY <2>1, <2>2, <2>3
  <1> HIDE DEF x, y, z
  <1> QED
    BY <1>3, <1>4, <1>5 DEF Smaller

(* Solvency, as try_state_vault_conservation states it, in every reachable *)
(* state of every instance: the vault can always pay the dearest way its   *)
(* holders can still take their claims out.                                *)
THEOREM AlwaysSolvent == Spec => []Solvent
  <1>1. TypeOK /\ Backed => Solvent
    BY SettledSolvent, VoidSolvent DEF Backed, Solvent
  <1> QED
    BY <1>1, TypeCorrect, AlwaysBacked, PTL

-----------------------------------------------------------------------------
(* The books.                                                              *)

(* There are finitely many instruments.                                    *)
LEMMA IdsFinite == IsFiniteSet(Ids)
  <1>1. IsFiniteSet(Kinds) /\ IsFiniteSet(Branches)
    <2>1. IsFiniteSet({})
      BY FS_EmptySet
    <2>2. IsFiniteSet({"BranchUsdc", "Long", "Short"}) /\ IsFiniteSet(Branches)
      <3>1. /\ IsFiniteSet({} \cup {"BranchUsdc"})
            /\ IsFiniteSet({} \cup {"Accept"})
        BY <2>1, FS_AddElement
      <3>2. /\ IsFiniteSet(({} \cup {"BranchUsdc"}) \cup {"Long"})
            /\ IsFiniteSet(({} \cup {"Accept"}) \cup {"Reject"})
        BY <3>1, FS_AddElement
      <3>3. IsFiniteSet((({} \cup {"BranchUsdc"}) \cup {"Long"}) \cup {"Short"})
        BY <3>2, FS_AddElement
      <3>4. /\ {"BranchUsdc", "Long", "Short"}
                 = (({} \cup {"BranchUsdc"}) \cup {"Long"}) \cup {"Short"}
            /\ Branches = ({} \cup {"Accept"}) \cup {"Reject"}
        BY DEF Branches
      <3> QED
        BY <3>2, <3>3, <3>4
    <2> DEFINE base == {"BranchUsdc", "Long", "Short"}
    <2>3. IsFiniteSet(base \cup {"SurvivalYes"})
      BY <2>2, FS_AddElement
    <2>4. IsFiniteSet((base \cup {"SurvivalYes"}) \cup {"SurvivalNo"})
      BY <2>3, FS_AddElement
    <2>5. IsFiniteSet(((base \cup {"SurvivalYes"}) \cup {"SurvivalNo"}) \cup {"SecurityYes"})
      BY <2>4, FS_AddElement
    <2>6. IsFiniteSet((((base \cup {"SurvivalYes"}) \cup {"SurvivalNo"})
                         \cup {"SecurityYes"}) \cup {"SecurityNo"})
      BY <2>5, FS_AddElement
    <2>7. Kinds = (((base \cup {"SurvivalYes"}) \cup {"SurvivalNo"})
                         \cup {"SecurityYes"}) \cup {"SecurityNo"}
      BY DEF Kinds
    <2> QED
      BY <2>2, <2>6, <2>7
  <1> QED
    BY <1>1, FS_Product DEF Ids

(* A holder's records can be counted, and fewer records stay under a cap.  *)
LEMMA HeldShrinks ==
    ASSUME NEW S \in SUBSET Ids, NEW T, T \subseteq S
    PROVE  /\ Cardinality(S) \in Nat
           /\ Cardinality(T) \in Nat
           /\ Cardinality(T) <= Cardinality(S)
  <1>1. IsFiniteSet(S)
    BY IdsFinite, FS_Subset
  <1> QED
    BY <1>1, FS_Subset, FS_CardinalityType

(* Burning and minting keeps the totals the sums of the records, and no    *)
(* holder over the cap.                                                    *)
LEMMA RebookAgrees ==
    ASSUME TypeOK, BooksAgree,
           NEW who \in Accounts, NEW a \in Nat,
           NEW burns \in SUBSET Ids, NEW mints \in SUBSET Ids,
           Rebook(who, burns, mints, a)
    PROVE  BooksAgree'
  <1>1. /\ balance' \in [Ids -> [Accounts -> Nat]]
        /\ \A id \in Ids : total'[id] = total[id] - Part(id, burns, a)
                                                  + Part(id, mints, a)
    BY RebookBooks
  <1>2. \A id \in Ids : balance[id] \in [Accounts -> Nat] /\ total[id] \in Nat
    BY DEF TypeOK
  <1>3. \A id \in Ids : /\ Part(id, burns, a) \in Nat
                        /\ Part(id, mints, a) \in Nat
    BY DEF Part
  <1>4. \A id \in Ids :
          /\ balance'[id][who] = balance[id][who] - Part(id, burns, a) + Part(id, mints, a)
          /\ \A w \in Accounts \ {who} : balance'[id][w] = balance[id][w]
    BY <1>2 DEF Rebook
  <1>5. ASSUME NEW id \in Ids
        PROVE  total'[id] = SumFunction(balance'[id])
    <2> DEFINE f == balance[id]
               h == balance'[id]
               p == Part(id, burns, a)
               q == Part(id, mints, a)
    <2>1. f \in [Accounts -> Nat] /\ h \in [Accounts -> Nat]
      BY <1>1, <1>2
    <2>2. h[who] = f[who] - p + q /\ \A w \in Accounts \ {who} : h[w] = f[w]
      BY <1>4
    <2>3. total[id] = SumFunction(f) /\ total'[id] = total[id] - p + q
      BY <1>1 DEF BooksAgree
    <2>4. p \in Int /\ q \in Int /\ total[id] \in Int /\ f[who] \in Int
      BY <1>2, <1>3, <2>1
    <2> HIDE DEF f, h, p, q
    <2>5. SumFunction(h) = SumFunction(f) + h[who] - f[who] /\ SumFunction(f) \in Int
      BY <2>1, <2>2, RowMoves, AccountsAssumption
    <2>6. SumFunction(h) = total'[id]
      BY <2>2, <2>3, <2>4, <2>5
    <2> QED
      BY <2>6 DEF h
  <1>6. ASSUME NEW w \in Accounts \ Protocol
        PROVE  Cardinality(HeldIn(balance', w)) <= MaxPositions
    <2>1. Cardinality(Held(w)) <= MaxPositions
      BY DEF BooksAgree
    <2>2. Held(w) \in SUBSET Ids
      BY DEF Held
    <2>3. CASE w = who /\ ~ \A id \in mints : balance'[id][who] > 0 => balance[id][who] > 0
      BY <2>3 DEF Rebook
    <2>4. CASE w # who \/ \A id \in mints : balance'[id][who] > 0 => balance[id][who] > 0
      <3>1. ASSUME NEW id \in Ids, balance'[id][w] > 0
            PROVE  balance[id][w] > 0
        <4>1. CASE w # who
          BY <1>4, <3>1, <4>1
        <4>2. CASE w = who /\ id \in mints
          BY <2>4, <3>1, <4>2
        <4>3. CASE w = who /\ id \notin mints
          <5>1. Part(id, mints, a) = 0
            BY <4>3 DEF Part
          <5>2. balance[id][who] \in Nat
            BY <1>2
          <5> QED
            BY <1>3, <1>4, <3>1, <4>3, <5>1, <5>2
        <4> QED
          BY <4>1, <4>2, <4>3
      <3>2. HeldIn(balance', w) \subseteq Held(w)
        BY <3>1 DEF HeldIn, Held
      <3> QED
        BY <2>1, <2>2, <3>2, HeldShrinks, FloorsAssumption
    <2> QED
      BY <2>3, <2>4
  <1> QED
    BY <1>5, <1>6 DEF BooksAgree, Held, HeldIn

(* A transfer moves a claim within its row: the total stays the sum, also  *)
(* when the whole balance is swept or an account pays itself, and neither  *)
(* side ends over the cap.                                                 *)
LEMMA TransferAgrees ==
    ASSUME TypeOK, BooksAgree, NEW origin \in Origins, NEW id \in Ids,
           NEW from \in Accounts, NEW to \in Accounts, NEW a \in Amounts,
           Transfer(origin, id, from, to, a)
    PROVE  BooksAgree'
  <1> DEFINE moved == Moved(origin, id, from, a)
             f     == balance[id]
             row   == [w \in Accounts |-> f[w] - (IF w = from THEN moved ELSE 0)
                                               + (IF w = to THEN moved ELSE 0)]
  <1>1. moved \in Nat /\ f[from] >= moved /\ f \in [Accounts -> Nat]
    BY DEF Transfer, Moved, TypeOK
  <1>2. balance' = [balance EXCEPT ![id] = row] /\ total' = total
    BY DEF Transfer
  <1>3. SumFunction(row) = SumFunction(f)
    <2>1. row = RowAfter(Accounts, f, from, to, moved)
      BY DEF RowAfter
    <2> HIDE DEF moved, f, row
    <2> QED
      BY <1>1, <2>1, RowTransfers, AccountsAssumption
  <1>4. /\ balance'[id] = row
        /\ \A i \in Ids \ {id} : balance'[i] = balance[i]
    <2> HIDE DEF row
    <2> QED
      BY <1>2 DEF TypeOK
  <1>5. \A i \in Ids : total'[i] = SumFunction(balance'[i])
    <2> HIDE DEF row
    <2> QED
      BY <1>2, <1>3, <1>4 DEF BooksAgree
  <1>6. ASSUME NEW w \in Accounts \ Protocol
        PROVE  Cardinality(HeldIn(balance', w)) <= MaxPositions
    <2>1. Cardinality(Held(w)) <= MaxPositions /\ Held(w) \in SUBSET Ids
      BY DEF BooksAgree, Held
    <2>2. CASE w = to /\ ~ balance[id][to] > 0
      BY <2>2 DEF Transfer
    <2>3. CASE w # to \/ balance[id][to] > 0
      <3>1. row[w] > 0 => f[w] > 0
        <4>1. CASE w # to
          <5>1. row[w] = f[w] - (IF w = from THEN moved ELSE 0)
            <6> HIDE DEF moved, f
            <6> QED
              BY <1>1, <4>1
          <5> HIDE DEF moved, f, row
          <5> QED
            BY <1>1, <5>1
        <4>2. CASE w = to
          BY <2>3, <4>2
        <4> QED
          BY <4>1, <4>2
      <3>2. HeldIn(balance', w) \subseteq Held(w)
        <4> HIDE DEF row
        <4> QED
          BY <1>4, <3>1 DEF HeldIn, Held
      <3> QED
        BY <2>1, <3>2, HeldShrinks, FloorsAssumption
    <2> QED
      BY <2>2, <2>3
  <1> QED
    BY <1>5, <1>6 DEF BooksAgree, Held, HeldIn

(* Every trade is a burn and a mint of one holder, or a transfer.          *)
LEMMA TradeAgrees ==
    ASSUME TypeOK, BooksAgree, NEW who \in Accounts, NEW a \in Amounts, Trade(who, a)
    PROVE  BooksAgree'
  <1> DEFINE none == {}
             pair == Branches \X {"BranchUsdc"}
  <1>1. a \in Nat /\ none \in SUBSET Ids /\ pair \in SUBSET Ids
    BY BurntIds
  <1>2. ASSUME \/ Rebook(who, none, pair, a) \/ Rebook(who, pair, none, a)
        PROVE  BooksAgree'
    <2> HIDE DEF none, pair
    <2> QED
      BY <1>1, <1>2, RebookAgrees
  <1>3. ASSUME NEW b \in LiveBranches, NEW g \in Gates,
               LET U == {<<b, "BranchUsdc">>}
                   L == {b} \X {"Long", "Short"}
                   G == {b} \X {Yes(g), No(g)}
               IN  \/ Rebook(who, U, L, a) \/ Rebook(who, L, U, a)
                   \/ Rebook(who, U, G, a) \/ Rebook(who, G, U, a)
        PROVE  BooksAgree'
    <2> DEFINE U == {<<b, "BranchUsdc">>}
               L == {b} \X {"Long", "Short"}
               G == {b} \X {Yes(g), No(g)}
    <2>1. U \in SUBSET Ids /\ L \in SUBSET Ids /\ G \in SUBSET Ids
      BY BurntIds, InputsAssumption DEF Kinds
    <2>2. \/ Rebook(who, U, L, a) \/ Rebook(who, L, U, a)
          \/ Rebook(who, U, G, a) \/ Rebook(who, G, U, a)
      BY <1>3
    <2> HIDE DEF U, L, G
    <2> QED
      BY <1>1, <2>1, <2>2, RebookAgrees
  <1>4. CASE Split(who, a) \/ Merge(who, a)
    BY <1>2, <1>4 DEF Split, Merge
  <1>5. ASSUME NEW b \in LiveBranches,
               \/ \E origin \in Origins, m \in MinSplits : SplitScalar(origin, m, b, who, a)
               \/ MergeScalar(b, who, a)
        PROVE  BooksAgree'
    <2>1. "Survival" \in Gates
      BY DEF Gates
    <2>2. \/ Rebook(who, {<<b, "BranchUsdc">>}, {b} \X {"Long", "Short"}, a)
          \/ Rebook(who, {b} \X {"Long", "Short"}, {<<b, "BranchUsdc">>}, a)
      BY <1>5 DEF SplitScalar, MergeScalar
    <2> QED
      BY <1>3, <2>1, <2>2
  <1>6. ASSUME NEW b \in LiveBranches, NEW g \in LiveGates,
               \/ \E origin \in Origins, m \in MinSplits : SplitGate(origin, m, b, g, who, a)
               \/ MergeGate(b, g, who, a)
        PROVE  BooksAgree'
    <2>1. g \in Gates
      BY InputsAssumption
    <2>2. \/ Rebook(who, {<<b, "BranchUsdc">>}, {b} \X {Yes(g), No(g)}, a)
          \/ Rebook(who, {b} \X {Yes(g), No(g)}, {<<b, "BranchUsdc">>}, a)
      BY <1>6 DEF SplitGate, MergeGate
    <2> QED
      BY <1>3, <2>1, <2>2
  <1> QED
    BY <1>4, <1>5, <1>6, TransferAgrees DEF Trade

(* Every redemption burns some instruments of one holder.                  *)
LEMMA ClaimAgrees ==
    ASSUME TypeOK, BooksAgree, NEW who \in Accounts, NEW a \in Amounts, Claim(who, a)
    PROVE  BooksAgree'
  <1>1. ASSUME NEW burns \in SUBSET Ids, Rebook(who, burns, {}, a)
        PROVE  BooksAgree'
    <2>1. {} \in SUBSET Ids /\ a \in Nat
      BY InputsAssumption
    <2> QED
      BY <1>1, <2>1, RebookAgrees
  <1>2. CASE Redeem(who, a)
    <2>1. {<<winner, "BranchUsdc">>} \in SUBSET Ids
      BY <1>2, BurntIds DEF Redeem, TypeOK, Kinds
    <2> QED
      BY <1>1, <1>2, <2>1 DEF Redeem
  <1>3. ASSUME NEW rate \in Rates, NEW m \in MinSplits, NEW side \in {"Long", "Short"},
               RedeemScalar(rate, m, side, who, a)
        PROVE  BooksAgree'
    <2>1. {<<winner, side>>} \in SUBSET Ids
      BY <1>3, BurntIds DEF RedeemScalar, TypeOK, Kinds
    <2> QED
      BY <1>1, <1>3, <2>1 DEF RedeemScalar
  <1>4. ASSUME NEW rate \in Rates, NEW m \in MinSplits, RedeemScalarPair(rate, m, who, a)
        PROVE  BooksAgree'
    <2>1. {winner} \X {"Long", "Short"} \in SUBSET Ids
      BY <1>4, BurntIds DEF RedeemScalarPair, TypeOK
    <2> QED
      BY <1>1, <1>4, <2>1 DEF RedeemScalarPair
  <1>5. ASSUME NEW rate \in Rates, NEW m \in MinSplits, NEW g \in LiveGates,
               RedeemGate(rate, m, g, who, a)
        PROVE  BooksAgree'
    <2>1. {<<winner, WinningSide(g)>>} \in SUBSET Ids
      BY <1>5, BurntIds, InputsAssumption DEF RedeemGate, TypeOK
    <2> QED
      BY <1>1, <1>5, <2>1 DEF RedeemGate
  <1>6. ASSUME NEW b \in Branches, NEW kind \in Kinds, RedeemVoid(b, kind, who, a)
        PROVE  BooksAgree'
    <2>1. {<<b, kind>>} \in SUBSET Ids
      BY BurntIds
    <2> QED
      BY <1>1, <1>6, <2>1 DEF RedeemVoid
  <1> QED
    BY <1>2, <1>3, <1>4, <1>5, <1>6 DEF Claim

(* The books agree: position_totals is the sum of the records it           *)
(* summarises, for every instrument of the vault, and no holder outside    *)
(* the protocol has more records than the cap, whatever the holders split, *)
(* merged, moved or redeemed.                                              *)
THEOREM BooksAlwaysAgree == Spec => []BooksAgree
  <1>1. Init => BooksAgree
    <2> SUFFICES ASSUME Init PROVE BooksAgree
      OBVIOUS
    <2>1. ASSUME NEW id \in Ids
          PROVE  total[id] = SumFunction(balance[id])
      <3>1. balance[id] \in [Accounts -> Nat] /\ \A w \in Accounts : balance[id][w] = 0
        BY DEF Init
      <3>2. SumFunction(balance[id]) = 0
        BY <3>1, RowOfZeros, AccountsAssumption
      <3> QED
        BY <3>2 DEF Init
    <2>2. ASSUME NEW who \in Accounts
          PROVE  Held(who) = {}
      BY DEF Held, Init
    <2>3. Cardinality({}) = 0
      BY FS_EmptySet
    <2> QED
      BY <2>1, <2>2, <2>3, FloorsAssumption DEF BooksAgree
  <1>2. TypeOK /\ BooksAgree /\ [Next]_vars => BooksAgree'
    <2> SUFFICES ASSUME TypeOK, BooksAgree, [Next]_vars PROVE BooksAgree'
      OBVIOUS
    <2>1. ASSUME UNCHANGED claims
          PROVE  BooksAgree'
      BY <2>1 DEF claims, BooksAgree, Held
    <2>2. CASE Decide \/ SweepRedemptionFees \/ UNCHANGED vars
      BY <2>1, <2>2 DEF Decide, Resolve, Void, SettleScalar, SettleGate,
         SweepRedemptionFees, vars, claims
    <2> QED
      BY <2>2, TradeAgrees, ClaimAgrees DEF Next
  <1> QED
    BY <1>1, <1>2, TypeCorrect, PTL DEF Spec

-----------------------------------------------------------------------------
(* The exits.  ExitsOpen speaks of ENABLED and is left to TLC; these are   *)
(* the guards of the same calls, other than the state they ask for.        *)

BurnAllowed(who, burns, a) == \A id \in burns : balance[id][who] >= a /\ total[id] >= a

(* The cap on the records of a holder, after a burn and a mint.            *)
BookAfter(who, burns, mints, a) ==
    [id \in Ids |-> [balance[id] EXCEPT ![who] = @ - Part(id, burns, a) + Part(id, mints, a)]]

MintAllowed(who, burns, mints, a) ==
    LET after == BookAfter(who, burns, mints, a)
    IN  \/ who \in Protocol
        \/ \A id \in mints : after[id][who] > 0 => balance[id][who] > 0
        \/ Cardinality(HeldIn(after, who)) <= MaxPositions

Payable(gross, fee) == escrowed >= gross /\ fee <= gross

Usdc(b)          == <<b, "BranchUsdc">>
Legs(b, yes, no) == {<<b, yes>>, <<b, no>>}

SetMergeable(who, b, yes, no) ==
    LET a == SetHeld(who, b, yes, no)
    IN  /\ BurnAllowed(who, Legs(b, yes, no), a)
        /\ MintAllowed(who, Legs(b, yes, no), {Usdc(b)}, a)

MergesFunded(who) ==
    LET a == Smaller(balance[Usdc("Accept")][who], balance[Usdc("Reject")][who])
    IN  /\ \A b \in Branches : usdc[b] >= a /\ BurnAllowed(who, {Usdc(b)}, a)
        /\ Payable(a, 0)
        /\ \A b \in Branches :
             /\ scalarSets[b] >= SetHeld(who, b, "Long", "Short")
             /\ SetMergeable(who, b, "Long", "Short")
             /\ \A g \in Gates : /\ gateSets[b][g] >= SetHeld(who, b, Yes(g), No(g))
                                 /\ SetMergeable(who, b, Yes(g), No(g))

RedemptionsFunded(who) ==
    /\ usdc[winner] >= balance[Usdc(winner)][who] /\ Payable(balance[Usdc(winner)][who], 0)
    /\ \A rate \in Rates, m \in MinSplits :
         /\ \A side \in {"Long", "Short"} :
              LET pay == SideValue(side, balance[<<winner, side>>][who])
              IN  Payable(pay, Charged(who, Fee(pay, rate, m)))
         /\ LET a == SetHeld(who, winner, "Long", "Short")
            IN  scalarSets[winner] >= a /\ Payable(a, Charged(who, PairFee(a, score, rate, m)))
         /\ \A g \in Gates : outcome[g] # "None" =>
              LET a == balance[<<winner, WinningSide(g)>>][who]
              IN  Payable(a, Charged(who, Fee(a, rate, m)))

VoidFunded(who) ==
    \A b \in Branches, kind \in Kinds :
      LET a == balance[<<b, kind>>][who]
      IN  /\ kind = "BranchUsdc" => usdc[b] >= a
          /\ Payable(VoidPay(kind, a), 0)

ExitsFunded ==
    \A who \in Accounts :
      /\ \A id \in Ids : total[id] >= balance[id][who]
      /\ Mergeable => MergesFunded(who)
      /\ state = "ScalarSettled" => RedemptionsFunded(who)
      /\ state = "Voided" => VoidFunded(who)

(* What a holder has of an instrument is part of its total.                *)
LEMMA HeldWithinTotal ==
    ASSUME TypeOK, BooksAgree, NEW id \in Ids, NEW who \in Accounts
    PROVE  balance[id][who] <= total[id] /\ balance[id][who] \in Nat /\ total[id] \in Nat
  <1>1. balance[id] \in [Accounts -> Nat] /\ total[id] \in Nat
    BY DEF TypeOK
  <1>2. total[id] = SumFunctionOnSet(balance[id], Accounts)
    BY <1>1, SumIsOnSet DEF BooksAgree
  <1>3. \A w \in Accounts : balance[id][w] \in Nat
    BY <1>1
  <1>4. balance[id][who] <= SumFunctionOnSet(balance[id], Accounts)
    BY <1>3, EntryWithinSum, AccountsAssumption
  <1> QED
    BY <1>1, <1>2, <1>3, <1>4

(* A product with a smaller factor is smaller.                             *)
LEMMA ProductGrows ==
    ASSUME NEW p \in Nat, NEW a \in Nat, NEW b \in Nat, a <= b
    PROVE  p * a <= p * b /\ p * a \in Nat /\ p * b \in Nat
  <1>1. p * b = p * a + p * (b - a) /\ p * a \in Nat /\ p * (b - a) \in Nat
    OBVIOUS
  <1> QED
    BY <1>1

(* A charge is waived before it takes more than the payout.                *)
LEMMA FeeWithin ==
    ASSUME NEW who, NEW gross \in Nat, NEW rate \in Nat, NEW m \in Nat
    PROVE  /\ Charged(who, Fee(gross, rate, m)) <= gross
           /\ Fee(gross, rate, m) <= gross
           /\ Fee(gross, rate, m) \in Nat
  <1> DEFINE charge == Charge(gross, EffectiveRedeemFee(rate))
  <1>1. charge \in Nat
    BY ChargeIsNat
  <1>2. Fee(gross, rate, m) = IF gross - charge < m THEN 0 ELSE charge
    BY DEF Fee
  <1> HIDE DEF charge
  <1> QED
    BY <1>1, <1>2 DEF Charged

(* The charges of the two legs of a pair stay within the pair.             *)
LEMMA PairFeeWithin ==
    ASSUME TypeOK, NEW who, NEW a \in Nat, NEW rate \in Nat, NEW m \in Nat
    PROVE  Charged(who, PairFee(a, score, rate, m)) <= a
  <1> DEFINE l == LongPay(a, score)
             h == ShortPay(a, score)
  <1>1. score \in Nat /\ Scale - score \in Nat
    BY DEF TypeOK
  <1>2. /\ l \in Nat /\ Scale * l <= a * score
        /\ h \in Nat /\ Scale * h <= a * (Scale - score)
    BY <1>1, MulScoreBelow DEF LongPay, ShortPay
  <1>3. a * score + a * (Scale - score) = Scale * a
    BY <1>1
  <1>4. PairFee(a, score, rate, m) = Fee(l, rate, m) + Fee(h, rate, m)
    BY DEF PairFee
  <1>5. /\ Fee(l, rate, m) <= l /\ Fee(l, rate, m) \in Nat
        /\ Fee(h, rate, m) <= h /\ Fee(h, rate, m) \in Nat
    BY <1>2, FeeWithin
  <1> HIDE DEF l, h
  <1>6. /\ Scale * (l + h) = Scale * l + Scale * h
        /\ Scale * l \in Nat /\ Scale * h \in Nat /\ a * score \in Nat
        /\ a * (Scale - score) \in Nat
    BY <1>1, <1>2
  <1>7. Scale * (l + h) <= Scale * a
    BY <1>2, <1>3, <1>6
  <1>8. l + h <= a
    BY <1>2, <1>7
  <1> QED
    BY <1>2, <1>4, <1>5, <1>8 DEF Charged

(* Merging the smaller leg of a set uses that leg's record up, so the      *)
(* branch-USDC record it may open fits under the cap.                      *)
LEMMA MergeFitsCap ==
    ASSUME TypeOK, BooksAgree, NEW who \in Accounts, NEW b \in Branches,
           NEW yes \in Kinds \ {"BranchUsdc"}, NEW no \in Kinds \ {"BranchUsdc"}
    PROVE  SetMergeable(who, b, yes, no)
  <1> DEFINE a     == SetHeld(who, b, yes, no)
             legs  == Legs(b, yes, no)
             mint  == {Usdc(b)}
             after == BookAfter(who, legs, mint, a)
  <1>1. <<b, yes>> \in Ids /\ <<b, no>> \in Ids /\ Usdc(b) \in Ids
    BY IdsOf DEF Usdc
  <1>2. Usdc(b) # <<b, yes>> /\ Usdc(b) # <<b, no>>
    BY DEF Usdc
  <1>3. /\ a \in Nat /\ balance[<<b, yes>>][who] >= a /\ balance[<<b, no>>][who] >= a
        /\ a = balance[<<b, yes>>][who] \/ a = balance[<<b, no>>][who]
    BY <1>1, HeldWithinTotal DEF SetHeld, Smaller
  <1>4. total[<<b, yes>>] >= a /\ total[<<b, no>>] >= a
    BY <1>1, <1>3, HeldWithinTotal
  <1>5. BurnAllowed(who, legs, a)
    <2> HIDE DEF a
    <2> QED
      BY <1>3, <1>4 DEF BurnAllowed, Legs
  <1>6. \A id \in Ids : balance[id] \in [Accounts -> Nat] /\ balance[id][who] \in Nat
    BY DEF TypeOK
  <1>7. \A id \in Ids : after[id][who] = balance[id][who] - Part(id, legs, a) + Part(id, mint, a)
    <2> HIDE DEF a, legs, mint
    <2> QED
      BY <1>6 DEF BookAfter
  <1> HIDE DEF a, after
  <1>8. ASSUME who \in Protocol
        PROVE  MintAllowed(who, legs, mint, a)
    BY <1>8 DEF MintAllowed
  <1>9. ASSUME a = 0
        PROVE  MintAllowed(who, legs, mint, a)
    <2>1. after[Usdc(b)][who] = balance[Usdc(b)][who]
      BY <1>1, <1>6, <1>7, <1>9 DEF Part
    <2>2. \A id \in mint : after[id][who] > 0 => balance[id][who] > 0
      BY <2>1
    <2> QED
      BY <2>2 DEF MintAllowed, after
  <1>10. ASSUME a # 0 /\ who \notin Protocol
         PROVE  MintAllowed(who, legs, mint, a)
    <2>1. PICK z \in legs : balance[z][who] = a
      BY <1>3 DEF Legs
    <2>2. z \in Ids /\ z # Usdc(b)
      BY <1>1, <1>2 DEF Legs
    <2>3. after[z][who] = 0
      BY <1>3, <1>7, <2>1, <2>2 DEF Part
    <2>4. \A id \in Ids \ {Usdc(b)} : after[id][who] > 0 => balance[id][who] > 0
      BY <1>3, <1>6, <1>7 DEF Part
    <2> DEFINE rest == Held(who) \ {z}
    <2>5. HeldIn(after, who) \subseteq rest \cup {Usdc(b)}
      BY <2>3, <2>4 DEF HeldIn, Held
    <2>6. z \in Held(who) /\ Held(who) \in SUBSET Ids
      BY <1>3, <1>10, <2>1, <2>2 DEF Held
    <2>7. IsFiniteSet(Held(who))
      BY <2>6, IdsFinite, FS_Subset
    <2>8. Cardinality(rest) = Cardinality(Held(who)) - 1 /\ IsFiniteSet(rest)
      BY <2>6, <2>7, FS_RemoveElement
    <2>9. Cardinality(rest \cup {Usdc(b)}) <= Cardinality(Held(who))
      <3>1. Cardinality(rest) \in Nat /\ Cardinality(Held(who)) \in Nat
        BY <2>7, <2>8, FS_CardinalityType
      <3> HIDE DEF rest
      <3>2. \/ Cardinality(rest \cup {Usdc(b)}) = Cardinality(rest)
            \/ Cardinality(rest \cup {Usdc(b)}) = Cardinality(rest) + 1
        BY <2>8, FS_AddElement
      <3> QED
        BY <2>8, <3>1, <3>2
    <2>10. Cardinality(HeldIn(after, who)) <= Cardinality(rest \cup {Usdc(b)})
      <3>1. rest \cup {Usdc(b)} \in SUBSET Ids
        BY <1>1, <2>6
      <3> HIDE DEF rest
      <3> QED
        BY <2>5, <3>1, HeldShrinks
    <2>11. Cardinality(Held(who)) <= MaxPositions
      BY <1>10 DEF BooksAgree
    <2>12. Cardinality(HeldIn(after, who)) <= MaxPositions
      <3>1. /\ rest \cup {Usdc(b)} \in SUBSET Ids
        BY <1>1, <2>6
      <3> HIDE DEF rest
      <3>2. /\ Cardinality(HeldIn(after, who)) \in Nat
            /\ Cardinality(rest \cup {Usdc(b)}) \in Nat
            /\ Cardinality(Held(who)) \in Nat
        BY <2>5, <2>7, <3>1, HeldShrinks, FS_CardinalityType
      <3> QED
        BY <2>9, <2>10, <2>11, <3>2, FloorsAssumption
    <2> QED
      BY <2>12 DEF MintAllowed, after
  <1> QED
    BY <1>3, <1>5, <1>8, <1>9, <1>10 DEF SetMergeable, a

(* A counter covers a holder's whole share of it, in every state in which  *)
(* a claim still has its counter.                                          *)
LEMMA CountersCoverHeld ==
    ASSUME TypeOK, BooksAgree, Backed, NEW who \in Accounts, NEW b \in Branches
    PROVE  /\ usdc[b] >= balance[Usdc(b)][who]
           /\ scalarSets[b] >= SetHeld(who, b, "Long", "Short")
           /\ \A g \in Gates : gateSets[b][g] >= SetHeld(who, b, Yes(g), No(g))
  <1>1. CountersCover(b)
    BY MatchedIsCovered DEF Backed, TypeOK
  <1>2. \A k \in Kinds : /\ balance[<<b, k>>][who] <= total[<<b, k>>]
                         /\ balance[<<b, k>>][who] \in Nat /\ total[<<b, k>>] \in Nat
    BY IdsOf, HeldWithinTotal
  <1>3. usdc[b] \in Nat /\ scalarSets[b] \in Nat /\ \A g \in Gates : gateSets[b][g] \in Nat
    BY CountersAreNat
  <1>4. usdc[b] >= balance[Usdc(b)][who]
    BY <1>1, <1>2, IdsOf DEF CountersCover, Usdc
  <1>5. scalarSets[b] >= SetHeld(who, b, "Long", "Short")
    BY <1>1, <1>2, <1>3, IdsOf DEF CountersCover, SetHeld, Smaller
  <1>6. \A g \in Gates : gateSets[b][g] >= SetHeld(who, b, Yes(g), No(g))
    BY <1>1, <1>2, <1>3, IdsOf DEF CountersCover, SetHeld, Smaller
  <1> QED
    BY <1>4, <1>5, <1>6

(* Merging never lacks collateral, cover or room under the cap.            *)
LEMMA MergesAreFunded ==
    ASSUME TypeOK, BooksAgree, Backed, Mergeable, NEW who \in Accounts
    PROVE  MergesFunded(who)
  <1> DEFINE x == balance[Usdc("Accept")][who]
             y == balance[Usdc("Reject")][who]
             a == Smaller(x, y)
  <1>1. "Accept" \in Branches /\ "Reject" \in Branches
    BY DEF Branches
  <1>2. /\ x \in Nat /\ y \in Nat
        /\ total[Usdc("Accept")] >= x /\ total[Usdc("Reject")] >= y
        /\ total[Usdc("Accept")] \in Nat /\ total[Usdc("Reject")] \in Nat
    BY <1>1, IdsOf, HeldWithinTotal DEF Usdc
  <1>3. a \in Nat /\ a <= x /\ a <= y
    BY <1>2 DEF Smaller
  <1>4. \A b \in Branches : usdc[b] >= balance[Usdc(b)][who] /\ usdc[b] \in Nat
    BY CountersCoverHeld, CountersAreNat
  <1> HIDE DEF x, y, a
  <1>5. usdc["Accept"] >= a /\ usdc["Reject"] >= a
    BY <1>1, <1>2, <1>3, <1>4 DEF x, y
  <1>6. escrowed >= a
    <2>1. escrowed \in Nat /\ usdc["Accept"] \in Nat /\ usdc["Reject"] \in Nat
      BY <1>1, CountersAreNat
    <2>2. CASE state \in {"Open", "Resolved"}
      <3>1. SupplyMatches("Accept")
        BY <1>1, <2>2 DEF Backed
      <3>2. /\ scalarSets["Accept"] \in Nat /\ gateSets["Accept"]["Survival"] \in Nat
            /\ gateSets["Accept"]["Security"] \in Nat
        BY <1>1, CountersAreNat
      <3> QED
        BY <1>3, <1>5, <2>1, <3>1, <3>2 DEF SupplyMatches
    <2>3. CASE state = "Voided"
      <3>1. \A b \in Branches : \A k \in Kinds : total[<<b, k>>] \in Nat
        BY IdsOf DEF TypeOK
      <3>2. ASSUME NEW b \in Branches
            PROVE  BranchWeight(b) >= 2 * total[Usdc(b)] /\ BranchWeight(b) \in Nat
        <4>1. /\ total[<<b, "BranchUsdc">>] \in Nat
              /\ total[<<b, "Long">>] \in Nat /\ total[<<b, "Short">>] \in Nat
              /\ total[<<b, "SurvivalYes">>] \in Nat /\ total[<<b, "SurvivalNo">>] \in Nat
              /\ total[<<b, "SecurityYes">>] \in Nat /\ total[<<b, "SecurityNo">>] \in Nat
          BY <3>1 DEF Kinds
        <4> QED
          BY <4>1 DEF BranchWeight, Usdc
      <3>3. 4 * escrowed >= BranchWeight("Accept") + BranchWeight("Reject")
        BY <2>3 DEF Backed
      <3> QED
        BY <1>1, <1>2, <1>3, <2>1, <3>2, <3>3
    <2> QED
      BY <2>2, <2>3 DEF Mergeable
  <1>7. \A b \in Branches : usdc[b] >= a /\ BurnAllowed(who, {Usdc(b)}, a)
    BY <1>2, <1>3, <1>5 DEF Branches, BurnAllowed, x, y
  <1>8. Payable(a, 0)
    BY <1>3, <1>6 DEF Payable
  <1>9. ASSUME NEW b \in Branches
        PROVE  /\ scalarSets[b] >= SetHeld(who, b, "Long", "Short")
               /\ SetMergeable(who, b, "Long", "Short")
               /\ \A g \in Gates : /\ gateSets[b][g] >= SetHeld(who, b, Yes(g), No(g))
                                   /\ SetMergeable(who, b, Yes(g), No(g))
    <2>1. \A g \in Gates : Yes(g) \in Kinds \ {"BranchUsdc"} /\ No(g) \in Kinds \ {"BranchUsdc"}
      BY IdsOf
    <2>2. "Long" \in Kinds \ {"BranchUsdc"} /\ "Short" \in Kinds \ {"BranchUsdc"}
      BY IdsOf
    <2> QED
      BY <2>1, <2>2, CountersCoverHeld, MergeFitsCap
  <1> QED
    BY <1>7, <1>8, <1>9 DEF MergesFunded, a, x, y

(* After a settlement every claim of the winning branch is backed by its   *)
(* own share of the exact debt, so the first and the last to redeem are    *)
(* paid alike, and no fee exceeds its payout.                              *)
LEMMA RedemptionsAreFunded ==
    ASSUME TypeOK, BooksAgree, Backed, state = "ScalarSettled", NEW who \in Accounts
    PROVE  RedemptionsFunded(who)
  <1> DEFINE U == total[<<winner, "BranchUsdc">>]
             L == total[<<winner, "Long">>]
             S == total[<<winner, "Short">>]
             G == GateLiability("Survival")
             H == GateLiability("Security")
             other == Scale - score
             held(k) == balance[<<winner, k>>][who]
  <1>1. winner \in Branches
    BY DEF TypeOK
  <1>2. /\ score \in Nat /\ other \in Nat /\ escrowed \in Nat
        /\ U \in Nat /\ L \in Nat /\ S \in Nat /\ G \in Nat /\ H \in Nat
    BY <1>1, DebtParts, IdsOf DEF Gates, TypeOK
  <1>3. \A k \in Kinds : held(k) <= total[<<winner, k>>] /\ held(k) \in Nat
    BY <1>1, IdsOf, HeldWithinTotal
  <1>4. Scale * escrowed >= score * L + other * S + Scale * (U + G + H)
    BY DEF Backed, ExactDebt
  <1> HIDE DEF U, L, S, G, H, other
  <1>5. /\ Scale * (U + G + H) = Scale * U + Scale * G + Scale * H
        /\ Scale * U \in Nat /\ Scale * G \in Nat /\ Scale * H \in Nat
        /\ score * L \in Nat /\ other * S \in Nat /\ Scale * escrowed \in Nat
    BY <1>2
  <1>6. /\ Scale * escrowed >= score * L /\ Scale * escrowed >= other * S
        /\ Scale * escrowed >= score * L + other * S
        /\ Scale * escrowed >= Scale * U
        /\ Scale * escrowed >= Scale * G /\ Scale * escrowed >= Scale * H
    BY <1>4, <1>5
  <1>7. ASSUME NEW n \in Nat, Scale * n <= Scale * escrowed
        PROVE  n <= escrowed
    BY <1>2, <1>7
  <1>8. U <= escrowed /\ G <= escrowed /\ H <= escrowed
    BY <1>2, <1>6, <1>7
  <1>9. /\ held("BranchUsdc") <= U /\ held("BranchUsdc") \in Nat
        /\ held("Long") <= L /\ held("Long") \in Nat
        /\ held("Short") <= S /\ held("Short") \in Nat
    BY <1>3, IdsOf DEF U, L, S
  <1>10. usdc[winner] >= balance[Usdc(winner)][who] /\ Payable(balance[Usdc(winner)][who], 0)
    <2>1. usdc[winner] >= balance[Usdc(winner)][who]
      BY <1>1, CountersCoverHeld
    <2>2. Payable(held("BranchUsdc"), 0)
      <3> HIDE DEF held
      <3> QED
        BY <1>2, <1>8, <1>9 DEF Payable
    <2> QED
      BY <2>1, <2>2 DEF Usdc
  <1>11. ASSUME NEW rate \in Rates, NEW m \in MinSplits, NEW side \in {"Long", "Short"}
         PROVE  LET pay == SideValue(side, balance[<<winner, side>>][who])
                IN  Payable(pay, Charged(who, Fee(pay, rate, m)))
    <2> DEFINE pay == SideValue(side, held(side))
    <2>1. pay \in Nat /\ pay <= escrowed
      <3>1. CASE side = "Long"
        <4> DEFINE x == held("Long")
        <4>1. pay = MulScore(x, score)
          BY <3>1 DEF SideValue, LongPay
        <4> HIDE DEF x
        <4>2. MulScore(x, score) \in Nat /\ Scale * MulScore(x, score) <= x * score
          BY <1>2, <1>9, MulScoreBelow DEF x
        <4>3. score * x <= score * L /\ score * x \in Nat /\ x * score = score * x
          BY <1>2, <1>9, ProductGrows DEF x
        <4>4. Scale * MulScore(x, score) <= Scale * escrowed
          BY <1>5, <1>6, <4>2, <4>3
        <4> QED
          BY <1>7, <4>1, <4>2, <4>4
      <3>2. CASE side = "Short"
        <4> DEFINE x == held("Short")
        <4>1. pay = MulScore(x, other)
          BY <3>2 DEF SideValue, ShortPay, other
        <4> HIDE DEF x
        <4>2. MulScore(x, other) \in Nat /\ Scale * MulScore(x, other) <= x * other
          BY <1>2, <1>9, MulScoreBelow DEF x
        <4>3. other * x <= other * S /\ other * x \in Nat /\ x * other = other * x
          BY <1>2, <1>9, ProductGrows DEF x
        <4>4. Scale * MulScore(x, other) <= Scale * escrowed
          BY <1>5, <1>6, <4>2, <4>3
        <4> QED
          BY <1>7, <4>1, <4>2, <4>4
      <3> QED
        BY <3>1, <3>2
    <2>2. pay = SideValue(side, balance[<<winner, side>>][who])
      OBVIOUS
    <2> HIDE DEF pay
    <2>3. Charged(who, Fee(pay, rate, m)) <= pay
      BY <2>1, FeeWithin
    <2> QED
      BY <1>2, <2>1, <2>2, <2>3 DEF Payable
  <1>12. ASSUME NEW rate \in Rates, NEW m \in MinSplits
         PROVE  LET a == SetHeld(who, winner, "Long", "Short")
                IN  /\ scalarSets[winner] >= a
                    /\ Payable(a, Charged(who, PairFee(a, score, rate, m)))
    <2> DEFINE a == SetHeld(who, winner, "Long", "Short")
    <2>1. a \in Nat /\ a <= L /\ a <= S
      BY <1>2, <1>9 DEF SetHeld, Smaller
    <2>2. scalarSets[winner] >= a
      BY <1>1, CountersCoverHeld
    <2> HIDE DEF a
    <2>3. /\ score * a <= score * L /\ score * a \in Nat
          /\ other * a <= other * S /\ other * a \in Nat
      BY <1>2, <2>1, ProductGrows
    <2>4. Scale * a = score * a + other * a
      BY <1>2, <2>1 DEF other
    <2>5. a <= escrowed
      BY <1>5, <1>6, <1>7, <2>1, <2>3, <2>4
    <2>6. Charged(who, PairFee(a, score, rate, m)) <= a
      BY <2>1, PairFeeWithin
    <2> QED
      BY <1>2, <2>1, <2>2, <2>5, <2>6 DEF Payable, a
  <1>13. ASSUME NEW rate \in Rates, NEW m \in MinSplits, NEW g \in Gates, outcome[g] # "None"
         PROVE  LET a == balance[<<winner, WinningSide(g)>>][who]
                IN  Payable(a, Charged(who, Fee(a, rate, m)))
    <2> DEFINE a == balance[<<winner, WinningSide(g)>>][who]
    <2>1. GateLiability(g) = total[<<winner, WinningSide(g)>>]
      <3>1. outcome[g] \in {"True", "False"}
        BY <1>13 DEF TypeOK
      <3> QED
        BY <3>1 DEF GateLiability, WinningSide
    <2>2. a \in Nat /\ a <= GateLiability(g)
      BY <1>3, <2>1, BurntIds
    <2>3. GateLiability(g) <= escrowed /\ GateLiability(g) \in Nat
      BY <1>2, <1>8 DEF Gates, G, H
    <2> HIDE DEF a
    <2>4. Charged(who, Fee(a, rate, m)) <= a
      BY <2>2, FeeWithin
    <2> QED
      BY <1>2, <2>2, <2>3, <2>4 DEF Payable, a
  <1> QED
    BY <1>10, <1>11, <1>12, <1>13 DEF RedemptionsFunded

(* In a voided vault every claim is backed at the void rates.              *)
LEMMA VoidIsFunded ==
    ASSUME TypeOK, BooksAgree, Backed, state = "Voided", NEW who \in Accounts
    PROVE  VoidFunded(who)
  <1> SUFFICES ASSUME NEW b \in Branches, NEW kind \in Kinds
               PROVE  /\ kind = "BranchUsdc" => usdc[b] >= balance[<<b, kind>>][who]
                      /\ Payable(VoidPay(kind, balance[<<b, kind>>][who]), 0)
    BY DEF VoidFunded
  <1> DEFINE a == balance[<<b, kind>>][who]
             t == total[<<b, kind>>]
  <1>1. a \in Nat /\ t \in Nat /\ a <= t
    BY IdsOf, HeldWithinTotal
  <1>2. \A c \in Branches : \A k \in Kinds : total[<<c, k>>] \in Nat
    BY IdsOf DEF TypeOK
  <1>3. ASSUME NEW c \in Branches
        PROVE  /\ BranchWeight(c) \in Nat
               /\ \A k \in Kinds : BranchWeight(c) >= total[<<c, k>>]
               /\ BranchWeight(c) >= 2 * total[<<c, "BranchUsdc">>]
    <2>1. /\ total[<<c, "BranchUsdc">>] \in Nat
          /\ total[<<c, "Long">>] \in Nat /\ total[<<c, "Short">>] \in Nat
          /\ total[<<c, "SurvivalYes">>] \in Nat /\ total[<<c, "SurvivalNo">>] \in Nat
          /\ total[<<c, "SecurityYes">>] \in Nat /\ total[<<c, "SecurityNo">>] \in Nat
      BY <1>2 DEF Kinds
    <2> QED
      BY <2>1 DEF BranchWeight, Kinds
  <1>4. 4 * escrowed >= BranchWeight("Accept") + BranchWeight("Reject") /\ escrowed \in Nat
    BY DEF Backed, TypeOK
  <1>5. 4 * escrowed >= BranchWeight(b)
    <2>1. BranchWeight("Accept") \in Nat /\ BranchWeight("Reject") \in Nat
      BY <1>3 DEF Branches
    <2> QED
      BY <1>4, <2>1 DEF Branches
  <1>6. VoidPay(kind, a) <= escrowed /\ VoidPay(kind, a) \in Nat
    <2> HIDE DEF a, t
    <2>1. CASE kind = "BranchUsdc"
      <3>1. BranchWeight(b) >= 2 * t /\ BranchWeight(b) \in Nat
        BY <1>3, <2>1 DEF t
      <3>2. VoidPay(kind, a) = a \div 2
        BY <2>1 DEF VoidPay
      <3>3. a \div 2 \in Nat /\ 2 * (a \div 2) <= a
        BY <1>1
      <3> QED
        BY <1>1, <1>4, <1>5, <3>1, <3>2, <3>3
    <2>2. CASE kind # "BranchUsdc"
      <3>1. BranchWeight(b) >= t /\ BranchWeight(b) \in Nat
        BY <1>3 DEF t
      <3>2. VoidPay(kind, a) = a \div 4
        BY <2>2 DEF VoidPay
      <3>3. a \div 4 \in Nat /\ 4 * (a \div 4) <= a
        BY <1>1
      <3> QED
        BY <1>1, <1>4, <1>5, <3>1, <3>2, <3>3
    <2> QED
      BY <2>1, <2>2
  <1>7. kind = "BranchUsdc" => usdc[b] >= a
    BY CountersCoverHeld DEF Usdc
  <1> QED
    BY <1>4, <1>6, <1>7 DEF Payable

(* No run on the vault: in every reachable state every holder's whole      *)
(* position passes the guards of the calls that take it out.  No supply    *)
(* counter, total, escrow, fee or position cap refuses it, whoever         *)
(* redeemed before and in whichever order.                                 *)
THEOREM ExitsAlwaysFunded == Spec => []ExitsFunded
  <1>1. TypeOK /\ BooksAgree /\ Backed => ExitsFunded
    BY HeldWithinTotal, MergesAreFunded, RedemptionsAreFunded, VoidIsFunded DEF ExitsFunded
  <1> QED
    BY <1>1, TypeCorrect, AlwaysBacked, BooksAlwaysAgree, PTL

-----------------------------------------------------------------------------
(* Refinement.                                                             *)

(* Moving the books of a holder moves the taught supplies alike.           *)
LEMMA RebookIsBook ==
    ASSUME NEW who \in Accounts, NEW burns, NEW mints, NEW a \in Amounts,
           Rebook(who, burns, mints, a)
    PROVE  Taught!Book(burns, mints, a)
  BY DEF Rebook, Part, Ids, Branches, Kinds, Taught!Book, Taught!Portion,
         Taught!ProposalPositions, Taught!Branches, Taught!PositionKinds

(* What a claim pays is what the taught vault says it pays.                *)
LEMMA SameValue ==
    ASSUME NEW side \in {"Long", "Short"}, NEW a
    PROVE  SideValue(side, a) = Taught!ScalarPayout(side, a)
  BY DEF SideValue, LongPay, ShortPay, MulScore, Taught!ScalarPayout, Taught!FloorScaled

(* A decision of the authorities.                                          *)
LEMMA DecideImplements ==
    ASSUME Decide, redeemed' = redeemed
    PROVE  Taught!Next
  <1>1. CASE \E w \in Branches : Resolve(w)
    BY <1>1 DEF Resolve, supplies, claims, Branches, Taught!Next, Taught!Resolve,
                Taught!Branches, Taught!sets
  <1>2. CASE Void
    BY <1>2 DEF Void, NoBranch, supplies, claims, Taught!Next, Taught!VoidVault, Taught!sets
  <1>3. CASE \E sc \in Scores : SettleScalar(sc)
    <2>1. PICK sc \in Scores : SettleScalar(sc)
      BY <1>3
    <2>2. sc \in 0 .. Scale
      BY <2>1 DEF SettleScalar
    <2>3. Taught!SettleScalar(sc)
      BY <2>1, <2>2 DEF SettleScalar, supplies, claims, Taught!SettleScalar, Taught!sets
    <2> QED
      BY <2>2, <2>3 DEF Taught!Next
  <1>4. CASE \E g \in LiveGates, o \in {"True", "False"} : SettleGate(g, o)
    <2>1. PICK g \in LiveGates, o \in {"True", "False"} : SettleGate(g, o)
      BY <1>4
    <2>2. Taught!SettleGate(g, o)
      BY <2>1 DEF SettleGate, supplies, claims, Taught!SettleGate, Taught!sets
    <2>3. g \in Taught!Gates
      BY DEF Gates, Taught!Gates
    <2> QED
      BY <2>2, <2>3 DEF Taught!Next
  <1> QED
    BY <1>1, <1>2, <1>3, <1>4 DEF Decide

(* A creation, a merge or a transfer by a holder.                          *)
LEMMA TradeImplements ==
    ASSUME FloorsTaught,
           NEW who \in Accounts, NEW a \in Amounts, Trade(who, a), redeemed' = redeemed
    PROVE  Taught!Next \/ UNCHANGED Taught!vars
  <1> USE DEF terms, Taught!terms, Taught!sets
  <1>1. a >= KernelMinSplit
    BY DEF FloorsTaught
  <1>2. CASE Split(who, a)
    <2>1. Taught!Book({}, Taught!Branches \X {"BranchUsdc"}, a)
      BY <1>2, RebookIsBook DEF Split, Branches, Taught!Branches
    <2>2. Taught!Split(a)
      BY <1>1, <1>2, <2>1 DEF Split, Taught!Split
    <2> QED
      BY <2>2 DEF Taught!Next
  <1>3. CASE Merge(who, a)
    <2>1. Taught!Book(Taught!Branches \X {"BranchUsdc"}, {}, a)
      BY <1>3, RebookIsBook DEF Merge, Branches, Taught!Branches
    <2>2. Taught!Merge(a)
      BY <1>3, <2>1 DEF Merge, Mergeable, PayOut, Taught!Merge, Taught!AdmitsPairOps
    <2> QED
      BY <2>2 DEF Taught!Next
  <1>4. ASSUME NEW b \in LiveBranches, NEW origin \in Origins, NEW m \in MinSplits,
               SplitScalar(origin, m, b, who, a)
        PROVE  Taught!Next
    <2>1. Taught!Book({<<b, "BranchUsdc">>}, {b} \X {"Long", "Short"}, a)
      BY <1>4, RebookIsBook DEF SplitScalar
    <2>2. Taught!SplitScalar(b, a)
      BY <1>1, <1>4, <2>1 DEF SplitScalar, Taught!SplitScalar
    <2>3. b \in Taught!Branches
      BY DEF Branches, Taught!Branches
    <2> QED
      BY <2>2, <2>3 DEF Taught!Next
  <1>5. ASSUME NEW b \in LiveBranches, MergeScalar(b, who, a)
        PROVE  Taught!Next
    <2>1. Taught!Book({b} \X {"Long", "Short"}, {<<b, "BranchUsdc">>}, a)
      BY <1>5, RebookIsBook DEF MergeScalar
    <2>2. Taught!MergeScalar(b, a)
      BY <1>5, <2>1 DEF MergeScalar, Mergeable, Taught!MergeScalar, Taught!AdmitsPairOps
    <2>3. b \in Taught!Branches
      BY DEF Branches, Taught!Branches
    <2> QED
      BY <2>2, <2>3 DEF Taught!Next
  <1>6. ASSUME NEW b \in LiveBranches, NEW g \in LiveGates, NEW origin \in Origins,
               NEW m \in MinSplits, SplitGate(origin, m, b, g, who, a)
        PROVE  Taught!Next
    <2>1. Taught!Book({<<b, "BranchUsdc">>}, {b} \X {Taught!GateYes(g), Taught!GateNo(g)}, a)
      BY <1>6, RebookIsBook DEF SplitGate, Yes, No, Taught!GateYes, Taught!GateNo
    <2>2. Taught!SplitGate(b, g, a)
      BY <1>1, <1>6, <2>1 DEF SplitGate, Taught!SplitGate
    <2>3. b \in Taught!Branches /\ g \in Taught!Gates
      BY DEF Branches, Gates, Taught!Branches, Taught!Gates
    <2> QED
      BY <2>2, <2>3 DEF Taught!Next
  <1>7. ASSUME NEW b \in LiveBranches, NEW g \in LiveGates, MergeGate(b, g, who, a)
        PROVE  Taught!Next
    <2>1. Taught!Book({b} \X {Taught!GateYes(g), Taught!GateNo(g)}, {<<b, "BranchUsdc">>}, a)
      BY <1>7, RebookIsBook DEF MergeGate, Yes, No, Taught!GateYes, Taught!GateNo
    <2>2. Taught!MergeGate(b, g, a)
      BY <1>7, <2>1 DEF MergeGate, Mergeable, Taught!MergeGate, Taught!AdmitsPairOps
    <2>3. b \in Taught!Branches /\ g \in Taught!Gates
      BY DEF Branches, Gates, Taught!Branches, Taught!Gates
    <2> QED
      BY <2>2, <2>3 DEF Taught!Next
  <1>8. ASSUME NEW origin \in Origins, NEW id \in Ids, NEW to \in Accounts,
               Transfer(origin, id, who, to, a)
        PROVE  UNCHANGED Taught!vars
    BY <1>8 DEF Transfer, supplies, Taught!vars
  <1> QED
    BY <1>2, <1>3, <1>4, <1>5, <1>6, <1>7, <1>8 DEF Trade

(* A redemption by a holder.                                               *)
LEMMA ClaimImplements ==
    ASSUME NEW who \in Accounts, NEW a \in Amounts, Claim(who, a), redeemed' = TRUE
    PROVE  Taught!Next
  <1> USE DEF terms, supplies, PayOut, Taught!terms, Taught!sets, Taught!Payout
  <1>1. CASE Redeem(who, a)
    <2>1. Taught!Book({<<winner, "BranchUsdc">>}, {}, a)
      BY <1>1, RebookIsBook DEF Redeem
    <2>2. Taught!Redeem(a)
      BY <1>1, <2>1 DEF Redeem, Taught!Redeem
    <2> QED
      BY <2>2 DEF Taught!Next
  <1>2. ASSUME NEW rate \in Rates, NEW m \in MinSplits, NEW side \in {"Long", "Short"},
               RedeemScalar(rate, m, side, who, a)
        PROVE  Taught!Next
    <2>1. Taught!Book({<<winner, side>>}, {}, a)
      BY <1>2, RebookIsBook DEF RedeemScalar
    <2>2. Taught!RedeemScalar(side, a)
      BY <1>2, <2>1, SameValue DEF RedeemScalar, Taught!RedeemScalar
    <2> QED
      BY <2>2 DEF Taught!Next
  <1>3. ASSUME NEW rate \in Rates, NEW m \in MinSplits, RedeemScalarPair(rate, m, who, a)
        PROVE  Taught!Next
    <2>1. Taught!Book({winner} \X {"Long", "Short"}, {}, a)
      BY <1>3, RebookIsBook DEF RedeemScalarPair
    <2>2. Taught!RedeemScalarPair(a)
      BY <1>3, <2>1 DEF RedeemScalarPair, Taught!RedeemScalarPair
    <2> QED
      BY <2>2 DEF Taught!Next
  <1>4. ASSUME NEW rate \in Rates, NEW m \in MinSplits, NEW g \in LiveGates,
               RedeemGate(rate, m, g, who, a)
        PROVE  Taught!Next
    <2> DEFINE yes == outcome[g] = "True"
    <2>1. Taught!Book({<<winner, IF yes THEN Taught!GateYes(g) ELSE Taught!GateNo(g)>>}, {}, a)
      BY <1>4, RebookIsBook
         DEF RedeemGate, WinningSide, Yes, No, Taught!GateYes, Taught!GateNo
    <2>2. Taught!RedeemGate(g, yes, a)
      BY <1>4, <2>1 DEF RedeemGate, Taught!RedeemGate
    <2>3. yes \in BOOLEAN /\ g \in Taught!Gates
      BY DEF Gates, Taught!Gates
    <2> HIDE DEF yes
    <2> QED
      BY <2>2, <2>3 DEF Taught!Next
  <1>5. ASSUME NEW b \in Branches, NEW kind \in Kinds, RedeemVoid(b, kind, who, a)
        PROVE  Taught!Next
    <2>1. Taught!Book({<<b, kind>>}, {}, a)
      BY <1>5, RebookIsBook DEF RedeemVoid
    <2>2. Taught!RedeemVoid(<<b, kind>>, a)
      BY <1>5, <2>1 DEF RedeemVoid, VoidPay, Taught!RedeemVoid, Taught!RedeemVoidPayout
    <2>3. <<b, kind>> \in Taught!ProposalPositions
      BY DEF Branches, Kinds, Taught!ProposalPositions, Taught!Branches, Taught!PositionKinds
    <2> QED
      BY <2>2, <2>3 DEF Taught!Next
  <1> QED
    BY <1>1, <1>2, <1>3, <1>4, <1>5 DEF Claim

(* The vault of the chain implements the vault the explainer teaches:      *)
(* whatever the holders, the fees, the floors and the caps, its calls are  *)
(* calls of protocol/ledger.ts with the payouts and effects shown there.   *)
(* A call below the floor, which the market authority may make, is the one *)
(* the taught vault does not have.                                         *)
THEOREM ChainImplementsTaught ==
    ASSUME FloorsTaught
    PROVE  RecordedSpec => ImplementsTaught
  <1>1. RecordedInit => Taught!CreateVault
    BY DEF RecordedInit, Init, NoBranch, Ids, Branches, Kinds, Gates, Taught!CreateVault,
           Taught!ProposalPositions, Taught!Branches, Taught!PositionKinds, Taught!Gates
  <1>2. [RecordedNext]_<<vars, redeemed>> => [Taught!Next]_Taught!vars
    <2>1. CASE UNCHANGED <<vars, redeemed>>
      BY <2>1 DEF vars, Taught!vars, Taught!terms, Taught!sets
    <2>2. CASE RecordedNext
      <3>1. CASE Decide /\ redeemed' = redeemed
        BY <3>1, DecideImplements
      <3>2. CASE SweepRedemptionFees /\ redeemed' = redeemed
        BY <3>2 DEF SweepRedemptionFees, terms, supplies, claims,
                    Taught!vars, Taught!terms, Taught!sets
      <3>3. CASE (\E who \in Accounts, a \in Amounts : Trade(who, a)) /\ redeemed' = redeemed
        BY <3>3, TradeImplements
      <3>4. CASE (\E who \in Accounts, a \in Amounts : Claim(who, a)) /\ redeemed' = TRUE
        BY <3>4, ClaimImplements
      <3> QED
        BY <2>2, <3>1, <3>2, <3>3, <3>4 DEF RecordedNext
    <2> QED
      BY <2>1, <2>2
  <1> QED
    BY <1>1, <1>2, PTL DEF RecordedSpec, ImplementsTaught, Taught!Spec

-----------------------------------------------------------------------------
(* Conservation, as the explainer checks it.                               *)

(* Until the first redemption every branch's books add up to the escrow,   *)
(* in whatever state the vault is.                                         *)
MatchedUntilRedeemed == ~redeemed => \A b \in Branches : SupplyMatches(b)

(* A step that moves no supply, no total and no escrow.                    *)
LEMMA StillMatched ==
    ASSUME NEW b \in Branches, SupplyMatches(b),
           UNCHANGED <<escrowed, usdc, scalarSets, gateSets, total>>
    PROVE  SupplyMatches(b)'
  BY DEF SupplyMatches

(* No creation, merge or transfer breaks the match, a merge of a voided    *)
(* vault included.                                                         *)
LEMMA TradeMatched ==
    ASSUME TypeOK, Backed, NEW who \in Accounts, NEW a \in Amounts, Trade(who, a),
           \A b \in Branches : SupplyMatches(b)
    PROVE  \A b \in Branches : SupplyMatches(b)'
  <1>1. CASE Split(who, a)
    BY <1>1, SplitBacked DEF Split, terms, Backed
  <1>2. CASE Merge(who, a)
    BY <1>2, MergeBacked
  <1>3. ASSUME NEW c \in LiveBranches, NEW origin \in Origins, NEW m \in MinSplits,
               SplitScalar(origin, m, c, who, a)
        PROVE  \A b \in Branches : SupplyMatches(b)'
    BY <1>3, SplitScalarBacked DEF SplitScalar, terms, Backed
  <1>4. ASSUME NEW c \in LiveBranches, MergeScalar(c, who, a)
        PROVE  \A b \in Branches : SupplyMatches(b)'
    BY <1>4, MergeScalarBacked
  <1>5. ASSUME NEW c \in LiveBranches, NEW g \in LiveGates, NEW origin \in Origins,
               NEW m \in MinSplits, SplitGate(origin, m, c, g, who, a)
        PROVE  \A b \in Branches : SupplyMatches(b)'
    BY <1>5, SplitGateBacked DEF SplitGate, terms, Backed
  <1>6. ASSUME NEW c \in LiveBranches, NEW g \in LiveGates, MergeGate(c, g, who, a)
        PROVE  \A b \in Branches : SupplyMatches(b)'
    BY <1>6, MergeGateBacked
  <1>7. ASSUME NEW origin \in Origins, NEW id \in Ids, NEW to \in Accounts,
               Transfer(origin, id, who, to, a)
        PROVE  \A b \in Branches : SupplyMatches(b)'
    BY <1>7, StillMatched DEF Transfer, supplies
  <1> QED
    BY <1>1, <1>2, <1>3, <1>4, <1>5, <1>6, <1>7 DEF Trade

(* The recorded vault is the vault of ConditionalLedger.                   *)
LEMMA RecordedIsSpec == RecordedSpec => Spec
  <1>1. RecordedInit => Init
    BY DEF RecordedInit
  <1>2. [RecordedNext]_<<vars, redeemed>> => [Next]_vars
    BY DEF RecordedNext, Next
  <1> QED
    BY <1>1, <1>2, PTL DEF RecordedSpec, Spec

(* The match holds until the first redemption, and what is missing of it   *)
(* in a state with redemptions is solvency.                                *)
LEMMA AlwaysMatched == RecordedSpec => [](MatchedUntilRedeemed /\ redeemed \in BOOLEAN)
  <1> DEFINE Inv == MatchedUntilRedeemed /\ redeemed \in BOOLEAN
  <1>1. RecordedInit => Inv
    <2>1. ASSUME RecordedInit, NEW b \in Branches PROVE SupplyMatches(b)
      <3>1. \A k \in Kinds : total[<<b, k>>] = 0
        BY <2>1 DEF RecordedInit, Init, Ids
      <3>2. /\ usdc[b] = 0 /\ scalarSets[b] = 0 /\ escrowed = 0
            /\ \A g \in Gates : gateSets[b][g] = 0
        BY <2>1 DEF RecordedInit, Init
      <3> QED
        BY <3>1, <3>2 DEF SupplyMatches, Kinds, Gates, Yes, No
    <2> QED
      BY <2>1 DEF RecordedInit, MatchedUntilRedeemed
  <1>2. TypeOK /\ Backed /\ Inv /\ [RecordedNext]_<<vars, redeemed>> => Inv'
    <2> SUFFICES ASSUME TypeOK, Backed, Inv, [RecordedNext]_<<vars, redeemed>> PROVE Inv'
      OBVIOUS
    <2>1. CASE UNCHANGED <<vars, redeemed>>
      BY <2>1, StillMatched DEF vars, MatchedUntilRedeemed
    <2>2. CASE Decide /\ redeemed' = redeemed
      BY <2>2, StillMatched
         DEF Decide, Resolve, Void, SettleScalar, SettleGate, supplies, claims,
             MatchedUntilRedeemed
    <2>3. CASE SweepRedemptionFees /\ redeemed' = redeemed
      BY <2>3, StillMatched DEF SweepRedemptionFees, supplies, claims, MatchedUntilRedeemed
    <2>4. CASE (\E who \in Accounts, a \in Amounts : Trade(who, a)) /\ redeemed' = redeemed
      BY <2>4, TradeMatched DEF MatchedUntilRedeemed
    <2>5. CASE redeemed' = TRUE
      BY <2>5 DEF MatchedUntilRedeemed
    <2> QED
      BY <2>1, <2>2, <2>3, <2>4, <2>5 DEF RecordedNext
  <1> QED
    BY <1>1, <1>2, RecordedIsSpec, TypeCorrect, AlwaysBacked, PTL DEF RecordedSpec

(* A branch whose books match owes exactly the escrow.                     *)
LEMMA MatchedIdentity ==
    ASSUME NEW b \in Branches, SupplyMatches(b)
    PROVE  Taught!BranchIdentity(b) = escrowed /\ Taught!LegsMatchSets(b)
  BY DEF SupplyMatches, Gates, Yes, No, Taught!BranchIdentity, Taught!LegsMatchSets,
         Taught!Gates, Taught!GateYes, Taught!GateNo

(* The most that can be taken out is what try_state counts as owed.        *)
LEMMA SameVoidedClaims == Taught!VoidedClaims = VoidLiability
  BY DEF Taught!VoidedClaims, Taught!EffectiveOf, Taught!LeftoversOf, Taught!LeftOf,
         Taught!PairsOf, Taught!Lesser, VoidLiability, EffectiveUsdc, Leftovers, RestOf,
         SetsOf, Smaller

LEMMA SameSettledClaims == Taught!SettledClaims = SettledLiability
  BY DEF Taught!SettledClaims, Taught!GateClaims, Taught!ScalarPayout, Taught!FloorScaled,
         Taught!Lesser, Taught!Greater, Taught!GateYes, Taught!GateNo, SettledLiability,
         GateLiability, LongPay, ShortPay, MulScore, Smaller, Larger, Yes, No

(* checkConservation, which the explainer asserts after every call it      *)
(* shows, holds of the chain's vault: before a redemption the escrow is    *)
(* the claims of either branch, and at any time it covers the most that    *)
(* its holders can take out.                                               *)
THEOREM ChainConserves == RecordedSpec => []TaughtConserves
  <1>1. TypeOK /\ Solvent /\ MatchedUntilRedeemed /\ redeemed \in BOOLEAN => TaughtConserves
    <2> SUFFICES ASSUME TypeOK, Solvent, MatchedUntilRedeemed, redeemed \in BOOLEAN
                 PROVE  TaughtConserves
      OBVIOUS
    <2>1. escrowed \in Nat
      BY DEF TypeOK
    <2>2. ~redeemed => \A b \in Taught!Branches :
             Taught!BranchIdentity(b) = escrowed /\ Taught!LegsMatchSets(b)
      BY MatchedIdentity DEF MatchedUntilRedeemed, Branches, Taught!Branches
    <2>3. Taught!MaxClaimValue <= escrowed
      <3>1. CASE state = "Open"
        <4>1. /\ Taught!BranchIdentity("Accept") = escrowed
              /\ Taught!BranchIdentity("Reject") = escrowed
          BY <3>1, MatchedIdentity DEF Solvent, Branches
        <4> QED
          BY <2>1, <3>1, <4>1 DEF Taught!MaxClaimValue, Taught!Greater
      <3>2. CASE state = "Resolved"
        <4>1. Taught!BranchIdentity(winner) = escrowed
          BY <3>2, MatchedIdentity DEF Solvent, TypeOK
        <4> QED
          BY <2>1, <3>2, <4>1 DEF Taught!MaxClaimValue
      <3>3. CASE state = "Voided"
        BY <3>3, SameVoidedClaims DEF Taught!MaxClaimValue, Solvent
      <3>4. CASE state = "ScalarSettled"
        BY <3>4, SameSettledClaims DEF Taught!MaxClaimValue, Solvent
      <3> QED
        BY <3>1, <3>2, <3>3, <3>4 DEF TypeOK
    <2> QED
      BY <2>1, <2>2, <2>3 DEF TaughtConserves, Taught!CheckConservation
  <1> QED
    BY <1>1, RecordedIsSpec, TypeCorrect, AlwaysSolvent, AlwaysMatched, PTL

=============================================================================
