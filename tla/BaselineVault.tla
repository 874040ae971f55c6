--------------------------- MODULE BaselineVault ---------------------------
(***************************************************************************)
(* One Baseline vault of crates/conditional-ledger-core: LONG/SHORT sets   *)
(* on the welfare of an epoch, settled at a score, with no branches, gates *)
(* or void.  Complete sets are merged while it is Open; after settlement   *)
(* legs are redeemed pro rata and pairs at par, both charged.              *)
(***************************************************************************)
EXTENDS RedemptionFee, FiniteSets, Functions

CONSTANTS
    Accounts,        \* the holders of positions
    Protocol,        \* protocol_accounts: no position cap, no fee, no floors
    KernelMinSplit,  \* kernel::MIN_SPLIT_USDC
    MinTransfer,     \* kernel::MIN_TRANSFER_USDC
    MaxPositions,    \* what the position cap leaves a holder for this vault
    Rates,           \* the ledger.redeem_fee records the shell may overlay
    MinSplits,       \* the ledger.min_split records the shell may overlay
    Amounts,         \* the amounts calls are made with
    Scores,          \* the settlement scores calls are made with
    MaxEscrow        \* bound: collateral ever escrowed at one time

Sides == {"Long", "Short"}

ASSUME AccountsAssumption == /\ IsFiniteSet(Accounts)
                             /\ Protocol \subseteq Accounts
ASSUME FloorsAssumption   == /\ KernelMinSplit \in Nat
                             /\ MinTransfer \in Nat
                             /\ MaxPositions \in Nat
ASSUME InputsAssumption   == /\ Rates \subseteq Nat
                             /\ MinSplits \subseteq Nat
                             /\ Amounts \subseteq Nat
                             /\ Scores \subseteq Nat
                             /\ MaxEscrow \in Nat

VARIABLES
    state,     \* BaselineVaultInfo.state, without its payload
    score,     \* the score a Settled state carries
    escrowed,  \* BaselineVaultInfo.escrowed
    sets,      \* BaselineVaultInfo.sets
    balance,   \* positions: the balance of each side and holder
    total,     \* position_totals
    accrued    \* redemption_fees_accrued

vars == <<state, score, escrowed, sets, balance, total, accrued>>

TypeOK ==
    /\ state \in {"Open", "Settled"}
    /\ score \in 0 .. Scale
    /\ escrowed \in Nat
    /\ sets \in Nat
    /\ balance \in [Sides -> [Accounts -> Nat]]
    /\ total \in [Sides -> Nat]
    /\ accrued \in Nat

(* create_baseline_vault.                                                  *)
Init ==
    /\ state = "Open"
    /\ score = 0
    /\ escrowed = 0
    /\ sets = 0
    /\ balance = [side \in Sides |-> [who \in Accounts |-> 0]]
    /\ total = [side \in Sides |-> 0]
    /\ accrued = 0

-----------------------------------------------------------------------------

Held(book, who) == {side \in Sides : book[side][who] > 0}

MintSets(who, a) ==
    /\ balance' = [side \in Sides |-> [balance[side] EXCEPT ![who] = @ + a]]
    /\ total' = [side \in Sides |-> total[side] + a]
    /\ \/ who \in Protocol
       \/ Held(balance', who) = Held(balance, who)
       \/ Cardinality(Held(balance', who)) <= MaxPositions

Burn(who, burnt, a) ==
    /\ \A side \in burnt : balance[side][who] >= a /\ total[side] >= a
    /\ balance' = [side \in Sides |-> [balance[side] EXCEPT ![who] =
                                         @ - (IF side \in burnt THEN a ELSE 0)]]
    /\ total' = [side \in Sides |-> total[side] - (IF side \in burnt THEN a ELSE 0)]

Charged(who, fee) == IF who \in Protocol THEN 0 ELSE fee

(* pay_out_baseline and accrue_fee.                                        *)
PayOut(gross, fee) ==
    /\ escrowed >= gross
    /\ escrowed' = escrowed - gross
    /\ fee <= gross
    /\ accrued' = accrued + fee

-----------------------------------------------------------------------------

SplitBaseline(who, a) ==
    /\ a >= KernelMinSplit
    /\ state = "Open"
    /\ escrowed + a <= MaxEscrow
    /\ escrowed' = escrowed + a
    /\ sets' = sets + a
    /\ MintSets(who, a)
    /\ UNCHANGED <<state, score, accrued>>

MergeBaseline(who, a) ==
    /\ state = "Open"
    /\ sets >= a
    /\ sets' = sets - a
    /\ Burn(who, Sides, a)
    /\ PayOut(a, 0)
    /\ UNCHANGED <<state, score>>

(* transfer_impl: a Baseline position moves only while its vault is Open.  *)
Moved(origin, side, from, a) ==
    IF /\ origin = "Signed" /\ from \notin Protocol
       /\ balance[side][from] - a \in 1 .. (MinTransfer - 1)
    THEN balance[side][from]
    ELSE a

(* A faulty Transfer, for mutation: a swept balance is debited, but only   *)
(* the amount asked for is credited.                                       *)
UnevenTransfer(origin, side, from, to, a) ==
    LET moved == Moved(origin, side, from, a)
    IN  /\ a > 0
        /\ balance[side][to] > 0 \/ to \in Protocol \/ a >= MinTransfer
        /\ state = "Open"
        /\ balance[side][from] >= moved
        /\ total[side] >= moved
        /\ balance' = [balance EXCEPT ![side] =
               [w \in Accounts |-> balance[side][w]
                                     - (IF w = from THEN moved ELSE 0)
                                     + (IF w = to THEN a ELSE 0)]]
        /\ \/ to \in Protocol \/ balance[side][to] > 0
           \/ Cardinality(Held(balance', to)) <= MaxPositions
        /\ UNCHANGED <<state, score, escrowed, sets, total, accrued>>

Transfer(origin, side, from, to, a) ==
    LET moved == Moved(origin, side, from, a)
    IN  /\ a > 0
        /\ balance[side][to] > 0 \/ to \in Protocol \/ a >= MinTransfer
        /\ state = "Open"
        /\ balance[side][from] >= moved
        /\ total[side] >= moved
        /\ balance' = [balance EXCEPT ![side] =
               [w \in Accounts |-> balance[side][w]
                                     - (IF w = from THEN moved ELSE 0)
                                     + (IF w = to THEN moved ELSE 0)]]
        /\ \/ to \in Protocol \/ balance[side][to] > 0
           \/ Cardinality(Held(balance', to)) <= MaxPositions
        /\ UNCHANGED <<state, score, escrowed, sets, total, accrued>>

(* A faulty SettleBaseline, for mutation: ensure_score is missing.         *)
UncheckedSettleBaseline(s) ==
    /\ state = "Open"
    /\ state' = "Settled"
    /\ score' = s
    /\ UNCHANGED <<escrowed, sets, balance, total, accrued>>

(* A faulty SettleBaseline, for mutation: a settled vault settles again.   *)
ResettleBaseline(s) ==
    /\ s <= Scale
    /\ state' = "Settled"
    /\ score' = s
    /\ UNCHANGED <<escrowed, sets, balance, total, accrued>>

SettleBaseline(s) ==
    /\ s <= Scale
    /\ state = "Open"
    /\ state' = "Settled"
    /\ score' = s
    /\ UNCHANGED <<escrowed, sets, balance, total, accrued>>

SideValue(side, a) == IF side = "Long" THEN LongPay(a, score) ELSE ShortPay(a, score)

RedeemBaseline(rate, minSplit, side, who, a) ==
    /\ state = "Settled"
    /\ Burn(who, {side}, a)
    /\ PayOut(SideValue(side, a), Charged(who, Fee(SideValue(side, a), rate, minSplit)))
    /\ UNCHANGED <<state, score, sets>>

RedeemBaselinePair(rate, minSplit, who, a) ==
    /\ state = "Settled"
    /\ sets >= a
    /\ sets' = sets - a
    /\ Burn(who, Sides, a)
    /\ PayOut(a, Charged(who, PairFee(a, score, rate, minSplit)))
    /\ UNCHANGED <<state, score>>

SweepRedemptionFees ==
    /\ accrued' = 0
    /\ UNCHANGED <<state, score, escrowed, sets, balance, total>>

Next ==
    \/ \E s \in Scores : SettleBaseline(s)
    \/ \E who \in Accounts, a \in Amounts :
         \/ SplitBaseline(who, a)
         \/ MergeBaseline(who, a)
         \/ \E origin \in {"Signed", "MarketAuthority"}, side \in Sides, to \in Accounts :
              Transfer(origin, side, who, to, a)
         \/ \E rate \in Rates, m \in MinSplits :
              \/ \E side \in Sides : RedeemBaseline(rate, m, side, who, a)
              \/ RedeemBaselinePair(rate, m, who, a)
    \/ SweepRedemptionFees

Spec == Init /\ [][Next]_vars

-----------------------------------------------------------------------------
(* Properties.                                                             *)

Smaller(x, y) == IF x <= y THEN x ELSE y

(* try_state: pairs at par, then the floored leftovers.                    *)
Liability ==
    LET pairs == Smaller(total["Long"], total["Short"])
    IN  pairs + LongPay(total["Long"] - pairs, score)
              + ShortPay(total["Short"] - pairs, score)

(* Conservation of the Baseline vault (I-1 to I-4), as                     *)
(* try_state_vault_conservation checks it, and the set counter from which  *)
(* a pair redemption subtracts never falls below either leg.               *)
BaselineSolvent ==
    /\ state = "Open" => /\ escrowed = sets
                         /\ total["Long"] = sets /\ total["Short"] = sets
    /\ state = "Settled" => escrowed >= Liability
    /\ total["Long"] <= sets /\ total["Short"] <= sets

(* The total of a side is the sum of its holders' balances, also through   *)
(* transfers that sweep a balance below the minimum.                       *)
BaselineBooksAgree == \A side \in Sides : total[side] = SumFunction(balance[side])

(* The inductive form of BaselineSolvent, before any division.             *)
BaselineBacked ==
    /\ state = "Open" => /\ escrowed = sets
                         /\ total["Long"] = sets /\ total["Short"] = sets
    /\ state = "Settled" =>
         Scale * escrowed >= score * total["Long"] + (Scale - score) * total["Short"]
    /\ total["Long"] <= sets /\ total["Short"] <= sets

(* Redeeming a complete set never nets a holder less than redeeming its    *)
(* two legs (PT-7), at whatever rate and floor are live.                   *)
Net(gross, fee) == gross - fee

PairNeverWorse ==
    state = "Settled" =>
      \A a \in 0 .. Smaller(total["Long"], total["Short"]), rate \in Rates, m \in MinSplits :
        Net(a, PairFee(a, score, rate, m)) >=
            Net(LongPay(a, score), Fee(LongPay(a, score), rate, m))
              + Net(ShortPay(a, score), Fee(ShortPay(a, score), rate, m))

(* The fee on every payout the vault can make is the exact ceiling of the  *)
(* rate, or is waived; it is never charged down to a net below the floor   *)
(* (a net the collateral would refuse as below its minimum balance), and   *)
(* the waived payouts are the small ones: nothing larger than a charged    *)
(* payout is waived.                                                       *)
Waived(gross, rate, m) == gross - Charge(gross, EffectiveRedeemFee(rate)) < m

ChargeSound ==
    \A rate \in Rates, m \in MinSplits, gross \in 0 .. escrowed :
      LET fee == Fee(gross, rate, m)
          r   == EffectiveRedeemFee(rate)
      IN  /\ fee > 0 => /\ PerbillOne * fee \in gross * r .. gross * r + PerbillOne - 1
                        /\ gross - fee >= m
          /\ fee = 0 /\ gross * r > 0 => \A g \in 0 .. gross : Fee(g, rate, m) = 0

(* The fee is sound on a single payout and on a complete set.              *)
FeeSound == ChargeSound /\ PairNeverWorse

=============================================================================
