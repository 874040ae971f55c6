------------------------- MODULE ConditionalLedger -------------------------
(***************************************************************************)
(* One proposal vault of crates/conditional-ledger-core.                   *)
(*                                                                         *)
(* Collateral is split into branch-USDC of both branches; branch-USDC of a *)
(* branch is split further into LONG/SHORT sets and into YES/NO sets of    *)
(* two gates.  The vault is Open, is resolved to a branch, and ends either *)
(* scalar-settled at a score or voided.  Claims are merged back, moved     *)
(* between accounts and redeemed; every call is atomic (a failed call is   *)
(* rolled back and changes nothing, so it is not a step of the model).     *)
(***************************************************************************)
EXTENDS RedemptionFee, FiniteSets, Functions

CONSTANTS
    Accounts,        \* the holders of positions
    Protocol,        \* protocol_accounts: no position cap, no fee, no floors
    KernelMinSplit,  \* kernel::MIN_SPLIT_USDC
    MinTransfer,     \* kernel::MIN_TRANSFER_USDC
    MaxPositions,    \* MAX_POSITIONS_PER_ACCOUNT
    Rates,           \* the ledger.redeem_fee records the shell may overlay
    MinSplits,       \* the ledger.min_split records the shell may overlay
    Amounts,         \* the amounts calls are made with
    Scores,          \* the settlement scores calls are made with
    LiveBranches,    \* the branches whose claims are split into sets
    LiveGates,       \* the gates calls are made for
    MaxEscrow        \* bound: collateral ever escrowed at one time

Branches == {"Accept", "Reject"}
Gates    == {"Survival", "Security"}

Yes(g) == IF g = "Survival" THEN "SurvivalYes" ELSE "SecurityYes"
No(g)  == IF g = "Survival" THEN "SurvivalNo" ELSE "SecurityNo"
Kinds  == {"BranchUsdc", "Long", "Short",
           "SurvivalYes", "SurvivalNo", "SecurityYes", "SecurityNo"}

(* proposal_positions: the 14 instruments of a proposal vault.             *)
Ids == Branches \X Kinds

ASSUME AccountsAssumption == /\ IsFiniteSet(Accounts)
                             /\ Protocol \subseteq Accounts
ASSUME FloorsAssumption   == /\ KernelMinSplit \in Nat
                             /\ MinTransfer \in Nat
                             /\ MaxPositions \in Nat
ASSUME InputsAssumption   == /\ Rates \subseteq Nat
                             /\ MinSplits \subseteq Nat
                             /\ Amounts \subseteq Nat
                             /\ Scores \subseteq Nat
                             /\ LiveBranches \subseteq Branches
                             /\ LiveGates \subseteq Gates
                             /\ MaxEscrow \in Nat

VARIABLES
    state,       \* VaultInfo.state, without its payload
    winner,      \* the branch a Resolved or ScalarSettled state carries
    score,       \* the score a ScalarSettled state carries
    outcome,     \* VaultInfo.gate_outcomes
    escrowed,    \* VaultInfo.escrowed
    usdc,        \* BranchSupply.usdc of each branch
    scalarSets,  \* BranchSupply.scalar_sets of each branch
    gateSets,    \* BranchSupply.gate_sets of each branch
    balance,     \* positions: the balance of each instrument and holder
    total,       \* position_totals
    accrued      \* redemption_fees_accrued

terms    == <<state, winner, score, outcome>>
supplies == <<usdc, scalarSets, gateSets>>
claims   == <<balance, total>>
vars     == <<state, winner, score, outcome, escrowed, usdc, scalarSets,
              gateSets, balance, total, accrued>>

NoBranch == "None"

TypeOK ==
    /\ state \in {"Open", "Resolved", "ScalarSettled", "Voided"}
    /\ winner \in Branches \cup {NoBranch}
    /\ state \in {"Resolved", "ScalarSettled"} => winner \in Branches
    /\ score \in 0 .. Scale
    /\ outcome \in [Gates -> {"None", "True", "False"}]
    /\ escrowed \in Nat
    /\ usdc \in [Branches -> Nat]
    /\ scalarSets \in [Branches -> Nat]
    /\ gateSets \in [Branches -> [Gates -> Nat]]
    /\ balance \in [Ids -> [Accounts -> Nat]]
    /\ total \in [Ids -> Nat]
    /\ accrued \in Nat

(* LedgerState::new and create_vault.                                      *)
Init ==
    /\ state = "Open"
    /\ winner = NoBranch
    /\ score = 0
    /\ outcome = [g \in Gates |-> "None"]
    /\ escrowed = 0
    /\ usdc = [b \in Branches |-> 0]
    /\ scalarSets = [b \in Branches |-> 0]
    /\ gateSets = [b \in Branches |-> [g \in Gates |-> 0]]
    /\ balance = [id \in Ids |-> [who \in Accounts |-> 0]]
    /\ total = [id \in Ids |-> 0]
    /\ accrued = 0

-----------------------------------------------------------------------------
(* Burning and minting.                                                    *)

Part(id, ids, a) == IF id \in ids THEN a ELSE 0

Held(who)         == {id \in Ids : balance[id][who] > 0}
HeldIn(book, who) == {id \in Ids : book[id][who] > 0}

(* burn and then mint the same amount of some instruments of one holder: a *)
(* burn needs the balance and the total, and a record opened by a mint is  *)
(* refused to a holder at the position cap, unless it is the protocol's.   *)
Rebook(who, burns, mints, a) ==
    /\ \A id \in burns : balance[id][who] >= a /\ total[id] >= a
    /\ balance' = [id \in Ids |-> [balance[id] EXCEPT ![who] =
                                     @ - Part(id, burns, a) + Part(id, mints, a)]]
    /\ total' = [id \in Ids |-> total[id] - Part(id, burns, a) + Part(id, mints, a)]
    /\ \/ who \in Protocol
       \/ \A id \in mints : balance'[id][who] > 0 => balance[id][who] > 0
       \/ Cardinality(HeldIn(balance', who)) <= MaxPositions

(* claimant_treatment: protocol accounts are exempt from every charge.     *)
Charged(who, fee) == IF who \in Protocol THEN 0 ELSE fee

(* pay_out_proposal and accrue_fee: escrow falls by the gross, the fee     *)
(* stays behind as an accrual.                                             *)
PayOut(gross, fee) ==
    /\ escrowed >= gross
    /\ escrowed' = escrowed - gross
    /\ fee <= gross
    /\ accrued' = accrued + fee

-----------------------------------------------------------------------------
(* Complete sets.  origin is Signed or MarketAuthority (the do_* calls);   *)
(* a Signed creation of sets is also bound by the live min_split.          *)

Origins == {"Signed", "MarketAuthority"}

Mergeable == state \in {"Open", "Resolved", "Voided"}

Split(who, a) ==
    /\ a >= KernelMinSplit
    /\ state = "Open"
    /\ escrowed + a <= MaxEscrow
    /\ escrowed' = escrowed + a
    /\ usdc' = [b \in Branches |-> usdc[b] + a]
    /\ Rebook(who, {}, Branches \X {"BranchUsdc"}, a)
    /\ UNCHANGED <<terms, scalarSets, gateSets, accrued>>

Merge(who, a) ==
    /\ Mergeable
    /\ \A b \in Branches : usdc[b] >= a
    /\ usdc' = [b \in Branches |-> usdc[b] - a]
    /\ Rebook(who, Branches \X {"BranchUsdc"}, {}, a)
    /\ PayOut(a, 0)
    /\ UNCHANGED <<terms, scalarSets, gateSets>>

SplitScalar(origin, minSplit, b, who, a) ==
    /\ state = "Open"
    /\ origin = "Signed" => a >= minSplit
    /\ usdc[b] >= a
    /\ usdc' = [usdc EXCEPT ![b] = @ - a]
    /\ scalarSets' = [scalarSets EXCEPT ![b] = @ + a]
    /\ Rebook(who, {<<b, "BranchUsdc">>}, {b} \X {"Long", "Short"}, a)
    /\ UNCHANGED <<terms, gateSets, escrowed, accrued>>

MergeScalar(b, who, a) ==
    /\ Mergeable
    /\ scalarSets[b] >= a
    /\ usdc' = [usdc EXCEPT ![b] = @ + a]
    /\ scalarSets' = [scalarSets EXCEPT ![b] = @ - a]
    /\ Rebook(who, {b} \X {"Long", "Short"}, {<<b, "BranchUsdc">>}, a)
    /\ UNCHANGED <<terms, gateSets, escrowed, accrued>>

SplitGate(origin, minSplit, b, g, who, a) ==
    /\ state = "Open"
    /\ origin = "Signed" => a >= minSplit
    /\ usdc[b] >= a
    /\ usdc' = [usdc EXCEPT ![b] = @ - a]
    /\ gateSets' = [gateSets EXCEPT ![b][g] = @ + a]
    /\ Rebook(who, {<<b, "BranchUsdc">>}, {b} \X {Yes(g), No(g)}, a)
    /\ UNCHANGED <<terms, scalarSets, escrowed, accrued>>

MergeGate(b, g, who, a) ==
    /\ Mergeable
    /\ gateSets[b][g] >= a
    /\ usdc' = [usdc EXCEPT ![b] = @ + a]
    /\ gateSets' = [gateSets EXCEPT ![b][g] = @ - a]
    /\ Rebook(who, {b} \X {Yes(g), No(g)}, {<<b, "BranchUsdc">>}, a)
    /\ UNCHANGED <<terms, scalarSets, escrowed, accrued>>

-----------------------------------------------------------------------------
(* Moving a position.                                                      *)

(* A Signed sender may not be left with less than MinTransfer: the whole   *)
(* balance moves instead.                                                  *)
Moved(origin, id, from, a) ==
    IF /\ origin = "Signed" /\ from \notin Protocol
       /\ balance[id][from] - a \in 1 .. (MinTransfer - 1)
    THEN balance[id][from]
    ELSE a

(* A faulty Transfer, for mutation: the sweep of a sub-minimum remainder   *)
(* debits the sender by what moved, and credits what was asked for.        *)
UnevenTransfer(origin, id, from, to, a) ==
    LET moved == Moved(origin, id, from, a)
    IN  /\ a > 0
        /\ balance[id][to] > 0 \/ to \in Protocol \/ a >= MinTransfer
        /\ Mergeable
        /\ balance[id][from] >= moved
        /\ balance' = [balance EXCEPT ![id] =
               [w \in Accounts |-> balance[id][w]
                                     - (IF w = from THEN moved ELSE 0)
                                     + (IF w = to THEN a ELSE 0)]]
        /\ UNCHANGED <<terms, supplies, escrowed, total, accrued>>

(* A new record outside the protocol's starts at MinTransfer or more.      *)
Transfer(origin, id, from, to, a) ==
    LET moved == Moved(origin, id, from, a)
    IN  /\ a > 0
        /\ balance[id][to] > 0 \/ to \in Protocol \/ a >= MinTransfer
        /\ Mergeable
        /\ balance[id][from] >= moved
        /\ total[id] >= moved
        /\ balance' = [balance EXCEPT ![id] =
               [w \in Accounts |-> balance[id][w]
                                     - (IF w = from THEN moved ELSE 0)
                                     + (IF w = to THEN moved ELSE 0)]]
        /\ \/ to \in Protocol \/ balance[id][to] > 0
           \/ Cardinality(HeldIn(balance', to)) <= MaxPositions
        /\ UNCHANGED <<terms, supplies, escrowed, total, accrued>>

-----------------------------------------------------------------------------
(* The decision and the settlements.                                       *)

Resolve(w) ==
    /\ state = "Open"
    /\ state' = "Resolved"
    /\ winner' = w
    /\ UNCHANGED <<score, outcome, escrowed, supplies, claims, accrued>>

(* A faulty Void, for mutation: a settled vault can still be voided.       *)
LateVoid ==
    /\ state # "Voided"
    /\ state' = "Voided"
    /\ winner' = NoBranch
    /\ UNCHANGED <<score, outcome, escrowed, supplies, claims, accrued>>

Void ==
    /\ state \in {"Open", "Resolved"}
    /\ state' = "Voided"
    /\ winner' = NoBranch
    /\ UNCHANGED <<score, outcome, escrowed, supplies, claims, accrued>>

(* A faulty SettleScalar, for mutation: ensure_score is missing.           *)
UncheckedSettleScalar(s) ==
    /\ state = "Resolved"
    /\ state' = "ScalarSettled"
    /\ score' = s
    /\ UNCHANGED <<winner, outcome, escrowed, supplies, claims, accrued>>

SettleScalar(s) ==
    /\ s <= Scale
    /\ state = "Resolved"
    /\ state' = "ScalarSettled"
    /\ score' = s
    /\ UNCHANGED <<winner, outcome, escrowed, supplies, claims, accrued>>

(* A faulty SettleGate, for mutation: an outcome can be overwritten.       *)
ResettleGate(g, o) ==
    /\ state \in {"Resolved", "ScalarSettled"}
    /\ outcome' = [outcome EXCEPT ![g] = o]
    /\ UNCHANGED <<state, winner, score, escrowed, supplies, claims, accrued>>

SettleGate(g, o) ==
    /\ state \in {"Resolved", "ScalarSettled"}
    /\ outcome[g] = "None"
    /\ outcome' = [outcome EXCEPT ![g] = o]
    /\ UNCHANGED <<state, winner, score, escrowed, supplies, claims, accrued>>

-----------------------------------------------------------------------------
(* Redemptions.                                                            *)

(* redeem: winning branch-USDC at par, never charged.                      *)
Redeem(who, a) ==
    /\ state = "ScalarSettled"
    /\ usdc[winner] >= a
    /\ usdc' = [usdc EXCEPT ![winner] = @ - a]
    /\ Rebook(who, {<<winner, "BranchUsdc">>}, {}, a)
    /\ PayOut(a, 0)
    /\ UNCHANGED <<terms, scalarSets, gateSets>>

SideValue(side, a) == IF side = "Long" THEN LongPay(a, score) ELSE ShortPay(a, score)

(* A faulty RedeemScalar, for mutation: one leg uses up a whole set of the *)
(* supply counter.                                                         *)
CountedRedeemScalar(rate, minSplit, side, who, a) ==
    /\ state = "ScalarSettled"
    /\ scalarSets[winner] >= a
    /\ scalarSets' = [scalarSets EXCEPT ![winner] = @ - a]
    /\ Rebook(who, {<<winner, side>>}, {}, a)
    /\ PayOut(SideValue(side, a), Charged(who, Fee(SideValue(side, a), rate, minSplit)))
    /\ UNCHANGED <<terms, usdc, gateSets>>

RedeemScalar(rate, minSplit, side, who, a) ==
    /\ state = "ScalarSettled"
    /\ Rebook(who, {<<winner, side>>}, {}, a)
    /\ PayOut(SideValue(side, a), Charged(who, Fee(SideValue(side, a), rate, minSplit)))
    /\ UNCHANGED <<terms, supplies>>

(* redeem_scalar_pair: a complete set pays exactly a, whatever the score.  *)
RedeemScalarPair(rate, minSplit, who, a) ==
    /\ state = "ScalarSettled"
    /\ scalarSets[winner] >= a
    /\ scalarSets' = [scalarSets EXCEPT ![winner] = @ - a]
    /\ Rebook(who, {winner} \X {"Long", "Short"}, {}, a)
    /\ PayOut(a, Charged(who, PairFee(a, score, rate, minSplit)))
    /\ UNCHANGED <<terms, usdc, gateSets>>

WinningSide(g) == IF outcome[g] = "True" THEN Yes(g) ELSE No(g)

RedeemGate(rate, minSplit, g, who, a) ==
    /\ state = "ScalarSettled"
    /\ outcome[g] # "None"
    /\ Rebook(who, {<<winner, WinningSide(g)>>}, {}, a)
    /\ PayOut(a, Charged(who, Fee(a, rate, minSplit)))
    /\ UNCHANGED <<terms, supplies>>

(* A faulty VoidPay, for mutation: every claim at the branch-USDC rate.    *)
HalfVoidPay(kind, a) == a \div 2

(* The VOID rates: half for branch-USDC, a quarter for every other claim.  *)
VoidPay(kind, a) == IF kind = "BranchUsdc" THEN a \div 2 ELSE a \div 4

RedeemVoid(b, kind, who, a) ==
    /\ state = "Voided"
    /\ kind = "BranchUsdc" => usdc[b] >= a
    /\ usdc' = [usdc EXCEPT ![b] = @ - (IF kind = "BranchUsdc" THEN a ELSE 0)]
    /\ Rebook(who, {<<b, kind>>}, {}, a)
    /\ PayOut(VoidPay(kind, a), 0)
    /\ UNCHANGED <<terms, scalarSets, gateSets>>

(* sweep_redemption_fees: the accrual leaves for the treasury.             *)
SweepRedemptionFees ==
    /\ accrued' = 0
    /\ UNCHANGED <<terms, escrowed, supplies, claims>>

-----------------------------------------------------------------------------

Decide ==
    \/ \E w \in Branches : Resolve(w)
    \/ Void
    \/ \E s \in Scores : SettleScalar(s)
    \/ \E g \in LiveGates, o \in {"True", "False"} : SettleGate(g, o)

Trade(who, a) ==
    \/ Split(who, a)
    \/ Merge(who, a)
    \/ \E b \in LiveBranches :
         \/ \E origin \in Origins, m \in MinSplits : SplitScalar(origin, m, b, who, a)
         \/ MergeScalar(b, who, a)
         \/ \E g \in LiveGates :
              \/ \E origin \in Origins, m \in MinSplits : SplitGate(origin, m, b, g, who, a)
              \/ MergeGate(b, g, who, a)
    \/ \E origin \in Origins, id \in Ids, to \in Accounts : Transfer(origin, id, who, to, a)

Claim(who, a) ==
    \/ Redeem(who, a)
    \/ \E rate \in Rates, m \in MinSplits :
         \/ \E side \in {"Long", "Short"} : RedeemScalar(rate, m, side, who, a)
         \/ RedeemScalarPair(rate, m, who, a)
         \/ \E g \in LiveGates : RedeemGate(rate, m, g, who, a)
    \/ \E b \in Branches, kind \in Kinds : RedeemVoid(b, kind, who, a)

Next ==
    \/ Decide
    \/ \E who \in Accounts, a \in Amounts : Trade(who, a) \/ Claim(who, a)
    \/ SweepRedemptionFees

Spec == Init /\ [][Next]_vars

-----------------------------------------------------------------------------
(* What the vault owes.                                                    *)

Smaller(x, y) == IF x <= y THEN x ELSE y
Larger(x, y)  == IF x >= y THEN x ELSE y

(* try_state: while Open or Resolved every branch's supplies add up to the *)
(* escrow, and every outstanding total is its supply counter.              *)
SupplyMatches(b) ==
    /\ usdc[b] + scalarSets[b] + gateSets[b]["Survival"] + gateSets[b]["Security"] = escrowed
    /\ total[<<b, "BranchUsdc">>] = usdc[b]
    /\ total[<<b, "Long">>] = scalarSets[b]
    /\ total[<<b, "Short">>] = scalarSets[b]
    /\ \A g \in Gates : /\ total[<<b, Yes(g)>>] = gateSets[b][g]
                        /\ total[<<b, No(g)>>] = gateSets[b][g]

(* What one gate can still cost the winning branch.                        *)
GateLiability(g) ==
    CASE outcome[g] = "True"  -> total[<<winner, Yes(g)>>]
      [] outcome[g] = "False" -> total[<<winner, No(g)>>]
      [] OTHER -> Larger(total[<<winner, Yes(g)>>], total[<<winner, No(g)>>])

(* try_state for ScalarSettled: pairs at par, then floored leftovers.      *)
SettledLiability ==
    LET long  == total[<<winner, "Long">>]
        short == total[<<winner, "Short">>]
        pairs == Smaller(long, short)
    IN  total[<<winner, "BranchUsdc">>] + pairs
          + LongPay(long - pairs, score) + ShortPay(short - pairs, score)
          + GateLiability("Survival") + GateLiability("Security")

(* try_state for Voided: sets merge into branch-USDC first, branch-USDC of *)
(* both branches merges into par, and only the rest takes the VOID rates.  *)
SetsOf(b, yes, no)  == Smaller(total[<<b, yes>>], total[<<b, no>>])
RestOf(b, yes, no)  == (total[<<b, yes>>] - SetsOf(b, yes, no)) \div 4
                         + (total[<<b, no>>] - SetsOf(b, yes, no)) \div 4
EffectiveUsdc(b) ==
    total[<<b, "BranchUsdc">>] + SetsOf(b, "Long", "Short")
      + SetsOf(b, "SurvivalYes", "SurvivalNo") + SetsOf(b, "SecurityYes", "SecurityNo")
Leftovers(b) ==
    RestOf(b, "Long", "Short")
      + RestOf(b, "SurvivalYes", "SurvivalNo") + RestOf(b, "SecurityYes", "SecurityNo")

VoidLiability ==
    LET accept == EffectiveUsdc("Accept")
        reject == EffectiveUsdc("Reject")
        par    == Smaller(accept, reject)
    IN  par + (accept - par) \div 2 + (reject - par) \div 2
          + Leftovers("Accept") + Leftovers("Reject")

-----------------------------------------------------------------------------
(* Properties.                                                             *)

(* Conservation, as try_state_vault_conservation checks it (I-1 to I-4):   *)
(* while trading is open every branch's claims equal the escrow, and after *)
(* a settlement or a void the escrow covers the dearest way the holders    *)
(* can still take their claims out.                                        *)
Solvent ==
    /\ state \in {"Open", "Resolved"} => \A b \in Branches : SupplyMatches(b)
    /\ state = "ScalarSettled" => escrowed >= SettledLiability
    /\ state = "Voided" => escrowed >= VoidLiability

(* The inductive form of Solvent: the same debts before any division, and  *)
(* the supply counters that the redemptions' checked subtractions need.    *)
CountersCover(b) ==
    /\ total[<<b, "BranchUsdc">>] = usdc[b]
    /\ total[<<b, "Long">>] <= scalarSets[b]
    /\ total[<<b, "Short">>] <= scalarSets[b]
    /\ \A g \in Gates : /\ total[<<b, Yes(g)>>] <= gateSets[b][g]
                        /\ total[<<b, No(g)>>] <= gateSets[b][g]

BranchWeight(b) ==
    2 * total[<<b, "BranchUsdc">>] + total[<<b, "Long">>] + total[<<b, "Short">>]
      + total[<<b, "SurvivalYes">>] + total[<<b, "SurvivalNo">>]
      + total[<<b, "SecurityYes">>] + total[<<b, "SecurityNo">>]

ExactDebt ==
    score * total[<<winner, "Long">>] + (Scale - score) * total[<<winner, "Short">>]
      + Scale * (total[<<winner, "BranchUsdc">>]
                   + GateLiability("Survival") + GateLiability("Security"))

Backed ==
    /\ state \in {"Open", "Resolved"} => \A b \in Branches : SupplyMatches(b)
    /\ state = "ScalarSettled" => /\ Scale * escrowed >= ExactDebt
                                  /\ \A b \in Branches : CountersCover(b)
    /\ state = "Voided" => /\ 4 * escrowed >= BranchWeight("Accept") + BranchWeight("Reject")
                           /\ \A b \in Branches : CountersCover(b)

(* try_state: position_totals is the sum of the records it summarises,     *)
(* whatever moved between holders, and no holder outside the protocol is   *)
(* over the position cap.                                                  *)
BooksAgree ==
    /\ \A id \in Ids : total[id] = SumFunction(balance[id])
    /\ \A who \in Accounts \ Protocol : Cardinality(Held(who)) <= MaxPositions

(* No run on the vault and no dead end: at any moment every holder can     *)
(* take out all of what it holds with one call per claim or per set.  No   *)
(* checked subtraction, no position cap and no fee can refuse it, whatever *)
(* the others redeemed before and whichever order they chose.              *)
SetHeld(who, b, yes, no) == Smaller(balance[<<b, yes>>][who], balance[<<b, no>>][who])

MergesPossible(who) ==
    /\ ENABLED Merge(who, Smaller(balance[<<"Accept", "BranchUsdc">>][who],
                                  balance[<<"Reject", "BranchUsdc">>][who]))
    /\ \A b \in Branches :
         /\ ENABLED MergeScalar(b, who, SetHeld(who, b, "Long", "Short"))
         /\ \A g \in LiveGates : ENABLED MergeGate(b, g, who, SetHeld(who, b, Yes(g), No(g)))

RedemptionsPossible(who) ==
    \A rate \in Rates, m \in MinSplits :
      /\ ENABLED Redeem(who, balance[<<winner, "BranchUsdc">>][who])
      /\ \A side \in {"Long", "Short"} :
           ENABLED RedeemScalar(rate, m, side, who, balance[<<winner, side>>][who])
      /\ ENABLED RedeemScalarPair(rate, m, who, SetHeld(who, winner, "Long", "Short"))
      /\ \A g \in LiveGates : outcome[g] # "None" =>
           ENABLED RedeemGate(rate, m, g, who, balance[<<winner, WinningSide(g)>>][who])

ExitsOpen ==
    \A who \in Accounts :
      /\ Mergeable => MergesPossible(who)
      /\ state = "ScalarSettled" => RedemptionsPossible(who)
      /\ state = "Voided" =>
           \A id \in Ids : ENABLED RedeemVoid(id[1], id[2], who, balance[id][who])

=============================================================================
