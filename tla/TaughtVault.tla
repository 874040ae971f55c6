---------------------------- MODULE TaughtVault ----------------------------
(***************************************************************************)
(* The proposal vault the explainer computes with, protocol/ledger.ts: one *)
(* record of supplies that the scenes, the quizzes and the playground move *)
(* by pure functions.  It knows no holders, no fees in its state and no    *)
(* position caps; a call it refuses returns an error and no vault.  It is  *)
(* the abstract specification that ConditionalLedger, the vault of the     *)
(* chain, is shown to implement.                                           *)
(*                                                                         *)
(* collateralIn and paidOut are left out: every function that changes one  *)
(* changes escrowed with it, so their sum never differs.                   *)
(***************************************************************************)
EXTENDS Integers

CONSTANTS
    Scale,         \* FIXED_SCALE
    MinSplit,      \* MIN_SPLIT_USDC
    MinTransfer,   \* MIN_TRANSFER_USDC
    Amounts        \* the amounts calls are made with

Branches == {"Accept", "Reject"}
Gates    == {"Survival", "Security"}

GateYes(g) == IF g = "Survival" THEN "SurvivalYes" ELSE "SecurityYes"
GateNo(g)  == IF g = "Survival" THEN "SurvivalNo" ELSE "SecurityNo"
PositionKinds == {"BranchUsdc", "Long", "Short",
                  "SurvivalYes", "SurvivalNo", "SecurityYes", "SecurityNo"}
ProposalPositions == Branches \X PositionKinds

VARIABLES
    state,         \* Vault.state.kind
    winner,        \* the branch a Resolved or ScalarSettled state carries
    s,             \* the score a ScalarSettled state carries, times Scale
    gateOutcomes,  \* Vault.gateOutcomes, "None" for null
    escrowed,      \* Vault.escrowed
    supply,        \* usdc and the four kinds of legs of both branches
    scalarSets,    \* BranchSupply.scalarSets of each branch
    gateSets,      \* BranchSupply.gateSets of each branch
    redeemed       \* Vault.terminalRedemptions > 0

terms == <<state, winner, s, gateOutcomes>>
sets  == <<scalarSets, gateSets>>
vars  == <<terms, escrowed, supply, sets, redeemed>>

CreateVault ==
    /\ state = "Open" /\ winner = "None" /\ s = 0
    /\ gateOutcomes = [g \in Gates |-> "None"]
    /\ escrowed = 0
    /\ supply = [id \in ProposalPositions |-> 0]
    /\ scalarSets = [b \in Branches |-> 0]
    /\ gateSets = [b \in Branches |-> [g \in Gates |-> 0]]
    /\ redeemed = FALSE

-----------------------------------------------------------------------------
(* Complete sets.                                                          *)

AdmitsPairOps == state \in {"Open", "Resolved", "Voided"}

Portion(id, ids, a) == IF id \in ids THEN a ELSE 0

(* Legs are burnt where there are enough of them, and others minted.       *)
Book(burns, mints, a) ==
    /\ \A id \in burns : supply[id] >= a
    /\ supply' = [id \in ProposalPositions |->
                    supply[id] - Portion(id, burns, a) + Portion(id, mints, a)]

Split(a) ==
    /\ state = "Open"
    /\ a >= MinSplit
    /\ escrowed' = escrowed + a
    /\ Book({}, Branches \X {"BranchUsdc"}, a)
    /\ UNCHANGED <<terms, sets, redeemed>>

Merge(a) ==
    /\ AdmitsPairOps
    /\ escrowed' = escrowed - a
    /\ Book(Branches \X {"BranchUsdc"}, {}, a)
    /\ UNCHANGED <<terms, sets, redeemed>>

SplitScalar(b, a) ==
    /\ state = "Open"
    /\ a >= MinSplit
    /\ Book({<<b, "BranchUsdc">>}, {b} \X {"Long", "Short"}, a)
    /\ scalarSets' = [scalarSets EXCEPT ![b] = @ + a]
    /\ UNCHANGED <<terms, escrowed, gateSets, redeemed>>

MergeScalar(b, a) ==
    /\ AdmitsPairOps
    /\ scalarSets[b] >= a
    /\ Book({b} \X {"Long", "Short"}, {<<b, "BranchUsdc">>}, a)
    /\ scalarSets' = [scalarSets EXCEPT ![b] = @ - a]
    /\ UNCHANGED <<terms, escrowed, gateSets, redeemed>>

SplitGate(b, g, a) ==
    /\ state = "Open"
    /\ a >= MinSplit
    /\ Book({<<b, "BranchUsdc">>}, {b} \X {GateYes(g), GateNo(g)}, a)
    /\ gateSets' = [gateSets EXCEPT ![b][g] = @ + a]
    /\ UNCHANGED <<terms, escrowed, scalarSets, redeemed>>

MergeGate(b, g, a) ==
    /\ AdmitsPairOps
    /\ gateSets[b][g] >= a
    /\ Book({b} \X {GateYes(g), GateNo(g)}, {<<b, "BranchUsdc">>}, a)
    /\ gateSets' = [gateSets EXCEPT ![b][g] = @ - a]
    /\ UNCHANGED <<terms, escrowed, scalarSets, redeemed>>

(* A transfer is judged and leaves the vault as it was.                    *)
Transfer(id, a) ==
    /\ AdmitsPairOps
    /\ a >= MinTransfer
    /\ supply[id] >= a
    /\ UNCHANGED vars

-----------------------------------------------------------------------------
(* The transitions of the authorities.                                     *)

Resolve(w) ==
    /\ state = "Open"
    /\ state' = "Resolved" /\ winner' = w
    /\ UNCHANGED <<s, gateOutcomes, escrowed, supply, sets, redeemed>>

VoidVault ==
    /\ state \in {"Open", "Resolved"}
    /\ state' = "Voided" /\ winner' = "None"
    /\ UNCHANGED <<s, gateOutcomes, escrowed, supply, sets, redeemed>>

SettleScalar(score) ==
    /\ state = "Resolved"
    /\ score \in 0 .. Scale
    /\ state' = "ScalarSettled" /\ s' = score
    /\ UNCHANGED <<winner, gateOutcomes, escrowed, supply, sets, redeemed>>

SettleGate(g, outcome) ==
    /\ state \in {"Resolved", "ScalarSettled"}
    /\ gateOutcomes[g] = "None"
    /\ gateOutcomes' = [gateOutcomes EXCEPT ![g] = outcome]
    /\ UNCHANGED <<state, winner, s, escrowed, supply, sets, redeemed>>

-----------------------------------------------------------------------------
(* Redemption.  Payout takes the gross: the fee stays with the protocol.   *)

FloorScaled(a, raw) == (a * raw) \div Scale

ScalarPayout(side, a) ==
    IF side = "Long" THEN FloorScaled(a, s) ELSE FloorScaled(a, Scale - s)

RedeemVoidPayout(kind, a) == IF kind = "BranchUsdc" THEN a \div 2 ELSE a \div 4

Payout(gross) == escrowed' = escrowed - gross /\ redeemed' = TRUE

Redeem(a) ==
    /\ state = "ScalarSettled"
    /\ Book({<<winner, "BranchUsdc">>}, {}, a)
    /\ Payout(a)
    /\ UNCHANGED <<terms, sets>>

RedeemScalar(side, a) ==
    /\ state = "ScalarSettled"
    /\ Book({<<winner, side>>}, {}, a)
    /\ Payout(ScalarPayout(side, a))
    /\ UNCHANGED <<terms, sets>>

RedeemScalarPair(a) ==
    /\ state = "ScalarSettled"
    /\ scalarSets[winner] >= a
    /\ Book({winner} \X {"Long", "Short"}, {}, a)
    /\ scalarSets' = [scalarSets EXCEPT ![winner] = @ - a]
    /\ Payout(a)
    /\ UNCHANGED <<terms, gateSets>>

(* The side that did not win is burnt for nothing.                         *)
RedeemGate(g, yes, a) ==
    /\ state = "ScalarSettled"
    /\ gateOutcomes[g] # "None"
    /\ Book({<<winner, IF yes THEN GateYes(g) ELSE GateNo(g)>>}, {}, a)
    /\ Payout(IF yes <=> gateOutcomes[g] = "True" THEN a ELSE 0)
    /\ UNCHANGED <<terms, sets>>

RedeemVoid(id, a) ==
    /\ state = "Voided"
    /\ Book({id}, {}, a)
    /\ Payout(RedeemVoidPayout(id[2], a))
    /\ UNCHANGED <<terms, sets>>

Next ==
    \/ VoidVault
    \/ \E w \in Branches : Resolve(w)
    \/ \E score \in 0 .. Scale : SettleScalar(score)
    \/ \E g \in Gates, outcome \in {"True", "False"} : SettleGate(g, outcome)
    \/ \E a \in Amounts :
         \/ Split(a) \/ Merge(a) \/ Redeem(a) \/ RedeemScalarPair(a)
         \/ \E b \in Branches : SplitScalar(b, a) \/ MergeScalar(b, a)
         \/ \E b \in Branches, g \in Gates : SplitGate(b, g, a) \/ MergeGate(b, g, a)
         \/ \E id \in ProposalPositions : Transfer(id, a) \/ RedeemVoid(id, a)
         \/ \E side \in {"Long", "Short"} : RedeemScalar(side, a)
         \/ \E g \in Gates, yes \in BOOLEAN : RedeemGate(g, yes, a)

Spec == CreateVault /\ [][Next]_vars

-----------------------------------------------------------------------------
(* Conservation, as checkConservation and maxClaimValue state it.          *)

Lesser(x, y)  == IF x <= y THEN x ELSE y
Greater(x, y) == IF x >= y THEN x ELSE y

BranchIdentity(b) ==
    supply[<<b, "BranchUsdc">>] + scalarSets[b] + gateSets[b]["Survival"] + gateSets[b]["Security"]

(* Whether the legs of a branch are the complete sets that were minted.    *)
LegsMatchSets(b) ==
    /\ supply[<<b, "Long">>] = scalarSets[b]
    /\ supply[<<b, "Short">>] = scalarSets[b]
    /\ \A g \in Gates : /\ supply[<<b, GateYes(g)>>] = gateSets[b][g]
                        /\ supply[<<b, GateNo(g)>>] = gateSets[b][g]

PairsOf(b, yes, no) == Lesser(supply[<<b, yes>>], supply[<<b, no>>])
LeftOf(b, yes, no)  == (supply[<<b, yes>>] - PairsOf(b, yes, no)) \div 4
                         + (supply[<<b, no>>] - PairsOf(b, yes, no)) \div 4

EffectiveOf(b) ==
    supply[<<b, "BranchUsdc">>] + PairsOf(b, "Long", "Short")
      + PairsOf(b, "SurvivalYes", "SurvivalNo") + PairsOf(b, "SecurityYes", "SecurityNo")
LeftoversOf(b) ==
    LeftOf(b, "Long", "Short")
      + LeftOf(b, "SurvivalYes", "SurvivalNo") + LeftOf(b, "SecurityYes", "SecurityNo")

VoidedClaims ==
    LET cross == Lesser(EffectiveOf("Accept"), EffectiveOf("Reject"))
    IN  cross + (EffectiveOf("Accept") - cross) \div 2 + (EffectiveOf("Reject") - cross) \div 2
          + LeftoversOf("Accept") + LeftoversOf("Reject")

GateClaims(g) ==
    CASE gateOutcomes[g] = "True"  -> supply[<<winner, GateYes(g)>>]
      [] gateOutcomes[g] = "False" -> supply[<<winner, GateNo(g)>>]
      [] OTHER -> Greater(supply[<<winner, GateYes(g)>>], supply[<<winner, GateNo(g)>>])

SettledClaims ==
    LET long  == supply[<<winner, "Long">>]
        short == supply[<<winner, "Short">>]
        pairs == Lesser(long, short)
    IN  supply[<<winner, "BranchUsdc">>] + pairs
          + ScalarPayout("Long", long - pairs) + ScalarPayout("Short", short - pairs)
          + GateClaims("Survival") + GateClaims("Security")

MaxClaimValue ==
    CASE state = "Open"     -> Greater(BranchIdentity("Accept"), BranchIdentity("Reject"))
      [] state = "Resolved" -> BranchIdentity(winner)
      [] state = "Voided"   -> VoidedClaims
      [] OTHER              -> SettledClaims

(* checkConservation: before the first redemption every branch's claims    *)
(* add up to the escrow and its legs are its sets; at any time the escrow  *)
(* covers the most that any set of holders can still take out.             *)
CheckConservation ==
    /\ escrowed >= 0
    /\ ~redeemed => \A b \in Branches : BranchIdentity(b) = escrowed /\ LegsMatchSets(b)
    /\ MaxClaimValue <= escrowed

=============================================================================
