--------------------------- MODULE LedgerCustody ---------------------------
(***************************************************************************)
(* The money of pallets/conditional-ledger: the USDC of the sovereign      *)
(* account against everything it answers for.  The core decides what a     *)
(* call does to one vault; the pallet loads the vault, runs the core,      *)
(* writes the vault back, moves the collateral and the position deposits,  *)
(* and keeps two mirrors it never recomputes: TotalEscrowed and            *)
(* DepositsHeld.                                                           *)
(*                                                                         *)
(* A vault is abstracted to its escrow and to how many position records    *)
(* each holder has in it; what one core call may do to those is left as    *)
(* open as the core's interface leaves it (ConditionalLedger and           *)
(* BaselineVault say what the core really does).  A vault of this module   *)
(* is a proposal vault or a Baseline vault: the pallet runs the same code  *)
(* on both.                                                                *)
(***************************************************************************)
EXTENDS Integers, FiniteSets, Functions

CONSTANTS
    Accounts,      \* the holders of positions
    Protocol,      \* ProtocolAccounts: no fee and no deposit
    Vaults,        \* the vault ids
    PositionDeposit, \* ledger.pos_dep, whose bounds are one value
    MinBalance,    \* the collateral's minimum balance
    ArchiveDelay,  \* ledger.archive
    ReapBatch,     \* records one sweep_dust call drains at most
    Amounts,       \* the amounts of collateral calls move
    MaxEscrow,     \* bound: collateral ever escrowed at one time
    MaxAccrued,    \* bound: fees ever waiting for a sweep
    MaxRows,       \* bound: position records ever stored at one time
    MaxNow         \* bound: blocks

ASSUME CustodyAccounts   == /\ IsFiniteSet(Accounts) /\ Protocol \subseteq Accounts
                            /\ IsFiniteSet(Vaults)
ASSUME CustodyParameters == /\ MinBalance \in Nat
                            /\ ArchiveDelay \in Nat
                            /\ ReapBatch \in Nat \ {0}
                            /\ PositionDeposit \in Nat
                            /\ Amounts \subseteq Nat
                            /\ MaxEscrow \in Nat /\ MaxAccrued \in Nat
                            /\ MaxRows \in Nat /\ MaxNow \in Nat

VARIABLES
    now,            \* the block number
    phase,          \* Vaults: absent, running, or with a VaultTerminalAt stamp
    terminalAt,     \* VaultTerminalAt
    booksSwept,     \* what MarketSweepStatus answers
    escrow,         \* VaultInfo.escrowed
    rows,           \* the number of Positions records of each holder
    totalEscrowed,  \* TotalEscrowed
    depositsHeld,   \* DepositsHeld
    accrued,        \* RedemptionFeesAccrued
    custody,        \* the USDC balance of the sovereign account
    frozen,         \* what ensure_not_frozen refuses
    paused          \* what ensure_splits_open refuses

lifecycle == <<phase, terminalAt, booksSwept>>
mirrors   == <<totalEscrowed, depositsHeld>>
gates     == <<frozen, paused>>
vars      == <<now, phase, terminalAt, booksSwept, escrow, rows, totalEscrowed,
               depositsHeld, accrued, custody, frozen, paused>>

TypeOK ==
    /\ now \in Nat
    /\ phase \in [Vaults -> {"Absent", "Running", "Terminal"}]
    /\ terminalAt \in [Vaults -> Nat]
    /\ booksSwept \in [Vaults -> BOOLEAN]
    /\ escrow \in [Vaults -> Nat]
    /\ rows \in [Vaults -> [Accounts -> Nat]]
    /\ totalEscrowed \in Nat
    /\ depositsHeld \in Nat
    /\ accrued \in Nat
    /\ custody \in Nat
    /\ frozen \in BOOLEAN
    /\ paused \in BOOLEAN

(* Genesis endows the sovereign with exactly the minimum balance (R-4).    *)
Init ==
    /\ now = 0
    /\ phase = [v \in Vaults |-> "Absent"]
    /\ terminalAt = [v \in Vaults |-> 0]
    /\ booksSwept = [v \in Vaults |-> FALSE]
    /\ escrow = [v \in Vaults |-> 0]
    /\ rows = [v \in Vaults |-> [who \in Accounts |-> 0]]
    /\ totalEscrowed = 0
    /\ depositsHeld = 0
    /\ accrued = 0
    /\ custody = MinBalance
    /\ frozen = FALSE
    /\ paused = FALSE

-----------------------------------------------------------------------------
(* The adapter around the core.                                            *)

RowsOf(v)      == SumFunction(rows[v])
Stored         == SumFunction([v \in Vaults |-> RowsOf(v)])
Pledge(who, n) == IF who \in Protocol THEN 0 ELSE PositionDeposit * n

(* A transfer out of the sovereign under Preservation::Preserve.           *)
Preserved(out) == out > 0 => custody - out >= MinBalance

(* A faulty Run, for mutation: the holder is paid the gross.               *)
GrossPaidRun(v, who, inflow, gross, fee, gained) ==
    /\ escrow[v] >= gross /\ totalEscrowed >= gross /\ fee <= gross
    /\ rows[v][who] + gained >= 0
    /\ depositsHeld + Pledge(who, gained) >= 0
    /\ Preserved(gross - Pledge(who, gained) - inflow)
    /\ escrow' = [escrow EXCEPT ![v] = @ + inflow - gross]
    /\ totalEscrowed' = totalEscrowed + inflow - gross
    /\ accrued' = accrued + fee
    /\ rows' = [rows EXCEPT ![v][who] = @ + gained]
    /\ depositsHeld' = depositsHeld + Pledge(who, gained)
    /\ custody' = custody + inflow - gross + Pledge(who, gained)
    /\ UNCHANGED <<now, lifecycle, gates>>

(* run_proposal_paid, settle_collateral and settle_deposits for a call     *)
(* that concerns one holder: escrow moves by the gross, the holder pays in *)
(* or is paid the net, and the deposits of the records it gained or lost   *)
(* move at PositionDeposit.                                                  *)
Run(v, who, inflow, gross, fee, gained) ==
    /\ escrow[v] >= gross /\ totalEscrowed >= gross /\ fee <= gross
    /\ rows[v][who] + gained >= 0
    /\ depositsHeld + Pledge(who, gained) >= 0
    /\ Preserved(gross - fee - Pledge(who, gained) - inflow)
    /\ escrow' = [escrow EXCEPT ![v] = @ + inflow - gross]
    /\ totalEscrowed' = totalEscrowed + inflow - gross
    /\ accrued' = accrued + fee
    /\ rows' = [rows EXCEPT ![v][who] = @ + gained]
    /\ depositsHeld' = depositsHeld + Pledge(who, gained)
    /\ custody' = custody + inflow - (gross - fee) + Pledge(who, gained)
    /\ UNCHANGED <<now, lifecycle, gates>>

-----------------------------------------------------------------------------
(* The calls on positions.  Every Signed call asks ensure_not_frozen; the  *)
(* MarketAuthority calls do not (the market pallet asks on their behalf).  *)

Origins  == {"Signed", "MarketAuthority"}
Admitted(origin) == origin = "Signed" => ~frozen

(* split and split_baseline: up to two records open.                       *)
Split(origin, v, who, a, gained) ==
    /\ Admitted(origin) /\ ~paused
    /\ phase[v] = "Running"
    /\ totalEscrowed + a <= MaxEscrow
    /\ Stored + gained <= MaxRows
    /\ Run(v, who, a, 0, 0, gained)

(* split_scalar and split_gate: one record may close and two open, and no  *)
(* collateral moves.                                                       *)
SplitSet(origin, v, who, gained) ==
    /\ Admitted(origin) /\ ~paused
    /\ phase[v] = "Running"
    /\ rows[v][who] >= 1
    /\ Stored + gained <= MaxRows
    /\ Run(v, who, 0, 0, 0, gained)

(* merge_scalar and merge_gate: two records may close and one open.        *)
MergeSet(origin, v, who, gained) ==
    /\ Admitted(origin)
    /\ phase[v] # "Absent"
    /\ rows[v][who] >= 1
    /\ Stored + gained <= MaxRows
    /\ Run(v, who, 0, 0, 0, gained)

(* merge, merge_baseline: par is paid out, never charged.                  *)
Merge(origin, v, who, a, lost) ==
    /\ Admitted(origin)
    /\ phase[v] # "Absent"
    /\ rows[v][who] >= 1
    /\ Run(v, who, 0, a, 0, -lost)

(* The seven redemptions of a terminal vault.  A protocol holder is never  *)
(* charged, and MarketAuthority redeems for protocol holders only.         *)
Redeem(origin, v, who, gross, fee, lost) ==
    /\ Admitted(origin)
    /\ origin = "MarketAuthority" => who \in Protocol
    /\ phase[v] = "Terminal"
    /\ rows[v][who] >= 1
    /\ who \in Protocol => fee = 0
    /\ accrued + fee <= MaxAccrued
    /\ Run(v, who, 0, gross, fee, -lost)

(* A faulty Transfer, for mutation: a transfer to oneself settles the same *)
(* account twice.                                                          *)
UndedupedTransfer(origin, v, from, to, lost, gained) ==
    /\ Admitted(origin)
    /\ phase[v] # "Absent"
    /\ rows[v][from] >= lost
    /\ Stored + gained - lost <= MaxRows
    /\ rows' = IF from = to THEN rows
               ELSE [rows EXCEPT ![v][from] = @ - lost, ![v][to] = @ + gained]
    /\ depositsHeld >= Pledge(from, lost)
    /\ Preserved(Pledge(from, lost))
    /\ depositsHeld' = depositsHeld - Pledge(from, lost) + Pledge(to, gained)
    /\ custody' = custody - Pledge(from, lost) + Pledge(to, gained)
    /\ UNCHANGED <<now, lifecycle, escrow, totalEscrowed, accrued, gates>>

(* transfer: the sender may lose a record and the recipient gain one; the  *)
(* deposits are settled in that order.  A transfer to oneself settles one  *)
(* account, whose records do not change.                                   *)
Transfer(origin, v, from, to, lost, gained) ==
    /\ Admitted(origin)
    /\ phase[v] # "Absent"
    /\ rows[v][from] >= 1
    /\ from = to => lost = 0 /\ gained = 0
    /\ rows[v][from] >= lost
    /\ Stored + gained - lost <= MaxRows
    /\ rows' = [rows EXCEPT ![v] = [who \in Accounts |-> rows[v][who]
                                      - (IF who = from THEN lost ELSE 0)
                                      + (IF who = to THEN gained ELSE 0)]]
    /\ depositsHeld >= Pledge(from, lost)
    /\ Preserved(Pledge(from, lost))
    /\ depositsHeld' = depositsHeld - Pledge(from, lost) + Pledge(to, gained)
    /\ custody' = custody - Pledge(from, lost) + Pledge(to, gained)
    /\ UNCHANGED <<now, lifecycle, escrow, totalEscrowed, accrued, gates>>

-----------------------------------------------------------------------------
(* Lifecycle: creation, the terminal stamp, and the reaping of a vault.    *)

CreateVault(v) ==
    /\ phase[v] = "Absent"
    /\ phase' = [phase EXCEPT ![v] = "Running"]
    /\ booksSwept' = [booksSwept EXCEPT ![v] = FALSE]
    /\ UNCHANGED <<now, terminalAt, escrow, rows, mirrors, accrued, custody, gates>>

(* void, settle_scalar and settle_baseline stamp the block.                *)
Terminate(v) ==
    /\ phase[v] = "Running"
    /\ phase' = [phase EXCEPT ![v] = "Terminal"]
    /\ terminalAt' = [terminalAt EXCEPT ![v] = now]
    /\ UNCHANGED <<now, booksSwept, escrow, rows, mirrors, accrued, custody, gates>>

(* The market pallet has swept the last book of a terminal vault.          *)
BooksSwept(v) ==
    /\ phase[v] = "Terminal"
    /\ booksSwept' = [booksSwept EXCEPT ![v] = TRUE]
    /\ UNCHANGED <<now, phase, terminalAt, escrow, rows, mirrors, accrued, custody, gates>>

(* discard_protocol_inventory, from market.reap: the records of the        *)
(* protocol accounts of one book go, whichever accounts those are.         *)
DiscardProtocolInventory(v, gone) ==
    /\ booksSwept[v]
    /\ rows' = [rows EXCEPT ![v] = [who \in Accounts |->
                                      IF who \in gone THEN 0 ELSE rows[v][who]]]
    /\ UNCHANGED <<now, lifecycle, escrow, mirrors, accrued, custody, gates>>

ReapDue(v) ==
    /\ phase[v] = "Terminal"
    /\ now >= terminalAt[v] + ArchiveDelay
    /\ booksSwept[v]

(* The ReapBatch records a call may meet first, in storage order.          *)
Drainable(v) == {drained \in [Accounts -> 0 .. ReapBatch] :
                   /\ \A who \in Accounts : drained[who] <= rows[v][who]
                   /\ SumFunction(drained) = IF RowsOf(v) <= ReapBatch THEN RowsOf(v)
                                                                     ELSE ReapBatch}

Refund(drained) == PositionDeposit * SumFunctionOnSet(drained, Accounts \ Protocol)

(* A faulty SweepDust, for mutation: a drained vault is not removed.       *)
KeptVaultSweep(v, drained) ==
    LET residue == IF SumFunction(drained) = RowsOf(v) THEN escrow[v] ELSE 0
    IN  /\ ReapDue(v)
        /\ Preserved(Refund(drained) + residue)
        /\ rows' = [rows EXCEPT ![v] = [who \in Accounts |-> rows[v][who] - drained[who]]]
        /\ depositsHeld' = depositsHeld - Refund(drained)
        /\ totalEscrowed' = totalEscrowed - residue
        /\ custody' = custody - Refund(drained) - residue
        /\ UNCHANGED <<now, lifecycle, escrow, accrued, gates>>

(* do_sweep_proposal and do_sweep_baseline: at most ReapBatch records are  *)
(* dropped, each refunded at PositionDeposit; when none is left, the rest of *)
(* the escrow goes to INSURANCE and the vault is removed.                  *)
SweepDust(v, drained) ==
    LET last    == SumFunction(drained) = RowsOf(v)
        residue == IF last THEN escrow[v] ELSE 0
    IN  /\ ReapDue(v)
        /\ Refund(drained) \in 0 .. depositsHeld /\ residue \in 0 .. totalEscrowed
        /\ Preserved(Refund(drained) + residue)
        /\ rows' = [rows EXCEPT ![v] = [who \in Accounts |-> rows[v][who] - drained[who]]]
        /\ depositsHeld' = depositsHeld - Refund(drained)
        /\ totalEscrowed' = totalEscrowed - residue
        /\ custody' = custody - Refund(drained) - residue
        /\ escrow' = [escrow EXCEPT ![v] = @ - residue]
        /\ phase' = [phase EXCEPT ![v] = IF last THEN "Absent" ELSE @]
        /\ UNCHANGED <<now, terminalAt, booksSwept, accrued, gates>>

-----------------------------------------------------------------------------
(* The fee sweep, the gates and the clock.                                 *)

(* A faulty SweepRedemptionFees, for mutation: the counter is not cleared. *)
UnclearedSweep ==
    /\ ~frozen
    /\ Preserved(accrued)
    /\ custody' = custody - accrued
    /\ UNCHANGED <<now, lifecycle, escrow, rows, mirrors, accrued, gates>>

SweepRedemptionFees ==
    /\ ~frozen
    /\ Preserved(accrued)
    /\ custody' = custody - accrued
    /\ accrued' = 0
    /\ UNCHANGED <<now, lifecycle, escrow, rows, mirrors, gates>>

(* set_frozen and set_split_paused by an emergency playbook, and the       *)
(* expiry of either.                                                       *)
Gate(f, p) ==
    /\ frozen' = f /\ paused' = p
    /\ UNCHANGED <<now, lifecycle, escrow, rows, mirrors, accrued, custody>>

NextBlock ==
    /\ now < MaxNow
    /\ now' = now + 1
    /\ UNCHANGED <<lifecycle, escrow, rows, mirrors, accrued, custody, gates>>

Call(origin, v, who) ==
    \/ \E gained \in -1 .. 2 : SplitSet(origin, v, who, gained)
    \/ \E gained \in -2 .. 1 : MergeSet(origin, v, who, gained)
    \/ \E a \in Amounts, n \in 0 .. 2 : Split(origin, v, who, a, n) \/ Merge(origin, v, who, a, n)
    \/ \E gross \in Amounts, lost \in 0 .. 2 :
         \E fee \in 0 .. gross : Redeem(origin, v, who, gross, fee, lost)
    \/ \E to \in Accounts, lost, gained \in 0 .. 1 : Transfer(origin, v, who, to, lost, gained)

Lifecycle(v) ==
    \/ CreateVault(v) \/ Terminate(v) \/ BooksSwept(v)
    \/ \E gone \in SUBSET Protocol : DiscardProtocolInventory(v, gone)
    \/ \E drained \in Drainable(v) : SweepDust(v, drained)

Next ==
    \/ \E v \in Vaults :
         \/ Lifecycle(v)
         \/ \E origin \in Origins, who \in Accounts : Call(origin, v, who)
    \/ SweepRedemptionFees
    \/ \E f, p \in BOOLEAN : Gate(f, p)
    \/ NextBlock

Spec == Init /\ [][Next]_vars

-----------------------------------------------------------------------------
(* Properties.                                                             *)

(* L-2 and L-7: whatever the calls, in whatever order, the sovereign holds *)
(* all of the escrow, all of the deposits, every fee not yet swept and its *)
(* own minimum balance.                                                    *)
Covered == custody >= totalEscrowed + depositsHeld + accrued + MinBalance

(* The maintained mirrors are what a full scan of the maps would find: the *)
(* escrow total, and the deposit unit times the records of the holders     *)
(* that pay one (L-6).  A reaped vault leaves nothing behind.              *)
Depositors == Accounts \ Protocol

DepositsMatchEntries ==
    depositsHeld = PositionDeposit * SumFunction([v \in Vaults |-> SumFunctionOnSet(rows[v], Depositors)])

MirrorsAgree ==
    /\ totalEscrowed = SumFunction(escrow)
    /\ DepositsMatchEntries
    /\ \A v \in Vaults : phase[v] = "Absent" => escrow[v] = 0 /\ RowsOf(v) = 0

(* No permissionless crank is ever refused once it is due: neither the     *)
(* sovereign's minimum balance nor a checked subtraction stands in the way *)
(* of the fee sweep or of the reaping of a vault, and a holder that gives  *)
(* up its records is refunded.                                             *)
CranksNeverRefused ==
    /\ ~frozen => ENABLED SweepRedemptionFees
    /\ \A v \in Vaults : ReapDue(v) => \A drained \in Drainable(v) : ENABLED SweepDust(v, drained)
    /\ \A v \in Vaults, who \in Accounts :
         phase[v] = "Terminal" /\ rows[v][who] > 0 /\ ~frozen =>
           ENABLED Redeem("Signed", v, who, escrow[v], 0, rows[v][who])

=============================================================================
