------------------------ MODULE LedgerCustodyProofs ------------------------
(***************************************************************************)
(* The sovereign account of pallets/conditional-ledger covers what it owes *)
(* for every set of accounts and vaults, every deposit and every minimum   *)
(* balance, whatever the calls and their order, and the totals the pallet  *)
(* keeps beside its maps are the totals of the maps.                       *)
(***************************************************************************)
EXTENDS LedgerCustody, Sums

(* Each call moves the custody and one of the four claims on it by the     *)
(* same amount, so the cover alone is inductive once the types are known.  *)
CustodyInv == TypeOK /\ Covered

-----------------------------------------------------------------------------

LEMMA PledgeInt ==
    ASSUME NEW who \in Accounts, NEW n \in Int
    PROVE  Pledge(who, n) \in Int
BY CustodyParameters DEF Pledge

(* What settling one call of one holder does to the books: the escrow, the *)
(* fees and the deposits move by what the custody moves by.                *)
LEMMA RunKeeps ==
    ASSUME CustodyInv, NEW v \in Vaults, NEW who \in Accounts, NEW inflow \in Nat,
           NEW gross \in Nat, NEW fee \in Nat, NEW gained \in Int,
           Run(v, who, inflow, gross, fee, gained)
    PROVE  CustodyInv'
<1> DEFINE pledge == Pledge(who, gained)
<1>1. pledge \in Int
  BY PledgeInt
<1>2. /\ escrow[v] >= gross /\ totalEscrowed >= gross
      /\ depositsHeld + pledge >= 0
      /\ escrow' = [escrow EXCEPT ![v] = @ + inflow - gross]
      /\ totalEscrowed' = totalEscrowed + inflow - gross
      /\ accrued' = accrued + fee
      /\ depositsHeld' = depositsHeld + pledge
      /\ custody' = custody + inflow - (gross - fee) + pledge
  BY DEF Run
<1>3. /\ rows[v][who] + gained >= 0
      /\ rows' = [rows EXCEPT ![v][who] = @ + gained]
      /\ UNCHANGED <<now, lifecycle, gates>>
  BY DEF Run
<1>4. /\ escrow \in [Vaults -> Nat] /\ rows \in [Vaults -> [Accounts -> Nat]]
      /\ totalEscrowed \in Nat /\ depositsHeld \in Nat /\ accrued \in Nat /\ custody \in Nat
  BY DEF CustodyInv, TypeOK
<1> HIDE DEF pledge
<1>5. Covered'
  BY <1>1, <1>2, <1>4, CustodyParameters DEF CustodyInv, Covered
<1>6. escrow' \in [Vaults -> Nat]
  <2>1. escrow[v] + inflow - gross \in Nat
    BY <1>2, <1>4
  <2> QED  BY <1>2, <1>4, <2>1
<1>7. rows' \in [Vaults -> [Accounts -> Nat]]
  <2>1. rows[v][who] + gained \in Nat
    BY <1>3, <1>4
  <2> QED  BY <1>3, <1>4, <2>1
<1>8. totalEscrowed' \in Nat /\ depositsHeld' \in Nat /\ accrued' \in Nat
  BY <1>1, <1>2, <1>4
<1>9. custody' \in Nat
  BY <1>1, <1>2, <1>4, <1>5, <1>8, CustodyParameters DEF Covered
<1>10. TypeOK'
  BY <1>3, <1>6, <1>7, <1>8, <1>9 DEF CustodyInv, TypeOK, lifecycle, gates
<1> QED  BY <1>5, <1>10 DEF CustodyInv

(* A transfer moves deposits only.                                         *)
LEMMA TransferKeeps ==
    ASSUME CustodyInv, NEW origin \in Origins, NEW v \in Vaults,
           NEW from \in Accounts, NEW to \in Accounts, NEW lost \in 0 .. 1, NEW gained \in 0 .. 1,
           Transfer(origin, v, from, to, lost, gained)
    PROVE  CustodyInv'
<1> DEFINE out  == Pledge(from, lost)
           into == Pledge(to, gained)
           row(who) == rows[v][who] - (IF who = from THEN lost ELSE 0)
                                    + (IF who = to THEN gained ELSE 0)
<1>1. out \in Nat /\ into \in Nat
  BY CustodyParameters DEF Pledge
<1>2. /\ rows[v][from] >= lost /\ depositsHeld >= out
      /\ depositsHeld' = depositsHeld - out + into
      /\ custody' = custody - out + into
      /\ UNCHANGED <<now, lifecycle, escrow, totalEscrowed, accrued, gates>>
  BY DEF Transfer
<1>3. rows' = [rows EXCEPT ![v] = [who \in Accounts |-> row(who)]]
  BY DEF Transfer
<1>4. /\ rows \in [Vaults -> [Accounts -> Nat]]
      /\ totalEscrowed \in Nat /\ depositsHeld \in Nat /\ accrued \in Nat /\ custody \in Nat
  BY DEF CustodyInv, TypeOK
<1>5. \A who \in Accounts : row(who) \in Nat
  BY <1>2, <1>4
<1>6. rows' \in [Vaults -> [Accounts -> Nat]]
  <2> HIDE DEF row
  <2> QED  BY <1>3, <1>4, <1>5
<1> HIDE DEF out, into
<1>7. Covered'
  BY <1>1, <1>2, <1>4, CustodyParameters DEF CustodyInv, Covered
<1>8. depositsHeld' \in Nat
  BY <1>1, <1>2, <1>4
<1>9. custody' \in Nat
  BY <1>1, <1>2, <1>4, <1>7, <1>8, CustodyParameters DEF Covered
<1>10. TypeOK'
  BY <1>2, <1>6, <1>8, <1>9 DEF CustodyInv, TypeOK, lifecycle, gates
<1> QED  BY <1>7, <1>10 DEF CustodyInv

(* A sweep pays the refunds out of the deposits and the residue out of the *)
(* escrow of the vault.                                                    *)
LEMMA SweepDustKeeps ==
    ASSUME CustodyInv, NEW v \in Vaults, NEW drained \in Drainable(v), SweepDust(v, drained)
    PROVE  CustodyInv'
<1> DEFINE last    == SumFunction(drained) = RowsOf(v)
           residue == IF last THEN escrow[v] ELSE 0
           refund  == Refund(drained)
<1>1. /\ refund \in 0 .. depositsHeld /\ residue \in 0 .. totalEscrowed
      /\ depositsHeld' = depositsHeld - refund
      /\ totalEscrowed' = totalEscrowed - residue
      /\ custody' = custody - refund - residue
      /\ escrow' = [escrow EXCEPT ![v] = @ - residue]
      /\ phase' = [phase EXCEPT ![v] = IF last THEN "Absent" ELSE @]
      /\ rows' = [rows EXCEPT ![v] = [who \in Accounts |-> rows[v][who] - drained[who]]]
      /\ UNCHANGED <<now, terminalAt, booksSwept, accrued, gates>>
  BY DEF SweepDust
<1>2. /\ escrow \in [Vaults -> Nat] /\ rows \in [Vaults -> [Accounts -> Nat]]
      /\ phase \in [Vaults -> {"Absent", "Running", "Terminal"}]
      /\ totalEscrowed \in Nat /\ depositsHeld \in Nat /\ accrued \in Nat /\ custody \in Nat
  BY DEF CustodyInv, TypeOK
<1>3. escrow[v] - residue \in Nat
  BY <1>2
<1>4. \A who \in Accounts : rows[v][who] - drained[who] \in Nat
  <2>1. /\ drained \in [Accounts -> 0 .. ReapBatch]
        /\ \A who \in Accounts : drained[who] <= rows[v][who]
    BY DEF Drainable
  <2> QED  BY <1>2, <2>1, CustodyParameters
<1>5. phase' \in [Vaults -> {"Absent", "Running", "Terminal"}]
  BY <1>1, <1>2
<1> HIDE DEF residue, refund, last
<1>6. rows' \in [Vaults -> [Accounts -> Nat]] /\ escrow' \in [Vaults -> Nat]
  BY <1>1, <1>2, <1>3, <1>4
<1>7. /\ Covered'
      /\ totalEscrowed' \in Nat /\ depositsHeld' \in Nat
  BY <1>1, <1>2, CustodyParameters DEF CustodyInv, Covered
<1>8. custody' \in Nat
  BY <1>1, <1>2, <1>7, CustodyParameters DEF Covered
<1>9. TypeOK'
  BY <1>1, <1>5, <1>6, <1>7, <1>8 DEF CustodyInv, TypeOK, gates
<1> QED  BY <1>7, <1>9 DEF CustodyInv

(* A call on positions, of either origin.                                  *)
LEMMA CallKeeps ==
    ASSUME CustodyInv, NEW origin \in Origins, NEW v \in Vaults, NEW who \in Accounts,
           Call(origin, v, who)
    PROVE  CustodyInv'
<1>1. ASSUME NEW gained \in -1 .. 2, SplitSet(origin, v, who, gained)
      PROVE  CustodyInv'
  <2>1. Run(v, who, 0, 0, 0, gained)
    BY <1>1 DEF SplitSet
  <2> QED  BY <2>1, RunKeeps
<1>2. ASSUME NEW gained \in -2 .. 1, MergeSet(origin, v, who, gained)
      PROVE  CustodyInv'
  <2>1. Run(v, who, 0, 0, 0, gained)
    BY <1>2 DEF MergeSet
  <2> QED  BY <2>1, RunKeeps
<1>3. ASSUME NEW a \in Amounts, NEW n \in 0 .. 2, Split(origin, v, who, a, n)
      PROVE  CustodyInv'
  <2>1. Run(v, who, a, 0, 0, n)
    BY <1>3 DEF Split
  <2> QED  BY <2>1, RunKeeps, CustodyParameters
<1>4. ASSUME NEW a \in Amounts, NEW n \in 0 .. 2, Merge(origin, v, who, a, n)
      PROVE  CustodyInv'
  <2>1. Run(v, who, 0, a, 0, -n)
    BY <1>4 DEF Merge
  <2> QED  BY <2>1, RunKeeps, CustodyParameters
<1>5. ASSUME NEW gross \in Amounts, NEW lost \in 0 .. 2, NEW fee \in 0 .. gross,
             Redeem(origin, v, who, gross, fee, lost)
      PROVE  CustodyInv'
  <2>1. Run(v, who, 0, gross, fee, -lost)
    BY <1>5 DEF Redeem
  <2> QED  BY <2>1, RunKeeps, CustodyParameters
<1>6. ASSUME NEW to \in Accounts, NEW lost \in 0 .. 1, NEW gained \in 0 .. 1,
             Transfer(origin, v, who, to, lost, gained)
      PROVE  CustodyInv'
  BY <1>6, TransferKeeps
<1> QED  BY <1>1, <1>2, <1>3, <1>4, <1>5, <1>6 DEF Call

(* The lifecycle of a vault before its sweep moves no money.               *)
LEMMA LifecycleKeeps ==
    ASSUME CustodyInv, NEW v \in Vaults, Lifecycle(v)
    PROVE  CustodyInv'
<1>1. CASE CreateVault(v)
  BY <1>1 DEF CreateVault, CustodyInv, TypeOK, Covered, mirrors, gates
<1>2. CASE Terminate(v)
  BY <1>2 DEF Terminate, CustodyInv, TypeOK, Covered, mirrors, gates
<1>3. CASE BooksSwept(v)
  BY <1>3 DEF BooksSwept, CustodyInv, TypeOK, Covered, mirrors, gates
<1>4. ASSUME NEW gone \in SUBSET Protocol, DiscardProtocolInventory(v, gone)
      PROVE  CustodyInv'
  <2>1. rows' \in [Vaults -> [Accounts -> Nat]]
    BY <1>4 DEF DiscardProtocolInventory, CustodyInv, TypeOK
  <2> QED  BY <1>4, <2>1
           DEF DiscardProtocolInventory, CustodyInv, TypeOK, Covered, lifecycle, mirrors, gates
<1>5. ASSUME NEW drained \in Drainable(v), SweepDust(v, drained)
      PROVE  CustodyInv'
  BY <1>5, SweepDustKeeps
<1> QED  BY <1>1, <1>2, <1>3, <1>4, <1>5 DEF Lifecycle

LEMMA CustodyInit == Init => CustodyInv
<1> SUFFICES ASSUME Init
             PROVE  CustodyInv
  OBVIOUS
<1>1. rows \in [Vaults -> [Accounts -> Nat]]
  BY DEF Init
<1>2. TypeOK
  BY <1>1, CustodyParameters DEF Init, TypeOK
<1>3. Covered
  BY CustodyParameters DEF Init, Covered
<1> QED  BY <1>2, <1>3 DEF CustodyInv

LEMMA CustodyStep == CustodyInv /\ [Next]_vars => CustodyInv'
<1> SUFFICES ASSUME CustodyInv, [Next]_vars
             PROVE  CustodyInv'
  OBVIOUS
<1>1. ASSUME NEW v \in Vaults, Lifecycle(v)
      PROVE  CustodyInv'
  BY <1>1, LifecycleKeeps
<1>2. ASSUME NEW v \in Vaults, NEW origin \in Origins, NEW who \in Accounts, Call(origin, v, who)
      PROVE  CustodyInv'
  BY <1>2, CallKeeps
<1>3. CASE SweepRedemptionFees
  <2>1. custody' \in Nat
    BY <1>3, CustodyParameters DEF SweepRedemptionFees, CustodyInv, TypeOK, Covered
  <2> QED  BY <1>3, <2>1, CustodyParameters
           DEF SweepRedemptionFees, CustodyInv, TypeOK, Covered, lifecycle, mirrors, gates
<1>4. ASSUME NEW f \in BOOLEAN, NEW p \in BOOLEAN, Gate(f, p)
      PROVE  CustodyInv'
  BY <1>4 DEF Gate, CustodyInv, TypeOK, Covered, lifecycle, mirrors
<1>5. CASE NextBlock
  BY <1>5 DEF NextBlock, CustodyInv, TypeOK, Covered, lifecycle, mirrors, gates
<1>6. CASE UNCHANGED vars
  BY <1>6 DEF vars, CustodyInv, TypeOK, Covered
<1> QED  BY <1>1, <1>2, <1>3, <1>4, <1>5, <1>6 DEF Next

-----------------------------------------------------------------------------

LEMMA CustodyInvAlways == Spec => []CustodyInv
BY CustodyInit, CustodyStep, PTL DEF Spec

(* Every book of the pallet stays a natural number: no subtraction of an   *)
(* escrow, a deposit or a record count ever goes below zero.               *)
THEOREM CustodyTypeCorrect == Spec => []TypeOK
BY CustodyInvAlways, PTL DEF CustodyInv

(* The sovereign account always holds the escrow, the deposits, the fees   *)
(* not yet swept and its minimum balance.                                  *)
THEOREM AlwaysCovered == Spec => []Covered
BY CustodyInvAlways, PTL DEF CustodyInv

-----------------------------------------------------------------------------
(* The mirrors.                                                            *)

(* What the records of one vault, and of all, count for the deposits.      *)
Counted(row)  == SumFunctionOnSet(row, Depositors)
CountedOf(book) == SumFunction([v \in Vaults |-> Counted(book[v])])

LEMMA DepositorsFinite == Depositors \subseteq Accounts /\ IsFiniteSet(Depositors)
BY CustodyAccounts, FS_Subset DEF Depositors

LEMMA CountedIsNat ==
    ASSUME NEW row \in [Accounts -> Nat]
    PROVE  Counted(row) \in Nat
<1>1. \A who \in Depositors : row[who] \in Nat
  BY DepositorsFinite
<1> QED  BY <1>1, DepositorsFinite, SumIsNat DEF Counted

(* Changing the records of one vault moves the count of all by as much.    *)
LEMMA CountMoves ==
    ASSUME NEW old \in [Vaults -> [Accounts -> Nat]], NEW new \in [Vaults -> [Accounts -> Nat]],
           NEW v \in Vaults, \A w \in Vaults \ {v} : new[w] = old[w]
    PROVE  /\ CountedOf(old) \in Int
           /\ CountedOf(new) = CountedOf(old) + Counted(new[v]) - Counted(old[v])
<1> DEFINE f == [w \in Vaults |-> Counted(old[w])]
           h == [w \in Vaults |-> Counted(new[w])]
<1>1. f \in [Vaults -> Nat] /\ h \in [Vaults -> Nat]
  BY CountedIsNat
<1>2. \A w \in Vaults \ {v} : h[w] = f[w]
  OBVIOUS
<1>3. f[v] = Counted(old[v]) /\ h[v] = Counted(new[v])
  OBVIOUS
<1>4. CountedOf(old) = SumFunction(f) /\ CountedOf(new) = SumFunction(h)
  BY DEF CountedOf
<1> HIDE DEF f, h
<1>5. SumFunction(f) \in Int /\ SumFunction(h) = SumFunction(f) + h[v] - f[v]
  BY <1>1, <1>2, CustodyAccounts, RowMoves
<1> QED  BY <1>3, <1>4, <1>5

(* The deposits match the entries after a change of one vault's records    *)
(* that moves them by the unit times the count.                            *)
LEMMA DepositsFollow ==
    ASSUME CustodyInv, DepositsMatchEntries, NEW v \in Vaults,
           rows' \in [Vaults -> [Accounts -> Nat]],
           \A w \in Vaults \ {v} : rows'[w] = rows[w],
           NEW d \in Int, Counted(rows'[v]) = Counted(rows[v]) + d,
           depositsHeld' = depositsHeld + PositionDeposit * d
    PROVE  DepositsMatchEntries'
<1>1. rows \in [Vaults -> [Accounts -> Nat]]
  BY DEF CustodyInv, TypeOK
<1>2. /\ CountedOf(rows) \in Int
      /\ CountedOf(rows') = CountedOf(rows) + Counted(rows'[v]) - Counted(rows[v])
  BY <1>1, CountMoves
<1>3. Counted(rows[v]) \in Nat
  BY <1>1, CountedIsNat
<1>4. CountedOf(rows') = CountedOf(rows) + d
  BY <1>2, <1>3
<1>5. PositionDeposit * (CountedOf(rows) + d)
        = PositionDeposit * CountedOf(rows) + PositionDeposit * d
  BY <1>2, CustodyParameters
<1>6. depositsHeld = PositionDeposit * CountedOf(rows)
  BY DEF DepositsMatchEntries, CountedOf, Counted
<1>7. depositsHeld' = PositionDeposit * CountedOf(rows')
  BY <1>4, <1>5, <1>6
<1> QED  BY <1>7 DEF DepositsMatchEntries, CountedOf, Counted

(* One holder's records change: the count moves if it pays deposits.       *)
LEMMA HolderCounts ==
    ASSUME NEW f \in [Accounts -> Nat], NEW h \in [Accounts -> Nat], NEW who \in Accounts,
           NEW n \in Int, h[who] = f[who] + n, \A w \in Accounts \ {who} : h[w] = f[w]
    PROVE  Counted(h) = Counted(f) + (IF who \in Protocol THEN 0 ELSE n)
<1>1. Counted(f) \in Nat
  BY CountedIsNat
<1>2. CASE who \in Protocol
  <2>1. \A w \in Depositors : h[w] = f[w]
    BY <1>2 DEF Depositors
  <2>2. Counted(h) = Counted(f)
    BY <2>1, DepositorsFinite, SumsAgree DEF Counted
  <2> QED  BY <1>1, <1>2, <2>2
<1>3. CASE who \notin Protocol
  <2>1. who \in Depositors /\ \A w \in Depositors \ {who} : h[w] = f[w]
    BY <1>3 DEF Depositors
  <2>2. \A w \in Depositors : f[w] \in Int /\ h[w] \in Int
    BY DepositorsFinite
  <2>3. Counted(h) = Counted(f) + h[who] - f[who]
    BY <2>1, <2>2, DepositorsFinite, SumMoves DEF Counted
  <2>4. f[who] \in Nat
    OBVIOUS
  <2> QED  BY <1>1, <1>3, <2>3, <2>4
<1> QED  BY <1>2, <1>3

LEMMA PledgeCounts ==
    ASSUME NEW who \in Accounts, NEW n \in Int
    PROVE  Pledge(who, n) = PositionDeposit * (IF who \in Protocol THEN 0 ELSE n)
BY CustodyParameters DEF Pledge

(* The vaults that are not there hold nothing, before and after.           *)
AbsentEmpty == \A v \in Vaults : phase[v] = "Absent" => escrow[v] = 0 /\ RowsOf(v) = 0

(* Settling one call of one holder keeps both mirrors: it moves the escrow *)
(* total with the vault's escrow and the deposits with the records.        *)
LEMMA RunMirrors ==
    ASSUME CustodyInv, MirrorsAgree, NEW v \in Vaults, NEW who \in Accounts, NEW inflow \in Nat,
           NEW gross \in Nat, NEW fee \in Nat, NEW gained \in Int,
           phase[v] # "Absent", Run(v, who, inflow, gross, fee, gained)
    PROVE  MirrorsAgree'
<1>1. /\ escrow \in [Vaults -> Nat] /\ rows \in [Vaults -> [Accounts -> Nat]]
      /\ totalEscrowed \in Nat
  BY DEF CustodyInv, TypeOK
<1>2. /\ escrow' \in [Vaults -> Nat] /\ rows' \in [Vaults -> [Accounts -> Nat]]
  BY RunKeeps DEF CustodyInv, TypeOK
<1>3. /\ escrow'[v] = escrow[v] + inflow - gross
      /\ \A w \in Vaults \ {v} : escrow'[w] = escrow[w]
      /\ totalEscrowed' = totalEscrowed + inflow - gross
      /\ rows'[v][who] = rows[v][who] + gained
      /\ \A w \in Accounts \ {who} : rows'[v][w] = rows[v][w]
      /\ \A w \in Vaults \ {v} : rows'[w] = rows[w]
      /\ depositsHeld' = depositsHeld + Pledge(who, gained)
      /\ phase' = phase
  BY <1>1 DEF Run, lifecycle
<1>4. totalEscrowed' = SumFunction(escrow')
  <2>1. SumFunction(escrow') = SumFunction(escrow) + escrow'[v] - escrow[v]
    BY <1>1, <1>2, <1>3, RowMoves, CustodyAccounts
  <2>2. escrow[v] \in Nat /\ totalEscrowed = SumFunction(escrow)
    BY <1>1 DEF MirrorsAgree
  <2> QED  BY <1>1, <1>3, <2>1, <2>2
<1>5. DepositsMatchEntries'
  <2> DEFINE d == IF who \in Protocol THEN 0 ELSE gained
  <2>1. rows[v] \in [Accounts -> Nat] /\ rows'[v] \in [Accounts -> Nat]
    BY <1>1, <1>2
  <2>2. Counted(rows'[v]) = Counted(rows[v]) + d
    BY <1>3, <2>1, HolderCounts
  <2>3. depositsHeld' = depositsHeld + PositionDeposit * d /\ d \in Int
    BY <1>3, PledgeCounts
  <2> HIDE DEF d
  <2> QED  BY <1>2, <1>3, <2>2, <2>3, DepositsFollow DEF MirrorsAgree
<1>6. AbsentEmpty'
  BY <1>3 DEF MirrorsAgree, AbsentEmpty, RowsOf
<1> QED  BY <1>4, <1>5, <1>6 DEF MirrorsAgree, AbsentEmpty

(* A transfer settles the sender and then the recipient.                   *)
LEMMA TransferMirrors ==
    ASSUME CustodyInv, MirrorsAgree, NEW origin \in Origins, NEW v \in Vaults,
           NEW from \in Accounts, NEW to \in Accounts, NEW lost \in 0 .. 1, NEW gained \in 0 .. 1,
           Transfer(origin, v, from, to, lost, gained)
    PROVE  MirrorsAgree'
<1> DEFINE f   == rows[v]
           mid == [w \in Accounts |-> f[w] - (IF w = from THEN lost ELSE 0)]
           h   == [w \in Accounts |-> f[w] - (IF w = from THEN lost ELSE 0)
                                           + (IF w = to THEN gained ELSE 0)]
           out  == IF from \in Protocol THEN 0 ELSE -lost
           into == IF to \in Protocol THEN 0 ELSE gained
<1>1. rows \in [Vaults -> [Accounts -> Nat]] /\ depositsHeld \in Nat
  BY DEF CustodyInv, TypeOK
<1>2. /\ phase[v] # "Absent" /\ f[from] >= lost
      /\ rows' = [rows EXCEPT ![v] = h]
      /\ depositsHeld' = depositsHeld - Pledge(from, lost) + Pledge(to, gained)
      /\ UNCHANGED <<lifecycle, escrow, totalEscrowed>>
  BY DEF Transfer
<1>3. f \in [Accounts -> Nat] /\ mid \in [Accounts -> Nat] /\ h \in [Accounts -> Nat]
  BY <1>1, <1>2
<1>4. mid[from] = f[from] + (-lost) /\ \A w \in Accounts \ {from} : mid[w] = f[w]
  BY <1>3
<1>5. h[to] = mid[to] + gained /\ \A w \in Accounts \ {to} : h[w] = mid[w]
  BY <1>3
<1>6. out \in Int /\ into \in Int /\ -lost \in Int /\ gained \in Int
  OBVIOUS
<1>7. Counted(h) = Counted(f) + (out + into)
  <2> HIDE DEF f, mid, h
  <2>1. Counted(mid) = Counted(f) + out
    BY <1>3, <1>4, <1>6, HolderCounts
  <2>2. Counted(h) = Counted(mid) + into
    BY <1>3, <1>5, <1>6, HolderCounts
  <2>3. Counted(f) \in Nat
    BY <1>3, CountedIsNat
  <2> HIDE DEF out, into
  <2> QED  BY <1>6, <2>1, <2>2, <2>3
<1>8. depositsHeld' = depositsHeld + PositionDeposit * (out + into)
  <2>1. Pledge(from, lost) = PositionDeposit * (IF from \in Protocol THEN 0 ELSE lost)
    BY PledgeCounts
  <2>2. Pledge(to, gained) = PositionDeposit * into
    BY PledgeCounts
  <2>3. PositionDeposit * (IF from \in Protocol THEN 0 ELSE lost) = -(PositionDeposit * out)
    BY CustodyParameters
  <2>4. PositionDeposit * (out + into) = PositionDeposit * out + PositionDeposit * into
    BY <1>6, CustodyParameters
  <2>5. PositionDeposit * out \in Int /\ PositionDeposit * into \in Int
    BY <1>6, CustodyParameters
  <2> HIDE DEF out, into
  <2> QED  BY <1>1, <1>2, <2>1, <2>2, <2>3, <2>4, <2>5
<1>9. /\ rows' \in [Vaults -> [Accounts -> Nat]]
      /\ rows'[v] = h /\ \A w \in Vaults \ {v} : rows'[w] = rows[w]
  <2> HIDE DEF h
  <2> QED  BY <1>1, <1>2, <1>3
<1>10. DepositsMatchEntries'
  <2>1. out + into \in Int
    BY <1>6
  <2>2. Counted(rows'[v]) = Counted(rows[v]) + (out + into)
    BY <1>7, <1>9
  <2> HIDE DEF out, into, h
  <2> QED  BY <1>8, <1>9, <2>1, <2>2, DepositsFollow DEF MirrorsAgree
<1>11. AbsentEmpty' /\ totalEscrowed' = SumFunction(escrow')
  BY <1>2, <1>9 DEF MirrorsAgree, AbsentEmpty, RowsOf, lifecycle
<1> QED  BY <1>10, <1>11 DEF MirrorsAgree, AbsentEmpty

(* A sweep refunds exactly the records it drains, and removes a vault only *)
(* when none is left and its escrow is paid out.                           *)
LEMMA SweepDustMirrors ==
    ASSUME CustodyInv, MirrorsAgree, NEW v \in Vaults, NEW drained \in Drainable(v),
           SweepDust(v, drained)
    PROVE  MirrorsAgree'
<1> DEFINE last    == SumFunction(drained) = RowsOf(v)
           residue == IF last THEN escrow[v] ELSE 0
           taken   == SumFunctionOnSet(drained, Depositors)
<1>1. /\ escrow \in [Vaults -> Nat] /\ rows \in [Vaults -> [Accounts -> Nat]]
      /\ phase \in [Vaults -> {"Absent", "Running", "Terminal"}]
      /\ totalEscrowed \in Nat /\ depositsHeld \in Nat
  BY DEF CustodyInv, TypeOK
<1>2. /\ phase[v] = "Terminal"
      /\ depositsHeld' = depositsHeld - Refund(drained)
      /\ totalEscrowed' = totalEscrowed - residue
      /\ escrow' = [escrow EXCEPT ![v] = @ - residue]
      /\ phase' = [phase EXCEPT ![v] = IF last THEN "Absent" ELSE @]
      /\ rows' = [rows EXCEPT ![v] = [who \in Accounts |-> rows[v][who] - drained[who]]]
  BY DEF SweepDust, ReapDue
<1>3. /\ escrow' \in [Vaults -> Nat] /\ rows' \in [Vaults -> [Accounts -> Nat]]
  BY SweepDustKeeps DEF CustodyInv, TypeOK
<1>4. /\ drained \in [Accounts -> Nat]
      /\ \A who \in Accounts : rows'[v][who] = rows[v][who] - drained[who]
      /\ \A w \in Vaults \ {v} : rows'[w] = rows[w]
  BY <1>1, <1>2, CustodyParameters DEF Drainable
<1>5. /\ escrow'[v] = escrow[v] - residue
      /\ \A w \in Vaults \ {v} : escrow'[w] = escrow[w] /\ phase'[w] = phase[w]
      /\ escrow[v] \in Nat
  <2> HIDE DEF residue, last
  <2> QED  BY <1>1, <1>2
<1>6. residue \in Nat
  BY <1>5
<1>7. totalEscrowed' = SumFunction(escrow')
  <2> HIDE DEF residue
  <2>1. SumFunction(escrow') = SumFunction(escrow) + escrow'[v] - escrow[v]
    <3>1. /\ escrow \in [Vaults -> Nat] /\ escrow' \in [Vaults -> Nat]
          /\ \A w \in Vaults \ {v} : escrow'[w] = escrow[w]
      BY <1>1, <1>3, <1>5
    <3> QED  BY <3>1, RowMoves, CustodyAccounts
  <2>2. totalEscrowed = SumFunction(escrow)
    BY DEF MirrorsAgree
  <2> QED  BY <1>1, <1>2, <1>5, <1>6, <2>1, <2>2
<1>8. DepositsMatchEntries'
  <2>1. \A who \in Depositors : /\ rows[v][who] \in Int /\ drained[who] \in Int
                                /\ rows'[v][who] = rows[v][who] - drained[who]
    BY <1>1, <1>4, DepositorsFinite
  <2>2. Counted(rows'[v]) = Counted(rows[v]) - taken
    BY <2>1, DepositorsFinite, SumsSubtract DEF Counted
  <2>3. taken \in Nat /\ Counted(rows[v]) \in Nat
    BY <1>1, <1>4, CountedIsNat DEF Counted
  <2>4. Refund(drained) = PositionDeposit * taken
    BY DEF Refund, Depositors
  <2> HIDE DEF taken
  <2>5. PositionDeposit * (-taken) = -(PositionDeposit * taken) /\ PositionDeposit * taken \in Nat
    BY <2>3, CustodyParameters
  <2>6. depositsHeld' = depositsHeld + PositionDeposit * (-taken)
    BY <1>1, <1>2, <2>4, <2>5
  <2>7. -taken \in Int /\ Counted(rows'[v]) = Counted(rows[v]) + (-taken)
    BY <2>2, <2>3
  <2> QED  BY <1>3, <1>4, <2>6, <2>7, DepositsFollow DEF MirrorsAgree
<1>9. ASSUME last
      PROVE  escrow'[v] = 0 /\ RowsOf(v)' = 0
  <2>1. escrow'[v] = 0
    BY <1>5, <1>9
  <2>2. /\ SumFunction(rows'[v]) = SumFunctionOnSet(rows'[v], Accounts)
        /\ RowsOf(v) = SumFunctionOnSet(rows[v], Accounts)
        /\ SumFunction(drained) = SumFunctionOnSet(drained, Accounts)
    BY <1>1, <1>3, <1>4, SumIsOnSet DEF RowsOf
  <2>3. \A who \in Accounts : /\ rows[v][who] \in Int /\ drained[who] \in Int
                              /\ rows'[v][who] = rows[v][who] - drained[who]
    BY <1>1, <1>4
  <2>4. SumFunctionOnSet(rows'[v], Accounts)
          = SumFunctionOnSet(rows[v], Accounts) - SumFunctionOnSet(drained, Accounts)
    BY <2>3, CustodyAccounts, SumsSubtract
  <2>5. SumFunctionOnSet(drained, Accounts) \in Int
    BY <2>3, CustodyAccounts, SumIsInt
  <2> QED  BY <1>9, <2>1, <2>2, <2>4, <2>5 DEF RowsOf
<1>10. AbsentEmpty'
  <2> SUFFICES ASSUME NEW w \in Vaults, phase'[w] = "Absent"
               PROVE  escrow'[w] = 0 /\ RowsOf(w)' = 0
    BY DEF AbsentEmpty
  <2>1. CASE w = v
    BY <1>1, <1>2, <1>9, <2>1
  <2>2. CASE w # v
    BY <1>4, <1>5, <2>2 DEF MirrorsAgree, RowsOf
  <2> QED  BY <2>1, <2>2
<1> QED  BY <1>7, <1>8, <1>10 DEF MirrorsAgree, AbsentEmpty

(* Dropping the protocol's records moves no deposit: they pledge none.     *)
LEMMA DiscardMirrors ==
    ASSUME CustodyInv, MirrorsAgree, NEW v \in Vaults,
           NEW gone \in SUBSET Protocol, DiscardProtocolInventory(v, gone)
    PROVE  MirrorsAgree'
<1>1. rows \in [Vaults -> [Accounts -> Nat]] /\ depositsHeld \in Nat
  BY DEF CustodyInv, TypeOK
<1>2. /\ rows' \in [Vaults -> [Accounts -> Nat]]
      /\ \A who \in Accounts : rows'[v][who] = IF who \in gone THEN 0 ELSE rows[v][who]
      /\ \A w \in Vaults \ {v} : rows'[w] = rows[w]
      /\ UNCHANGED <<lifecycle, escrow, mirrors>>
  BY <1>1 DEF DiscardProtocolInventory
<1>3. DepositsMatchEntries'
  <2>1. \A who \in Depositors : rows'[v][who] = rows[v][who]
    BY <1>2 DEF Depositors
  <2>2. Counted(rows'[v]) = Counted(rows[v]) /\ Counted(rows[v]) \in Nat
    BY <1>1, <2>1, CountedIsNat, DepositorsFinite, SumsAgree DEF Counted
  <2>3. Counted(rows'[v]) = Counted(rows[v]) + 0
    BY <2>2
  <2>4. depositsHeld' = depositsHeld + PositionDeposit * 0
    BY <1>1, <1>2, CustodyParameters DEF mirrors
  <2> QED  BY <1>2, <2>3, <2>4, DepositsFollow DEF MirrorsAgree
<1>4. ASSUME RowsOf(v) = 0
      PROVE  RowsOf(v)' = 0
  <2>1. /\ rows[v] \in [Accounts -> Nat] /\ rows'[v] \in [Accounts -> Nat]
        /\ \A who \in Accounts : rows[v][who] \in Nat
    BY <1>1, <1>2
  <2>2. SumFunctionOnSet(rows[v], Accounts) = 0
    BY <1>4, <2>1, SumIsOnSet DEF RowsOf
  <2>3. \A who \in Accounts : rows[v][who] = 0
    BY <2>1, <2>2, CustodyAccounts, SumOfNothing
  <2>4. \A who \in Accounts : rows'[v][who] = 0
    BY <1>2, <2>3
  <2> QED  BY <2>1, <2>4, CustodyAccounts, RowOfZeros DEF RowsOf
<1>5. AbsentEmpty' /\ totalEscrowed' = SumFunction(escrow')
  <2>1. \A w \in Vaults \ {v} : RowsOf(w)' = RowsOf(w)
    BY <1>2 DEF RowsOf
  <2> QED  BY <1>2, <1>4, <2>1 DEF MirrorsAgree, AbsentEmpty, lifecycle, mirrors
<1> QED  BY <1>3, <1>5 DEF MirrorsAgree, AbsentEmpty

(* A step that touches neither the records nor the mirrors.                *)
LEMMA QuietMirrors ==
    ASSUME MirrorsAgree, UNCHANGED <<escrow, rows, mirrors>>,
           \A v \in Vaults : phase'[v] = "Absent" => phase[v] = "Absent"
    PROVE  MirrorsAgree'
BY DEF MirrorsAgree, DepositsMatchEntries, RowsOf, mirrors

LEMMA LifecycleMirrors ==
    ASSUME CustodyInv, MirrorsAgree, NEW v \in Vaults, Lifecycle(v)
    PROVE  MirrorsAgree'
<1>1. phase \in [Vaults -> {"Absent", "Running", "Terminal"}]
  BY DEF CustodyInv, TypeOK
<1>2. CASE CreateVault(v) \/ Terminate(v) \/ BooksSwept(v)
  BY <1>1, <1>2, QuietMirrors DEF CreateVault, Terminate, BooksSwept
<1> QED  BY <1>2, DiscardMirrors, SweepDustMirrors DEF Lifecycle

LEMMA CallMirrors ==
    ASSUME CustodyInv, MirrorsAgree, NEW origin \in Origins, NEW v \in Vaults,
           NEW who \in Accounts, Call(origin, v, who)
    PROVE  MirrorsAgree'
<1>1. ASSUME NEW gained \in -2 .. 2,
             SplitSet(origin, v, who, gained) \/ MergeSet(origin, v, who, gained)
      PROVE  MirrorsAgree'
  <2>1. Run(v, who, 0, 0, 0, gained) /\ phase[v] # "Absent"
    BY <1>1 DEF SplitSet, MergeSet
  <2> QED  BY <2>1, RunMirrors
<1>2. ASSUME NEW a \in Amounts, NEW n \in 0 .. 2, Split(origin, v, who, a, n)
      PROVE  MirrorsAgree'
  <2>1. Run(v, who, a, 0, 0, n) /\ phase[v] # "Absent"
    BY <1>2 DEF Split
  <2> QED  BY <2>1, RunMirrors, CustodyParameters
<1>3. ASSUME NEW a \in Amounts, NEW n \in 0 .. 2, Merge(origin, v, who, a, n)
      PROVE  MirrorsAgree'
  <2>1. Run(v, who, 0, a, 0, -n) /\ phase[v] # "Absent"
    BY <1>3 DEF Merge
  <2> QED  BY <2>1, RunMirrors, CustodyParameters
<1>4. ASSUME NEW gross \in Amounts, NEW lost \in 0 .. 2, NEW fee \in 0 .. gross,
             Redeem(origin, v, who, gross, fee, lost)
      PROVE  MirrorsAgree'
  <2>1. Run(v, who, 0, gross, fee, -lost) /\ phase[v] # "Absent"
    BY <1>4 DEF Redeem
  <2> QED  BY <2>1, RunMirrors, CustodyParameters
<1> QED  BY <1>1, <1>2, <1>3, <1>4, TransferMirrors DEF Call

LEMMA MirrorsInit == Init => MirrorsAgree
<1> SUFFICES ASSUME Init
             PROVE  MirrorsAgree
  OBVIOUS
<1> DEFINE none == [w \in Accounts |-> 0]
           f    == [v \in Vaults |-> Counted(rows[v])]
<1>1. \A v \in Vaults : rows[v] = none /\ escrow[v] = 0
  BY DEF Init
<1>2. SumFunction(none) = 0
  BY CustodyAccounts, RowOfZeros
<1>3. Counted(none) = 0
  <2>1. \A w \in Depositors : none[w] = 0
    BY DepositorsFinite
  <2> QED  BY <2>1, DepositorsFinite, SumOfZeros DEF Counted
<1>4. SumFunction(escrow) = 0
  BY CustodyAccounts, RowOfZeros DEF Init
<1>5. f \in [Vaults -> Nat] /\ \A v \in Vaults : f[v] = 0
  <2> HIDE DEF none
  <2> QED  BY <1>1, <1>3
<1>6. SumFunction(f) = 0
  <2> HIDE DEF f
  <2> QED  BY <1>5, CustodyAccounts, RowOfZeros
<1>7. DepositsMatchEntries
  <2>1. f = [v \in Vaults |-> SumFunctionOnSet(rows[v], Depositors)]
    BY DEF Counted
  <2>2. depositsHeld = 0 /\ PositionDeposit * 0 = 0
    BY CustodyParameters DEF Init
  <2> QED  BY <1>6, <2>1, <2>2 DEF DepositsMatchEntries
<1>8. totalEscrowed = 0
  BY DEF Init
<1> QED  BY <1>1, <1>2, <1>4, <1>7, <1>8 DEF MirrorsAgree, RowsOf

(* The mirrors never drift: TotalEscrowed is the sum of the escrows and    *)
(* DepositsHeld the deposit unit times the records of the holders that pay *)
(* one, and a reaped vault leaves neither escrow nor records, after any    *)
(* calls, transfers and batched sweeps in any order.                       *)
THEOREM MirrorsAlwaysAgree == Spec => []MirrorsAgree
<1>1. CustodyInv /\ MirrorsAgree /\ [Next]_vars => MirrorsAgree'
  <2> SUFFICES ASSUME CustodyInv, MirrorsAgree, [Next]_vars
               PROVE  MirrorsAgree'
    OBVIOUS
  <2>1. CASE SweepRedemptionFees \/ (\E f, p \in BOOLEAN : Gate(f, p)) \/ NextBlock \/ UNCHANGED vars
    BY <2>1, QuietMirrors DEF SweepRedemptionFees, Gate, NextBlock, vars, lifecycle, mirrors
  <2> QED  BY <2>1, LifecycleMirrors, CallMirrors DEF Next
<1> QED  BY <1>1, MirrorsInit, CustodyInvAlways, PTL DEF Spec

-----------------------------------------------------------------------------
(* What the cranks ask of the money.  CranksNeverRefused speaks of ENABLED *)
(* and is left to TLC; these are the guards of the same calls that a       *)
(* wrong book could fail.                                                  *)

(* The sweep of the fees leaves the sovereign its minimum balance.         *)
FeesPayable == Preserved(accrued)

(* The checked subtractions of a sweep of dust, and its payments.          *)
DustPayable(v, drained) ==
    LET residue == IF SumFunction(drained) = RowsOf(v) THEN escrow[v] ELSE 0
    IN  /\ Refund(drained) \in 0 .. depositsHeld
        /\ residue \in 0 .. totalEscrowed
        /\ Preserved(Refund(drained) + residue)

(* The same of a holder that gives up all of its records and is paid the   *)
(* whole escrow of the vault.                                              *)
ExitPayable(v, who) ==
    /\ totalEscrowed >= escrow[v]
    /\ depositsHeld + Pledge(who, -rows[v][who]) >= 0
    /\ Preserved(escrow[v] - Pledge(who, -rows[v][who]))

CranksPayable ==
    /\ FeesPayable
    /\ \A v \in Vaults, drained \in UNION {Drainable(u) : u \in Vaults} :
         drained \in Drainable(v) => DustPayable(v, drained)
    /\ \A v \in Vaults, who \in Accounts : ExitPayable(v, who)

(* A part of a vault's records counts for at most the deposits held.       *)
LEMMA CountWithinDeposits ==
    ASSUME CustodyInv, MirrorsAgree, NEW v \in Vaults, NEW n \in Nat,
           n <= Counted(rows[v])
    PROVE  PositionDeposit * n \in 0 .. depositsHeld
<1> DEFINE f == [w \in Vaults |-> Counted(rows[w])]
<1>1. rows \in [Vaults -> [Accounts -> Nat]]
  BY DEF CustodyInv, TypeOK
<1>2. f \in [Vaults -> Nat] /\ f[v] = Counted(rows[v])
  BY <1>1, CountedIsNat
<1>3. depositsHeld = PositionDeposit * SumFunction(f)
  BY DEF MirrorsAgree, DepositsMatchEntries, Counted
<1> HIDE DEF f
<1>4. \A w \in Vaults : f[w] \in Nat
  BY <1>2
<1>5. SumFunction(f) = SumFunctionOnSet(f, Vaults)
  BY <1>2, SumIsOnSet
<1>6. f[v] <= SumFunctionOnSet(f, Vaults) /\ SumFunctionOnSet(f, Vaults) \in Nat
  BY <1>4, CustodyAccounts, EntryWithinSum, SumIsNat
<1>7. n <= SumFunction(f) /\ SumFunction(f) \in Nat
  BY <1>2, <1>5, <1>6
<1>8. ASSUME NEW p \in Nat, NEW a \in Nat, NEW b \in Nat, a <= b
      PROVE  p * a \in 0 .. (p * b)
  <2>1. p * b = p * a + p * (b - a) /\ p * a \in Nat /\ p * (b - a) \in Nat
    BY <1>8
  <2> QED  BY <2>1
<1> QED  BY <1>3, <1>7, <1>8, CustodyParameters

(* No vault's escrow is more than the total.                               *)
LEMMA EscrowWithinTotal ==
    ASSUME CustodyInv, MirrorsAgree, NEW v \in Vaults
    PROVE  escrow[v] <= totalEscrowed
<1>1. escrow \in [Vaults -> Nat] /\ \A w \in Vaults : escrow[w] \in Nat
  BY DEF CustodyInv, TypeOK
<1>2. totalEscrowed = SumFunctionOnSet(escrow, Vaults)
  BY <1>1, SumIsOnSet DEF MirrorsAgree
<1> QED  BY <1>1, <1>2, CustodyAccounts, EntryWithinSum

(* With the mirrors in step and the custody covered, nothing the cranks    *)
(* ask of the money is missing.                                            *)
LEMMA BooksPayCranks ==
    ASSUME CustodyInv, MirrorsAgree
    PROVE  CranksPayable
<1>1. /\ escrow \in [Vaults -> Nat] /\ rows \in [Vaults -> [Accounts -> Nat]]
      /\ totalEscrowed \in Nat /\ depositsHeld \in Nat /\ accrued \in Nat /\ custody \in Nat
  BY DEF CustodyInv, TypeOK
<1>2. custody >= totalEscrowed + depositsHeld + accrued + MinBalance
  BY DEF CustodyInv, Covered
<1>3. ASSUME NEW a \in 0 .. totalEscrowed, NEW b \in 0 .. depositsHeld
      PROVE  Preserved(a + b) /\ Preserved(b + a)
  BY <1>1, <1>2, CustodyParameters DEF Preserved
<1>4. FeesPayable
  BY <1>1, <1>2, CustodyParameters DEF FeesPayable, Preserved
<1>5. ASSUME NEW v \in Vaults, NEW drained \in Drainable(v)
      PROVE  DustPayable(v, drained)
  <2> DEFINE residue == IF SumFunction(drained) = RowsOf(v) THEN escrow[v] ELSE 0
             taken   == SumFunctionOnSet(drained, Depositors)
             left    == [who \in Accounts |-> rows[v][who] - drained[who]]
  <2>1. residue \in 0 .. totalEscrowed
    BY <1>1, EscrowWithinTotal
  <2>2. /\ drained \in [Accounts -> Nat] /\ rows[v] \in [Accounts -> Nat]
        /\ \A who \in Accounts : drained[who] <= rows[v][who]
    BY <1>1, CustodyParameters DEF Drainable
  <2>3. left \in [Accounts -> Nat]
    BY <2>2
  <2>4. \A who \in Depositors : /\ rows[v][who] \in Int /\ drained[who] \in Int
                                /\ left[who] = rows[v][who] - drained[who]
    BY <2>2, DepositorsFinite
  <2> HIDE DEF left
  <2>5. Counted(left) = Counted(rows[v]) - Counted(drained)
    BY <2>4, DepositorsFinite, SumsSubtract DEF Counted
  <2>6. Counted(left) \in Nat /\ Counted(drained) \in Nat /\ Counted(rows[v]) \in Nat
    BY <2>2, <2>3, CountedIsNat
  <2>7. Counted(drained) <= Counted(rows[v])
    BY <2>5, <2>6
  <2>8. PositionDeposit * Counted(drained) \in 0 .. depositsHeld
    BY <2>6, <2>7, CountWithinDeposits
  <2>9. Refund(drained) \in 0 .. depositsHeld
    BY <2>8 DEF Refund, Counted, Depositors
  <2> HIDE DEF residue
  <2>10. Preserved(Refund(drained) + residue)
    BY <1>3, <2>1, <2>9
  <2> QED  BY <2>1, <2>9, <2>10 DEF DustPayable, residue
<1>6. ASSUME NEW v \in Vaults, NEW who \in Accounts
      PROVE  ExitPayable(v, who)
  <2> DEFINE n    == IF who \in Protocol THEN 0 ELSE rows[v][who]
             back == PositionDeposit * n
  <2>1. /\ rows[v][who] \in Nat /\ escrow[v] \in Nat /\ rows[v] \in [Accounts -> Nat]
        /\ escrow[v] <= totalEscrowed
    BY <1>1, EscrowWithinTotal
  <2>2. n \in Nat /\ n <= Counted(rows[v])
    <3>1. Counted(rows[v]) \in Nat
      BY <2>1, CountedIsNat
    <3>2. CASE who \in Protocol
      BY <3>1, <3>2
    <3>3. CASE who \notin Protocol
      <4>1. who \in Depositors /\ \A w \in Depositors : rows[v][w] \in Nat
        BY <2>1, <3>3, DepositorsFinite DEF Depositors
      <4>2. rows[v][who] <= Counted(rows[v])
        BY <4>1, DepositorsFinite, EntryWithinSum DEF Counted
      <4> QED  BY <2>1, <3>3, <4>2
    <3> QED  BY <3>2, <3>3
  <2>3. Pledge(who, -rows[v][who]) = -back /\ back \in Nat
    <3>1. PositionDeposit * (-rows[v][who]) = -(PositionDeposit * rows[v][who])
      BY <2>1, CustodyParameters
    <3> QED  BY <2>1, <3>1, CustodyParameters DEF Pledge
  <2>4. back \in 0 .. depositsHeld
    <3> HIDE DEF n
    <3> QED  BY <2>2, CountWithinDeposits
  <2> HIDE DEF n, back
  <2>5. escrow[v] - Pledge(who, -rows[v][who]) = escrow[v] + back
    BY <2>1, <2>3
  <2>6. Preserved(escrow[v] + back)
    BY <1>3, <2>1, <2>4
  <2> QED  BY <1>1, <2>1, <2>3, <2>4, <2>5, <2>6 DEF ExitPayable
<1> QED  BY <1>4, <1>5, <1>6 DEF CranksPayable

(* No checked subtraction and no minimum balance ever refuses the fee      *)
(* sweep, the reaping of a vault, or a holder that leaves with all of its  *)
(* records: the guards that CranksNeverRefused needs of the money hold in  *)
(* every reachable state, for every deposit and minimum balance.           *)
THEOREM CranksAlwaysPayable == Spec => []CranksPayable
BY BooksPayCranks, MirrorsAlwaysAgree, CustodyInvAlways, PTL

=============================================================================
