------------------------ MODULE EpochLifecycleProofs ------------------------
(***************************************************************************)
(* What the epoch engine keeps together, for any number of proposals,      *)
(* resources and epochs, and in any order of the calls.                    *)
(*                                                                         *)
(* A call works on the storage it has in hand and stores it at the end, so *)
(* the invariant is one of the storage in hand, Sound: it is kept by every *)
(* item of a batch, and storing it yields a storage that is sound again.   *)
(***************************************************************************)
EXTENDS EpochTaught, Sums

(* The states in hand: those stored, and the terminal ones not stored yet. *)
Working == States \union Terminal
Ended   == Terminal \union {"Gone"}

Vaults == {"Absent", "Open", "Accept", "Reject", "Voided", "Settled"}

(* VaultsFollow, of a storage in hand.                                     *)
VaultFits(S, p) ==
    LET s == S.prop[p].state
        v == S.vault[p]
    IN  /\ v = "Open" <=> s \in MarketBearing
        /\ v \in {"Accept", "Reject"} => s = "Measuring"
        /\ s = "Measuring" => v \in {"Accept", "Reject", "Settled"}
        /\ v \in {"Voided", "Settled"} => s \in Ended \union {"Measuring"}

(* A proposal has no decision before one was taken, DecisionMatchesBranch  *)
(* afterwards.                                                             *)
DecisionFits(S, p) ==
    LET r == S.prop[p]
    IN  /\ r.state \in {"Absent", "Submitted", "Rerun"} \union Undecided => r.decision = "None"
        /\ r.state \in Adopted => r.decision = "Adopt"
        /\ r.state = "Measuring" /\ S.vault[p] = "Accept" => r.decision = "Adopt"

(* LocksHeld, of a storage in hand.                                        *)
LocksFit(S) ==
    /\ \A p \in Proposals : S.prop[p].state \in InProgress =>
         \A r \in S.prop[p].resources : S.locks[r] = p
    /\ \A r \in Resources : S.locks[r] # Nobody =>
         S.prop[S.locks[r]].state \in InProgress \union {"Measuring"}

(* CohortsSound, of a storage in hand: members are frozen when stored.     *)
Member(S, p, e) == p \in Range(S.cohorts[e].members)

CohortFits(S, e) ==
    LET c == S.cohorts[e]
    IN  /\ c.cursor <= Len(c.members)
        /\ IsInjective(c.members)
        /\ \A i \in DOMAIN c.members : S.vault[c.members[i]] = "Settled" <=> i <= c.cursor

MembersFit(S) ==
    \A p \in Proposals, e \in Epochs :
        Member(S, p, e) <=> S.prop[p].state = "Measuring" /\ S.prop[p].epoch = e

(* NeutralIsFinal, and why it stays so: the epoch was voided, which holds  *)
(* whatever is submitted for it, or it is past, with nothing pending.      *)
NeutralFits(S, e) ==
    S.baseline[e] = "Neutral" =>
        /\ S.cohorts[e] = NoCohort
        /\ \A p \in Proposals :
             S.prop[p].epoch = e => S.prop[p].state \notin InProgress \union {"Measuring"}
        /\ \/ S.recent[e] = "Voided"
           \/ /\ e < S.clock.index
              /\ \A p \in Proposals : S.prop[p].epoch = e => S.prop[p].state # "Submitted"

Sound(S) ==
    /\ S \in Storage(Working)
    /\ S.clock.index <= now \div Length
    /\ \A p \in Proposals : VaultFits(S, p) /\ DecisionFits(S, p)
    /\ LocksFit(S)
    /\ \A e \in Epochs : CohortFits(S, e) /\ NeutralFits(S, e)
    /\ MembersFit(S)

(* The inductive invariant.                                                *)
EpochInv ==
    /\ TypeOK
    /\ Sound(st)
    /\ \A e \in Epochs : st.schedules[e] = st.cohorts[e].members

----------------------------------------------------------------------------
(* The parts of a storage.                                                 *)

LEMMA StorageParts ==
    ASSUME NEW states, NEW S \in Storage(states)
    PROVE  /\ S.clock \in [index : Epochs, phase : Phases]
           /\ S.clock.index \in Epochs
           /\ S.prop \in [Proposals -> Records(states)]
           /\ S.vault \in [Proposals -> Vaults]
           /\ S.locks \in [Resources -> Proposals \union {Nobody}]
           /\ S.cohorts \in [Epochs -> [members : Seq(Proposals), cursor : Nat]]
           /\ S.schedules \in [Epochs -> Seq(Proposals)]
           /\ S.recent \in [Epochs -> {"None", "Settled", "Voided"}]
           /\ S.baseline \in [Epochs -> {"Absent", "Open", "Settled", "Neutral"}]
           /\ S.funded \subseteq Proposals /\ S.stale \subseteq Proposals
  BY DEF Storage, Vaults

LEMMA RecordParts ==
    ASSUME NEW states, NEW S \in Storage(states), NEW p \in Proposals
    PROVE  /\ S.prop[p] \in Records(states)
           /\ S.prop[p].state \in states
           /\ S.prop[p].epoch \in Epochs
           /\ S.prop[p].resources \subseteq Resources
           /\ S.prop[p].decision \in {"None", "Adopt", "Reject"}
           /\ S.prop[p].due \in Nat
           /\ S.vault[p] \in Vaults
  BY StorageParts DEF Records

LEMMA EpochsAreNaturals == Epochs \subseteq Nat
  BY DEF Epochs

LEMMA ProposalsAreNaturals == Proposals \subseteq Nat /\ Nobody \notin Proposals
  BY EpochParameters DEF Proposals, Nobody

----------------------------------------------------------------------------
(* What one item of a batch may do: it touches the record, the vault and   *)
(* the locks of one proposal that is not measured, and may have it join    *)
(* the cohort of its epoch.                                                *)

Unmoved(S, T, p) ==
    /\ S.prop[p].state # "Measuring" /\ T.prop[p].state # "Measuring"
    /\ T.cohorts = S.cohorts

(* The cohorts after p joined that of its epoch.                           *)
Joining(S, p) == [S.cohorts EXCEPT ![S.prop[p].epoch].members = Append(@, p)]

Joined(S, T, p) ==
    /\ S.prop[p].state # "Measuring" /\ T.prop[p].state = "Measuring"
    /\ T.prop[p].epoch = S.prop[p].epoch
    /\ T.vault[p] # "Settled"
    /\ T.cohorts = Joining(S, p)

LocksMove(S, T, p) ==
    /\ \A r \in Resources : T.locks[r] # S.locks[r] =>
         S.locks[r] \in {Nobody, p} /\ T.locks[r] \in {Nobody, p}
    /\ T.prop[p].state \in InProgress => \A r \in T.prop[p].resources : T.locks[r] = p
    /\ T.prop[p].state \notin InProgress \union {"Measuring"} => \A r \in Resources : T.locks[r] # p

EpochMoves(S, T, p) ==
    /\ \A e \in Epochs : T.baseline[e] = "Neutral" => S.baseline[e] = "Neutral"
    /\ T.prop[p].state \in InProgress \union {"Measuring"} =>
         S.baseline[T.prop[p].epoch] # "Neutral"
    /\ T.prop[p].state = "Submitted" =>
         \/ T.prop[p].epoch >= S.clock.index
         \/ S.prop[p].state = "Submitted" /\ T.prop[p].epoch = S.prop[p].epoch

Step(S, T, p) ==
    /\ T \in Storage(Working)
    /\ T.clock = S.clock /\ T.recent = S.recent
    /\ \A q \in Proposals \ {p} : T.prop[q] = S.prop[q] /\ T.vault[q] = S.vault[q]
    /\ VaultFits(T, p) /\ DecisionFits(T, p)
    /\ Unmoved(S, T, p) \/ Joined(S, T, p)
    /\ LocksMove(S, T, p)
    /\ EpochMoves(S, T, p)

(* The cohort a proposal joins: its members, once each, and the cursor     *)
(* that separates the settled ones, which the new one is not.              *)
LEMMA JoinedCohort ==
    ASSUME NEW S, Sound(S), NEW T, T \in Storage(Working), NEW p \in Proposals, Joined(S, T, p),
           \A q \in Proposals \ {p} : T.vault[q] = S.vault[q]
    PROVE  /\ \A q \in Proposals, e \in Epochs :
                Member(T, q, e) <=> Member(S, q, e) \/ (q = p /\ e = S.prop[p].epoch)
           /\ \A e \in Epochs : CohortFits(T, e)
           /\ \A e \in Epochs \ {S.prop[p].epoch} : T.cohorts[e] = S.cohorts[e]
  <1> DEFINE f == S.prop[p].epoch
             m == S.cohorts[f].members
             n == T.cohorts[f].members
  <1>1. S \in Storage(Working)
    BY DEF Sound
  <1>2. f \in Epochs
    BY <1>1, RecordParts
  <1>3. /\ S.cohorts \in [Epochs -> [members : Seq(Proposals), cursor : Nat]]
        /\ S.cohorts[f] \in [members : Seq(Proposals), cursor : Nat]
    BY <1>1, <1>2, StorageParts
  <1>4. /\ T.cohorts = [S.cohorts EXCEPT ![f] = [S.cohorts[f] EXCEPT !.members = Append(m, p)]]
        /\ T.vault[p] # "Settled"
        /\ S.prop[p].state # "Measuring"
    BY DEF Joined, Joining
  <1>5. \A e \in Epochs \ {f} : T.cohorts[e] = S.cohorts[e]
    BY <1>3, <1>4
  <1>6. m \in Seq(Proposals) /\ n = Append(m, p) /\ T.cohorts[f].cursor = S.cohorts[f].cursor
    BY <1>2, <1>3, <1>4
  <1>7. /\ n \in Seq(Proposals) /\ Len(n) = Len(m) + 1 /\ Len(m) \in Nat
        /\ DOMAIN n = 1 .. Len(m) + 1 /\ DOMAIN m = 1 .. Len(m)
        /\ \A i \in 1 .. Len(m) : n[i] = m[i] /\ m[i] \in Proposals
        /\ n[Len(m) + 1] = p
    <2> HIDE DEF m, n
    <2>1. /\ n \in Seq(Proposals) /\ Len(n) = Len(m) + 1 /\ Len(m) \in Nat
          /\ \A i \in 1 .. Len(m) : n[i] = m[i]
          /\ n[Len(m) + 1] = p
      BY <1>6
    <2>2. DOMAIN n = 1 .. Len(m) + 1 /\ DOMAIN m = 1 .. Len(m)
      BY <1>6, <2>1
    <2>3. \A i \in 1 .. Len(m) : m[i] \in Proposals
      BY <1>6
    <2>4. QED
      BY <2>1, <2>2, <2>3
  <1>8. Range(m) = {m[i] : i \in DOMAIN m} /\ Range(n) = {n[i] : i \in DOMAIN n}
    BY DEF Range
  <1>9. CohortFits(S, f) /\ ~Member(S, p, f)
    <2>1. CohortFits(S, f) /\ MembersFit(S)
      BY <1>2 DEF Sound
    <2>2. QED
      BY <2>1, <1>2, <1>4 DEF MembersFit
  <1>10. p \notin Range(m)
    BY <1>9 DEF Member
  <1>11. \A i \in 1 .. Len(m) : m[i] # p
    BY <1>7, <1>8, <1>10
  <1>12. IsInjective(m)
    BY <1>9 DEF CohortFits
  <1>13. /\ \A i \in DOMAIN m : S.vault[m[i]] = "Settled" <=> i <= S.cohorts[f].cursor
         /\ S.cohorts[f].cursor <= Len(m)
    BY <1>9 DEF CohortFits
  <1> HIDE DEF m, n
  <1>14. IsInjective(n)
    <2> SUFFICES ASSUME NEW i \in DOMAIN n, NEW j \in DOMAIN n, n[i] = n[j]
                 PROVE  i = j
      BY DEF IsInjective
    <2>1. CASE i \in 1 .. Len(m) /\ j \in 1 .. Len(m)
      BY <2>1, <1>7, <1>12 DEF IsInjective
    <2>2. CASE ~(i \in 1 .. Len(m) /\ j \in 1 .. Len(m))
      BY <2>2, <1>7, <1>11
    <2>3. QED
      BY <2>1, <2>2
  <1>15. \A i \in DOMAIN n : T.vault[n[i]] = "Settled" <=> i <= T.cohorts[f].cursor
    <2> TAKE i \in DOMAIN n
    <2>1. S.cohorts[f].cursor \in Nat
      BY <1>3
    <2>2. CASE i \in 1 .. Len(m)
      <3>1. m[i] \in Proposals \ {p} /\ n[i] = m[i]
        BY <2>2, <1>7, <1>11
      <3>2. QED
        BY <3>1, <2>2, <1>6, <1>7, <1>13
    <2>3. CASE i = Len(m) + 1
      BY <2>3, <2>1, <1>4, <1>6, <1>7, <1>13
    <2>4. QED
      BY <2>2, <2>3, <1>7
  <1>16. \A q \in Proposals : q \in Range(n) <=> q \in Range(m) \/ q = p
    <2> TAKE q \in Proposals
    <2>1. q \in Range(n) <=> \E i \in 1 .. Len(m) + 1 : n[i] = q
      BY <1>7, <1>8
    <2>2. q \in Range(m) <=> \E i \in 1 .. Len(m) : m[i] = q
      BY <1>7, <1>8
    <2>3. QED
      BY <2>1, <2>2, <1>7
  <1>17. CohortFits(T, f)
    <2>1. T.cohorts[f].cursor <= Len(n)
      BY <1>3, <1>6, <1>7, <1>13
    <2>2. QED
      BY <2>1, <1>14, <1>15 DEF CohortFits, n
  <1>18. \A q \in Proposals : Member(T, q, f) <=> Member(S, q, f) \/ q = p
    BY <1>16 DEF Member, m, n
  <1>19. ASSUME NEW e \in Epochs \ {f}
         PROVE  CohortFits(T, e) /\ \A q \in Proposals : Member(T, q, e) <=> Member(S, q, e)
    <2>1. T.cohorts[e] = S.cohorts[e] /\ CohortFits(S, e)
      BY <1>5 DEF Sound
    <2>2. ~Member(S, p, e)
      BY <1>4 DEF Sound, MembersFit
    <2>3. S.cohorts[e].members \in Seq(Proposals)
      BY <1>3
    <2>4. \A i \in DOMAIN S.cohorts[e].members : S.cohorts[e].members[i] \in Proposals \ {p}
      BY <2>2, <2>3 DEF Member, Range
    <2>5. QED
      BY <2>1, <2>4 DEF CohortFits, Member
  <1>20. QED
    BY <1>5, <1>17, <1>18, <1>19

(* An item keeps a storage in hand sound.                                  *)
LEMMA StepSound ==
    ASSUME NEW S, Sound(S), NEW T, NEW p \in Proposals, Step(S, T, p)
    PROVE  Sound(T)
  <1>1. /\ T \in Storage(Working) /\ S \in Storage(Working)
        /\ T.clock = S.clock /\ T.recent = S.recent
        /\ S.clock.index <= now \div Length
    BY DEF Step, Sound
  <1>2. \A q \in Proposals \ {p} : T.prop[q] = S.prop[q] /\ T.vault[q] = S.vault[q]
    BY DEF Step
  <1>3. S.prop[p].state # "Measuring"
    BY DEF Step, Unmoved, Joined
  <1>4. \A e \in Epochs : CohortFits(S, e) /\ NeutralFits(S, e)
    BY DEF Sound
  <1>5. \A q \in Proposals, e \in Epochs :
           Member(S, q, e) <=> S.prop[q].state = "Measuring" /\ S.prop[q].epoch = e
    BY DEF Sound, MembersFit
  <1>6. \A q \in Proposals : VaultFits(T, q) /\ DecisionFits(T, q)
    <2> TAKE q \in Proposals
    <2>1. CASE q = p
      BY <2>1 DEF Step
    <2>2. CASE q # p
      <3>1. T.prop[q] = S.prop[q] /\ T.vault[q] = S.vault[q]
        BY <1>2, <2>2
      <3>2. VaultFits(S, q) /\ DecisionFits(S, q)
        BY DEF Sound
      <3>3. QED
        BY <3>1, <3>2 DEF VaultFits, DecisionFits
    <2>3. QED
      BY <2>1, <2>2
  <1>7. LocksFit(T)
    <2>1. LocksFit(S) /\ LocksMove(S, T, p)
      BY DEF Sound, Step
    <2>2. /\ \A q \in Proposals : T.locks \in [Resources -> Proposals \union {Nobody}]
          /\ \A q \in Proposals : T.prop[q].resources \subseteq Resources
      BY <1>1, StorageParts, RecordParts
    <2>3. ASSUME NEW q \in Proposals, T.prop[q].state \in InProgress, NEW r \in T.prop[q].resources
          PROVE  T.locks[r] = q
      <3>1. r \in Resources
        BY <2>2
      <3>2. CASE q = p
        BY <3>2, <2>1, <2>3 DEF LocksMove
      <3>3. CASE q # p
        <4>1. S.locks[r] = q
          BY <3>3, <1>2, <2>1, <2>3 DEF LocksFit
        <4>2. q \notin {Nobody, p}
          BY <3>3, ProposalsAreNaturals
        <4>3. QED
          BY <4>1, <4>2, <3>1, <2>1 DEF LocksMove
      <3>4. QED
        BY <3>2, <3>3
    <2>4. ASSUME NEW r \in Resources, T.locks[r] # Nobody
          PROVE  T.prop[T.locks[r]].state \in InProgress \union {"Measuring"}
      <3>1. T.locks[r] \in Proposals
        BY <2>2, <2>4, <1>1, StorageParts
      <3>2. CASE T.locks[r] = p
        BY <3>2, <2>1 DEF LocksMove
      <3>3. CASE T.locks[r] # p
        <4>1. T.locks[r] = S.locks[r]
          BY <3>3, <2>1, <2>4 DEF LocksMove
        <4>2. S.prop[S.locks[r]].state \in InProgress \union {"Measuring"}
          BY <4>1, <2>1, <2>4 DEF LocksFit
        <4>3. QED
          BY <4>1, <4>2, <3>1, <3>3, <1>2
      <3>4. QED
        BY <3>2, <3>3
    <2>5. QED
      BY <2>3, <2>4 DEF LocksFit
  <1>8. (\A e \in Epochs : CohortFits(T, e)) /\ MembersFit(T)
    <2>1. CASE Unmoved(S, T, p)
      <3>1. T.cohorts = S.cohorts /\ T.prop[p].state # "Measuring"
        BY <2>1 DEF Unmoved
      <3>2. \A q \in Proposals, e \in Epochs : Member(T, q, e) <=> Member(S, q, e)
        BY <3>1 DEF Member
      <3>3. MembersFit(T)
        <4> SUFFICES ASSUME NEW q \in Proposals, NEW e \in Epochs
                     PROVE  Member(T, q, e) <=> T.prop[q].state = "Measuring" /\ T.prop[q].epoch = e
          BY DEF MembersFit
        <4>1. CASE q = p
          BY <4>1, <3>1, <3>2, <1>3, <1>5
        <4>2. CASE q # p
          BY <4>2, <3>2, <1>2, <1>5
        <4>3. QED
          BY <4>1, <4>2
      <3>4. ASSUME NEW e \in Epochs
            PROVE  CohortFits(T, e)
        <4>1. S.cohorts[e].members \in Seq(Proposals)
          BY <1>1, StorageParts
        <4>2. \A i \in DOMAIN S.cohorts[e].members : S.cohorts[e].members[i] \in Proposals \ {p}
          BY <4>1, <1>3, <1>5 DEF Member, Range
        <4>3. CohortFits(S, e)
          BY <1>4
        <4>4. QED
          BY <4>2, <4>3, <3>1, <1>2 DEF CohortFits
      <3>5. QED
        BY <3>3, <3>4
    <2>2. CASE Joined(S, T, p)
      <3>1. T.prop[p].state = "Measuring" /\ T.prop[p].epoch = S.prop[p].epoch
        BY <2>2 DEF Joined
      <3>2. /\ \A e \in Epochs : CohortFits(T, e)
            /\ \A q \in Proposals, e \in Epochs :
                 Member(T, q, e) <=> Member(S, q, e) \/ (q = p /\ e = S.prop[p].epoch)
        BY <2>2, <1>1, <1>2, JoinedCohort
      <3>3. MembersFit(T)
        <4> SUFFICES ASSUME NEW q \in Proposals, NEW e \in Epochs
                     PROVE  Member(T, q, e) <=> T.prop[q].state = "Measuring" /\ T.prop[q].epoch = e
          BY DEF MembersFit
        <4>1. CASE q = p
          BY <4>1, <3>1, <3>2, <1>3, <1>5
        <4>2. CASE q # p
          BY <4>2, <3>2, <1>2, <1>5
        <4>3. QED
          BY <4>1, <4>2
      <3>4. QED
        BY <3>2, <3>3
    <2>3. QED
      BY <2>1, <2>2 DEF Step
  <1>9. \A e \in Epochs : NeutralFits(T, e)
    <2> SUFFICES ASSUME NEW e \in Epochs, T.baseline[e] = "Neutral"
                 PROVE  /\ T.cohorts[e] = NoCohort
                        /\ \A q \in Proposals :
                             T.prop[q].epoch = e => T.prop[q].state \notin InProgress \union {"Measuring"}
                        /\ \/ T.recent[e] = "Voided"
                           \/ /\ e < T.clock.index
                              /\ \A q \in Proposals : T.prop[q].epoch = e => T.prop[q].state # "Submitted"
      BY DEF NeutralFits
    <2>1. EpochMoves(S, T, p)
      BY DEF Step
    <2>2. S.baseline[e] = "Neutral"
      BY <2>1 DEF EpochMoves
    <2>3. /\ S.cohorts[e] = NoCohort
          /\ \A q \in Proposals :
               S.prop[q].epoch = e => S.prop[q].state \notin InProgress \union {"Measuring"}
          /\ \/ S.recent[e] = "Voided"
             \/ /\ e < S.clock.index
                /\ \A q \in Proposals : S.prop[q].epoch = e => S.prop[q].state # "Submitted"
      BY <2>2, <1>4 DEF NeutralFits
    <2>4. T.prop[p].epoch = e => T.prop[p].state \notin InProgress \union {"Measuring"}
      BY <2>1, <2>2 DEF EpochMoves
    <2>5. T.cohorts[e] = NoCohort
      <3>1. CASE Unmoved(S, T, p)
        BY <3>1, <2>3 DEF Unmoved
      <3>2. CASE Joined(S, T, p)
        <4>1. T.prop[p].state = "Measuring" /\ T.prop[p].epoch = S.prop[p].epoch
          BY <3>2 DEF Joined
        <4>2. e # S.prop[p].epoch
          BY <4>1, <2>4
        <4>3. T.cohorts[e] = S.cohorts[e]
          BY <4>2, <3>2, <1>1, <1>2, JoinedCohort
        <4>4. QED
          BY <4>3, <2>3
      <3>3. QED
        BY <3>1, <3>2 DEF Step
    <2>6. \A q \in Proposals :
            T.prop[q].epoch = e => T.prop[q].state \notin InProgress \union {"Measuring"}
      BY <1>2, <2>3, <2>4
    <2>7. CASE S.recent[e] = "Voided"
      BY <2>5, <2>6, <2>7, <1>1
    <2>8. CASE e < S.clock.index /\ \A q \in Proposals : S.prop[q].epoch = e => S.prop[q].state # "Submitted"
      <3>1. S.clock.index \in Nat /\ e \in Nat
        BY <1>1, StorageParts, EpochsAreNaturals
      <3>2. T.prop[p].epoch = e => T.prop[p].state # "Submitted"
        BY <2>1, <2>8, <3>1 DEF EpochMoves
      <3>3. \A q \in Proposals : T.prop[q].epoch = e => T.prop[q].state # "Submitted"
        BY <3>2, <2>8, <1>2
      <3>4. QED
        BY <3>3, <2>5, <2>6, <2>8, <1>1
    <2>9. QED
      BY <2>3, <2>7, <2>8
  <1>10. QED
    BY <1>1, <1>6, <1>7, <1>8, <1>9 DEF Sound

----------------------------------------------------------------------------
(* The steps of the engine, item by item.                                  *)

(* Stale marks, the funded slate, the frozen schedules and the phase play  *)
(* no part in soundness, and the stored epoch may catch up with the block. *)
LEMMA IdleSound ==
    ASSUME NEW S, Sound(S), NEW T, T \in Storage(Working),
           T.prop = S.prop, T.vault = S.vault, T.locks = S.locks, T.cohorts = S.cohorts,
           T.recent = S.recent, T.baseline = S.baseline,
           S.clock.index <= T.clock.index, T.clock.index <= now \div Length
    PROVE  Sound(T)
  <1>1. \A p \in Proposals : VaultFits(T, p) /\ DecisionFits(T, p)
    BY DEF Sound, VaultFits, DecisionFits
  <1>2. LocksFit(T)
    BY DEF Sound, LocksFit
  <1>3. MembersFit(T)
    BY DEF Sound, MembersFit, Member
  <1>4. \A e \in Epochs : CohortFits(T, e)
    BY DEF Sound, CohortFits
  <1>5. \A e \in Epochs : NeutralFits(T, e)
    <2> TAKE e \in Epochs
    <2>1. S.clock.index \in Nat /\ T.clock.index \in Nat /\ e \in Nat
      BY StorageParts, EpochsAreNaturals DEF Sound
    <2>2. NeutralFits(S, e)
      BY DEF Sound
    <2>3. e < S.clock.index => e < T.clock.index
      BY <2>1
    <2>4. QED
      BY <2>2, <2>3 DEF NeutralFits
  <1>6. QED
    BY <1>1, <1>2, <1>3, <1>4, <1>5 DEF Sound

(* A storage with a new record.                                            *)
Put(S, p, r) == [S EXCEPT !.prop[p] = r]

LEMMA PutParts ==
    ASSUME NEW S, S \in Storage(Working), NEW p \in Proposals, NEW r \in Records(Working)
    PROVE  /\ Put(S, p, r) \in Storage(Working)
           /\ Put(S, p, r).clock = S.clock /\ Put(S, p, r).recent = S.recent
           /\ Put(S, p, r).baseline = S.baseline /\ Put(S, p, r).vault = S.vault
           /\ Put(S, p, r).locks = S.locks /\ Put(S, p, r).cohorts = S.cohorts
           /\ Put(S, p, r).stale = S.stale /\ Put(S, p, r).funded = S.funded
           /\ Put(S, p, r).prop[p] = r
           /\ \A q \in Proposals \ {p} : Put(S, p, r).prop[q] = S.prop[q]
  <1> DEFINE T == Put(S, p, r)
  <1>1. S.prop \in [Proposals -> Records(Working)]
    BY StorageParts
  <1>2. /\ T.clock = S.clock /\ T.recent = S.recent /\ T.baseline = S.baseline
        /\ T.vault = S.vault /\ T.locks = S.locks /\ T.cohorts = S.cohorts
        /\ T.stale = S.stale /\ T.funded = S.funded
        /\ T.prop = [S.prop EXCEPT ![p] = r]
    BY DEF Storage, Put
  <1>3. T \in Storage(Working)
    BY <1>1 DEF Storage, Put
  <1>4. QED
    BY <1>1, <1>2, <1>3

(* A new record for a proposal that is not measured, before or after; the  *)
(* vault and the locks follow from where it came.                          *)
LEMMA RecordSound ==
    ASSUME NEW S, Sound(S), NEW p \in Proposals, NEW r \in Records(Working),
           S.prop[p].state # "Measuring", r.state # "Measuring",
           r.state \in MarketBearing <=> S.prop[p].state \in MarketBearing,
           S.vault[p] \in {"Voided", "Settled"} => r.state \in Ended,
           r.state \in {"Absent", "Submitted", "Rerun"} \union Undecided => r.decision = "None",
           r.state \in Adopted => r.decision = "Adopt",
           r.state \in InProgress => \A x \in r.resources : S.locks[x] = p,
           r.state \notin InProgress => S.prop[p].state \notin InProgress,
           r.state \in InProgress => S.baseline[r.epoch] # "Neutral",
           r.state = "Submitted" => \/ r.epoch >= S.clock.index
                                    \/ S.prop[p].state = "Submitted" /\ r.epoch = S.prop[p].epoch
    PROVE  Sound(Put(S, p, r))
  <1> DEFINE T == Put(S, p, r)
  <1>1. S \in Storage(Working)
    BY DEF Sound
  <1>2. /\ T \in Storage(Working)
        /\ T.clock = S.clock /\ T.recent = S.recent /\ T.baseline = S.baseline
        /\ T.vault = S.vault /\ T.locks = S.locks /\ T.cohorts = S.cohorts
        /\ T.prop[p] = r
        /\ \A q \in Proposals \ {p} : T.prop[q] = S.prop[q]
    BY <1>1, PutParts
  <1> HIDE DEF T
  <1>3. VaultFits(S, p) /\ LocksFit(S)
    BY DEF Sound
  <1>4. VaultFits(T, p) /\ DecisionFits(T, p)
    <2>1. VaultFits(T, p)
      BY <1>2, <1>3 DEF VaultFits
    <2>2. DecisionFits(T, p)
      BY <1>2 DEF DecisionFits
    <2>3. QED
      BY <2>1, <2>2
  <1>5. Unmoved(S, T, p)
    BY <1>2 DEF Unmoved
  <1>6. LocksMove(S, T, p)
    <2>1. r.state \notin InProgress => \A x \in Resources : S.locks[x] # p
      BY <1>3, ProposalsAreNaturals DEF LocksFit
    <2>2. QED
      BY <2>1, <1>2 DEF LocksMove
  <1>7. EpochMoves(S, T, p)
    BY <1>2 DEF EpochMoves
  <1>8. Step(S, T, p)
    BY <1>2, <1>4, <1>5, <1>6, <1>7 DEF Step
  <1>9. QED
    BY <1>8, StepSound DEF T

(* While its books stand a proposal may change its state, as long as its   *)
(* epoch and its resources stay and the decision fits.                     *)
LEMMA ContinuesSound ==
    ASSUME NEW S, Sound(S), NEW p \in Proposals, NEW r \in Records(Working),
           S.prop[p].state \in MarketBearing, r.state \in MarketBearing,
           r.epoch = S.prop[p].epoch, r.resources = S.prop[p].resources,
           r.state \in {"Trading", "Extended", "Rerun"} => r.decision = "None",
           r.state \in Adopted => r.decision = "Adopt"
    PROVE  Sound(Put(S, p, r))
  <1>1. VaultFits(S, p) /\ LocksFit(S) /\ NeutralFits(S, S.prop[p].epoch)
    BY RecordParts DEF Sound
  <1>2. S.vault[p] = "Open"
    BY <1>1 DEF VaultFits
  <1>3. S.prop[p].state \in InProgress /\ r.state \in InProgress
    BY DEF InProgress
  <1>4. \A x \in r.resources : S.locks[x] = p
    BY <1>1, <1>3 DEF LocksFit
  <1>5. S.baseline[r.epoch] # "Neutral"
    BY <1>1, <1>3 DEF NeutralFits
  <1>6. /\ S.prop[p].state # "Measuring" /\ r.state # "Measuring" /\ r.state # "Submitted"
        /\ r.state \in {"Absent", "Submitted", "Rerun"} \union Undecided =>
             r.state \in {"Trading", "Extended", "Rerun"}
    BY DEF MarketBearing, Adopted, Undecided
  <1>7. S.vault[p] \notin {"Voided", "Settled"}
    BY <1>2
  <1>8. QED
    BY <1>3, <1>4, <1>5, <1>6, <1>7, RecordSound

(* A storage with a new vault.                                             *)
VaultPut(S, p, v) == [S EXCEPT !.vault[p] = v]

LEMMA VaultPutParts ==
    ASSUME NEW S, S \in Storage(Working), NEW p \in Proposals,
           NEW v \in Vaults
    PROVE  /\ VaultPut(S, p, v) \in Storage(Working)
           /\ VaultPut(S, p, v).clock = S.clock /\ VaultPut(S, p, v).recent = S.recent
           /\ VaultPut(S, p, v).baseline = S.baseline /\ VaultPut(S, p, v).prop = S.prop
           /\ VaultPut(S, p, v).locks = S.locks /\ VaultPut(S, p, v).cohorts = S.cohorts
           /\ VaultPut(S, p, v).stale = S.stale /\ VaultPut(S, p, v).funded = S.funded
           /\ VaultPut(S, p, v).vault[p] = v
           /\ \A q \in Proposals \ {p} : VaultPut(S, p, v).vault[q] = S.vault[q]
  <1> DEFINE T == VaultPut(S, p, v)
  <1>1. S.vault \in [Proposals -> Vaults]
    BY StorageParts
  <1>2. /\ T.clock = S.clock /\ T.recent = S.recent /\ T.baseline = S.baseline
        /\ T.prop = S.prop /\ T.locks = S.locks /\ T.cohorts = S.cohorts
        /\ T.stale = S.stale /\ T.funded = S.funded
        /\ T.vault = [S.vault EXCEPT ![p] = v]
    BY DEF Storage, VaultPut
  <1>3. T \in Storage(Working)
    BY <1>1 DEF Storage, VaultPut, Vaults
  <1>4. QED
    BY <1>1, <1>2, <1>3

LEMMA ReleaseParts ==
    ASSUME NEW S, S \in Storage(Working), NEW p \in Proposals
    PROVE  /\ Release(S, p) \in Storage(Working)
           /\ Release(S, p).clock = S.clock /\ Release(S, p).recent = S.recent
           /\ Release(S, p).baseline = S.baseline /\ Release(S, p).prop = S.prop
           /\ Release(S, p).vault = S.vault /\ Release(S, p).cohorts = S.cohorts
           /\ Release(S, p).stale = S.stale /\ Release(S, p).funded = S.funded
           /\ \A x \in Resources :
                Release(S, p).locks[x] = IF S.locks[x] = p THEN Nobody ELSE S.locks[x]
  <1> DEFINE T == Release(S, p)
  <1>1. S.locks \in [Resources -> Proposals \union {Nobody}]
    BY StorageParts
  <1>2. /\ T.clock = S.clock /\ T.recent = S.recent /\ T.baseline = S.baseline
        /\ T.prop = S.prop /\ T.vault = S.vault /\ T.cohorts = S.cohorts
        /\ T.stale = S.stale /\ T.funded = S.funded
        /\ T.locks = [x \in Resources |-> IF S.locks[x] = p THEN Nobody ELSE S.locks[x]]
    BY DEF Storage, Release
  <1>3. T.locks \in [Resources -> Proposals \union {Nobody}]
    BY <1>1, <1>2
  <1>4. T \in Storage(Working)
    BY <1>2, <1>3 DEF Storage, Release
  <1>5. QED
    BY <1>2, <1>4

LEMMA ClearStaleParts ==
    ASSUME NEW S, S \in Storage(Working)
    PROVE  /\ MaybeClearStale(S) \in Storage(Working)
           /\ MaybeClearStale(S).clock = S.clock /\ MaybeClearStale(S).recent = S.recent
           /\ MaybeClearStale(S).baseline = S.baseline /\ MaybeClearStale(S).prop = S.prop
           /\ MaybeClearStale(S).vault = S.vault /\ MaybeClearStale(S).cohorts = S.cohorts
           /\ MaybeClearStale(S).locks = S.locks /\ MaybeClearStale(S).funded = S.funded
           /\ MaybeClearStale(S).stale =
                IF \E p \in S.stale : S.prop[p].state \in ForceRejectable THEN S.stale ELSE {}
  <1>1. CASE \E p \in S.stale : S.prop[p].state \in ForceRejectable
    BY <1>1 DEF MaybeClearStale
  <1>2. CASE ~ \E p \in S.stale : S.prop[p].state \in ForceRejectable
    <2>1. MaybeClearStale(S) = [S EXCEPT !.stale = {}]
      BY <1>2 DEF MaybeClearStale
    <2>2. QED
      BY <1>2, <2>1 DEF Storage
  <1>3. QED
    BY <1>1, <1>2

LEMMA ClearStaleSound ==
    ASSUME NEW S, Sound(S)
    PROVE  Sound(MaybeClearStale(S))
  <1>1. S \in Storage(Working) /\ S.clock.index <= now \div Length
    BY DEF Sound
  <1>2. S.clock.index \in Nat
    BY <1>1, StorageParts, EpochsAreNaturals
  <1>3. S.clock.index <= S.clock.index
    BY <1>2
  <1>4. QED
    BY <1>1, <1>3, ClearStaleParts, IdleSound

(* Who is out of the machine, or measured, needs no lock.                  *)
LEMMA ReleaseSound ==
    ASSUME NEW S, Sound(S), NEW p \in Proposals, S.prop[p].state \notin InProgress
    PROVE  Sound(Release(S, p))
  <1> DEFINE T == Release(S, p)
  <1>1. S \in Storage(Working)
    BY DEF Sound
  <1>2. /\ T \in Storage(Working)
        /\ T.clock = S.clock /\ T.recent = S.recent /\ T.baseline = S.baseline
        /\ T.prop = S.prop /\ T.vault = S.vault /\ T.cohorts = S.cohorts
        /\ \A x \in Resources : T.locks[x] = IF S.locks[x] = p THEN Nobody ELSE S.locks[x]
    BY <1>1, ReleaseParts
  <1> HIDE DEF T
  <1>3. \A q \in Proposals : VaultFits(T, q) /\ DecisionFits(T, q)
    BY <1>2 DEF Sound, VaultFits, DecisionFits
  <1>4. LocksFit(T)
    <2>1. LocksFit(S)
      BY DEF Sound
    <2>2. ASSUME NEW q \in Proposals, T.prop[q].state \in InProgress, NEW x \in T.prop[q].resources
          PROVE  T.locks[x] = q
      <3>1. q # p /\ x \in Resources
        BY <1>1, <1>2, <2>2, RecordParts
      <3>2. S.locks[x] = q
        BY <1>2, <2>1, <2>2 DEF LocksFit
      <3>3. QED
        BY <3>1, <3>2, <1>2
    <2>3. ASSUME NEW x \in Resources, T.locks[x] # Nobody
          PROVE  T.prop[T.locks[x]].state \in InProgress \union {"Measuring"}
      <3>1. T.locks[x] = S.locks[x]
        BY <1>2, <2>3
      <3>2. QED
        BY <3>1, <1>2, <2>1, <2>3 DEF LocksFit
    <2>4. QED
      BY <2>2, <2>3 DEF LocksFit
  <1>5. MembersFit(T)
    BY <1>2 DEF Sound, MembersFit, Member
  <1>6. \A e \in Epochs : CohortFits(T, e) /\ NeutralFits(T, e)
    BY <1>2 DEF Sound, CohortFits, NeutralFits
  <1>7. QED
    BY <1>2, <1>3, <1>4, <1>5, <1>6 DEF Sound, T

LEMMA EntersParts ==
    ASSUME NEW r \in Records(Working), NEW s \in Working
    PROVE  /\ Enters(r, s) \in Records(Working)
           /\ Enters(r, s).state = s /\ Enters(r, s).epoch = r.epoch
           /\ Enters(r, s).resources = r.resources /\ Enters(r, s).decision = r.decision
  BY DEF Enters, Records

LEMMA WorkingStates ==
    /\ InProgress \subseteq Working /\ Terminal \subseteq Working /\ Stored \subseteq Working
    /\ {"Measuring", "Submitted", "Absent", "Gone"} \subseteq Working
    /\ "Measuring" \notin ForceRejectable /\ "Submitted" \notin InProgress
    /\ InProgress \subseteq ForceRejectable
    /\ MarketBearing \subseteq InProgress
    /\ Terminal \intersect (ForceRejectable \union {"Measuring"}) = {}
  BY DEF Working, States, Stored, Terminal, ForceRejectable, InProgress, MarketBearing, Adopted

(* The storage before the stale mark is looked at.                         *)
Rejected(S, p) == Release(Put(S, p, Enters(S.prop[p], "Rejected")), p)

(* A rejection voids the vault if there is one, and lets go of the locks.  *)
LEMMA RejectedSound ==
    ASSUME NEW S, Sound(S), NEW p \in Proposals, S.prop[p].state \in ForceRejectable,
           NEW T, T = IF S.prop[p].state \in MarketBearing THEN VaultPut(S, p, "Voided") ELSE S
    PROVE  Sound(Rejected(T, p)) /\ Rejected(T, p).prop[p].state = "Rejected"
  <1>1. /\ S \in Storage(Working)
        /\ VaultFits(S, p) /\ LocksFit(S)
    BY DEF Sound
  <1>2. /\ T \in Storage(Working)
        /\ T.clock = S.clock /\ T.recent = S.recent /\ T.baseline = S.baseline
        /\ T.prop = S.prop /\ T.locks = S.locks /\ T.cohorts = S.cohorts
        /\ T.vault[p] = IF S.prop[p].state \in MarketBearing THEN "Voided" ELSE S.vault[p]
        /\ \A q \in Proposals \ {p} : T.vault[q] = S.vault[q]
    <2>1. CASE S.prop[p].state \in MarketBearing
      <3>1. T = VaultPut(S, p, "Voided")
        BY <2>1
      <3>2. "Voided" \in Vaults
        BY DEF Vaults
      <3>3. /\ T \in Storage(Working)
            /\ T.clock = S.clock /\ T.recent = S.recent /\ T.baseline = S.baseline
            /\ T.prop = S.prop /\ T.locks = S.locks /\ T.cohorts = S.cohorts
            /\ T.vault[p] = "Voided"
            /\ \A q \in Proposals \ {p} : T.vault[q] = S.vault[q]
        BY <3>1, <3>2, <1>1, VaultPutParts
      <3>4. QED
        BY <3>3, <2>1
    <2>2. CASE S.prop[p].state \notin MarketBearing
      BY <2>2, <1>1
    <2>3. QED
      BY <2>1, <2>2
  <1> DEFINE r == Enters(T.prop[p], "Rejected")
             U == Put(T, p, r)
             V == Release(U, p)
  <1>3. "Rejected" \in Working
    BY DEF Working, Terminal
  <1>4. r \in Records(Working) /\ r.state = "Rejected"
    BY <1>2, <1>3, RecordParts, EntersParts
  <1> HIDE DEF r
  <1>5. /\ U \in Storage(Working)
        /\ U.clock = S.clock /\ U.recent = S.recent /\ U.baseline = S.baseline
        /\ U.vault = T.vault /\ U.locks = S.locks /\ U.cohorts = S.cohorts
        /\ U.prop[p] = r
        /\ \A q \in Proposals \ {p} : U.prop[q] = S.prop[q]
    BY <1>2, <1>4, PutParts
  <1> HIDE DEF U
  <1>6. /\ V \in Storage(Working)
        /\ V.clock = S.clock /\ V.recent = S.recent /\ V.baseline = S.baseline
        /\ V.vault = T.vault /\ V.cohorts = S.cohorts
        /\ V.prop[p] = r
        /\ \A q \in Proposals \ {p} : V.prop[q] = S.prop[q]
        /\ \A x \in Resources : V.locks[x] = IF S.locks[x] = p THEN Nobody ELSE S.locks[x]
    BY <1>5, ReleaseParts
  <1> HIDE DEF V
  <1>7. VaultFits(V, p)
    <2>1. V.prop[p].state = "Rejected" /\ V.vault[p] = T.vault[p]
      BY <1>4, <1>6
    <2>2. V.prop[p].state \in Ended \ (MarketBearing \union {"Measuring"})
      BY <2>1 DEF Ended, Terminal, MarketBearing, Adopted
    <2>3. V.vault[p] \notin {"Open", "Accept", "Reject"}
      <3>1. CASE S.prop[p].state \in MarketBearing
        BY <3>1, <2>1, <1>2
      <3>2. CASE S.prop[p].state \notin MarketBearing
        <4>1. V.vault[p] = S.vault[p] /\ S.prop[p].state # "Measuring"
          BY <3>2, <2>1, <1>2, WorkingStates
        <4>2. QED
          BY <4>1, <3>2, <1>1 DEF VaultFits
      <3>3. QED
        BY <3>1, <3>2
    <2>4. QED
      BY <2>2, <2>3 DEF VaultFits
  <1>8. DecisionFits(V, p)
    BY <1>4, <1>6 DEF DecisionFits, Undecided, Adopted
  <1>9. Unmoved(S, V, p)
    BY <1>4, <1>6, WorkingStates DEF Unmoved
  <1>10. r.state \notin InProgress \union {"Measuring", "Submitted"}
    BY <1>4 DEF InProgress, MarketBearing, Adopted
  <1>11. LocksMove(S, V, p)
    BY <1>6, <1>10, ProposalsAreNaturals DEF LocksMove
  <1>12. EpochMoves(S, V, p)
    BY <1>6, <1>10 DEF EpochMoves
  <1>13. Step(S, V, p)
    <2>1. \A q \in Proposals \ {p} : V.prop[q] = S.prop[q] /\ V.vault[q] = S.vault[q]
      BY <1>2, <1>6
    <2>2. QED
      BY <2>1, <1>6, <1>7, <1>8, <1>9, <1>11, <1>12 DEF Step
  <1>14. V = Rejected(T, p)
    BY DEF V, U, r, Rejected
  <1>15. QED
    BY <1>4, <1>6, <1>13, <1>14, StepSound

LEMMA ForceRejectSound ==
    ASSUME NEW S, Sound(S), NEW p \in Proposals, NEW T \in ForceReject(S, p)
    PROVE  Sound(T) /\ (S.prop[p].state \in ForceRejectable => T.prop[p].state = "Rejected")
  <1>1. CASE S.prop[p].state \notin ForceRejectable
    BY <1>1 DEF ForceReject
  <1>2. CASE S.prop[p].state \in ForceRejectable
    <2>1. PICK U \in (IF HasMarkets(S, p) THEN VoidVault(S, p) ELSE {S}) :
            T = MaybeClearStale(Rejected(U, p))
      BY <1>2 DEF ForceReject, Rejected, Put
    <2>2. HasMarkets(S, p) <=> S.prop[p].state \in MarketBearing
      BY <1>2, WorkingStates DEF HasMarkets
    <2>3. U = IF S.prop[p].state \in MarketBearing THEN VaultPut(S, p, "Voided") ELSE S
      BY <2>1, <2>2 DEF VoidVault, VaultPut
    <2>4. Sound(Rejected(U, p)) /\ Rejected(U, p).prop[p].state = "Rejected"
      BY <1>2, <2>3, RejectedSound
    <2>5. MaybeClearStale(Rejected(U, p)).prop = Rejected(U, p).prop
      BY <2>4, ClearStaleParts DEF Sound
    <2>6. QED
      BY <2>1, <2>4, <2>5, ClearStaleSound
  <1>3. QED
    BY <1>1, <1>2

(* The measurement of a proposal: the cohort of its epoch grows by it.     *)
LEMMA MeasureParts ==
    ASSUME NEW S, S \in Storage(Working), NEW p \in Proposals, NEW T \in Measure(S, p)
    PROVE  /\ T \in Storage(Working)
           /\ T.clock = S.clock /\ T.recent = S.recent /\ T.baseline = S.baseline
           /\ T.vault = S.vault /\ T.locks = S.locks /\ T.stale = S.stale
           /\ T.prop[p] = Enters(S.prop[p], "Measuring")
           /\ \A q \in Proposals \ {p} : T.prop[q] = S.prop[q]
           /\ T.cohorts = Joining(S, p)
  <1> DEFINE e == S.prop[p].epoch
             c == [S.cohorts EXCEPT ![e].members = Append(@, p)]
             r == Enters(S.prop[p], "Measuring")
  <1>1. /\ e \in Epochs /\ S.prop[p] \in Records(Working)
        /\ S.prop \in [Proposals -> Records(Working)]
        /\ S.cohorts \in [Epochs -> [members : Seq(Proposals), cursor : Nat]]
    BY StorageParts, RecordParts
  <1>2. T = [S EXCEPT !.cohorts[e].members = Append(@, p), !.prop[p] = r]
    BY DEF Measure
  <1>3. T = [S EXCEPT !.cohorts = c, !.prop = [S.prop EXCEPT ![p] = r]]
    BY <1>1, <1>2 DEF Storage
  <1>4. r \in Records(Working)
    BY <1>1, WorkingStates, EntersParts
  <1>5. c \in [Epochs -> [members : Seq(Proposals), cursor : Nat]]
    <2>1. Append(S.cohorts[e].members, p) \in Seq(Proposals)
      BY <1>1
    <2>2. [S.cohorts[e] EXCEPT !.members = Append(S.cohorts[e].members, p)]
             \in [members : Seq(Proposals), cursor : Nat]
      BY <1>1, <2>1
    <2>3. QED
      BY <1>1, <2>2
  <1> HIDE DEF c, r
  <1>6. /\ T.clock = S.clock /\ T.recent = S.recent /\ T.baseline = S.baseline
        /\ T.vault = S.vault /\ T.locks = S.locks /\ T.stale = S.stale
        /\ T.cohorts = c /\ T.prop = [S.prop EXCEPT ![p] = r]
    BY <1>3 DEF Storage
  <1>7. T.prop \in [Proposals -> Records(Working)]
    BY <1>1, <1>4, <1>6
  <1>8. T \in Storage(Working)
    BY <1>3, <1>5, <1>6, <1>7 DEF Storage
  <1>9. T.prop[p] = r /\ \A q \in Proposals \ {p} : T.prop[q] = S.prop[q]
    BY <1>1, <1>6
  <1>10. QED
    BY <1>6, <1>8, <1>9 DEF c, r, Joining

(* The vault is resolved and the proposal measured on that branch.         *)
LEMMA ResolvedAndMeasuredSound ==
    ASSUME NEW S, Sound(S), NEW p \in Proposals, NEW b \in {"Accept", "Reject"},
           b = "Accept" => S.prop[p].state \in Adopted,
           NEW U \in ResolveVault(S, p, b), NEW T \in Measure(U, p)
    PROVE  Sound(T) /\ T.prop[p].state = "Measuring" /\ T.vault[p] = b
  <1>1. /\ S \in Storage(Working)
        /\ VaultFits(S, p) /\ DecisionFits(S, p) /\ LocksFit(S) /\ NeutralFits(S, S.prop[p].epoch)
    BY RecordParts DEF Sound
  <1>2. S.vault[p] = "Open" /\ U = VaultPut(S, p, b)
    BY DEF ResolveVault, VaultPut
  <1>3. S.prop[p].state \in MarketBearing
    BY <1>1, <1>2 DEF VaultFits
  <1>4. /\ U \in Storage(Working)
        /\ U.clock = S.clock /\ U.recent = S.recent /\ U.baseline = S.baseline
        /\ U.prop = S.prop /\ U.locks = S.locks /\ U.cohorts = S.cohorts
        /\ U.vault[p] = b
        /\ \A q \in Proposals \ {p} : U.vault[q] = S.vault[q]
    <2>1. b \in Vaults
      BY DEF Vaults
    <2>2. QED
      BY <2>1, <1>1, <1>2, VaultPutParts
  <1>5. /\ T \in Storage(Working)
        /\ T.clock = S.clock /\ T.recent = S.recent /\ T.baseline = S.baseline
        /\ T.vault = U.vault /\ T.locks = S.locks
        /\ T.prop[p] = Enters(S.prop[p], "Measuring")
        /\ \A q \in Proposals \ {p} : T.prop[q] = S.prop[q]
        /\ T.cohorts = Joining(S, p)
    <2>1. /\ T \in Storage(Working)
          /\ T.clock = U.clock /\ T.recent = U.recent /\ T.baseline = U.baseline
          /\ T.vault = U.vault /\ T.locks = U.locks
          /\ T.prop[p] = Enters(U.prop[p], "Measuring")
          /\ \A q \in Proposals \ {p} : T.prop[q] = U.prop[q]
          /\ T.cohorts = Joining(U, p)
      BY <1>4, MeasureParts
    <2>2. Joining(U, p) = Joining(S, p)
      BY <1>4 DEF Joining
    <2>3. QED
      BY <2>1, <2>2, <1>4
  <1>6. /\ T.prop[p].state = "Measuring" /\ T.prop[p].epoch = S.prop[p].epoch
        /\ T.prop[p].decision = S.prop[p].decision
    BY <1>1, <1>5, RecordParts, EntersParts, WorkingStates
  <1>7. T.vault[p] = b
    BY <1>4, <1>5
  <1>8. "Measuring" \notin MarketBearing \union Adopted \union Undecided \union {"Rerun"}
    BY DEF MarketBearing, Adopted, Undecided
  <1>9. VaultFits(T, p)
    BY <1>6, <1>7, <1>8 DEF VaultFits
  <1>10. DecisionFits(T, p)
    <2>1. b = "Accept" => S.prop[p].decision = "Adopt"
      BY <1>1 DEF DecisionFits
    <2>2. QED
      BY <2>1, <1>6, <1>7, <1>8 DEF DecisionFits
  <1>11. S.prop[p].state \in InProgress /\ S.prop[p].state # "Measuring"
    BY <1>3, <1>8, WorkingStates
  <1>12. Joined(S, T, p)
    BY <1>5, <1>6, <1>7, <1>11 DEF Joined
  <1>13. T.prop[p].state \notin InProgress
    BY <1>6, WorkingStates
  <1>14. LocksMove(S, T, p)
    BY <1>5, <1>6, <1>13 DEF LocksMove
  <1>15. EpochMoves(S, T, p)
    <2>1. S.baseline[S.prop[p].epoch] # "Neutral"
      BY <1>1, <1>11 DEF NeutralFits
    <2>2. QED
      BY <2>1, <1>5, <1>6 DEF EpochMoves
  <1>16. Step(S, T, p)
    <2>1. \A q \in Proposals \ {p} : T.prop[q] = S.prop[q] /\ T.vault[q] = S.vault[q]
      BY <1>4, <1>5
    <2>2. QED
      BY <2>1, <1>5, <1>9, <1>10, <1>12, <1>14, <1>15 DEF Step
  <1>17. QED
    BY <1>6, <1>7, <1>16, StepSound

LEMMA ToMeasurementSound ==
    ASSUME NEW S, Sound(S), NEW p \in Proposals, NEW b \in {"Accept", "Reject"},
           S.prop[p].state \in MarketBearing,
           b = "Accept" => S.prop[p].state \in Adopted,
           NEW T \in ToMeasurement(S, p, b)
    PROVE  /\ Sound(T)
           /\ \/ T.prop[p].state = "Rejected"
              \/ T.prop[p].state = "Measuring" /\ T.vault[p] = b
  <1>1. CASE Voided(S, S.prop[p].epoch)
    <2>1. T \in ForceReject(S, p)
      BY <1>1 DEF ToMeasurement
    <2>2. S.prop[p].state \in ForceRejectable
      BY WorkingStates
    <2>3. QED
      BY <2>1, <2>2, ForceRejectSound
  <1>2. CASE ~Voided(S, S.prop[p].epoch)
    <2>1. PICK U \in ResolveVault(S, p, b) : T \in Measure(U, p)
      BY <1>2 DEF ToMeasurement
    <2>2. QED
      BY <2>1, ResolvedAndMeasuredSound
  <1>3. QED
    BY <1>1, <1>2

(* A verdict is written down for a proposal that is out or measured.       *)
LEMMA VerdictSound ==
    ASSUME NEW S, Sound(S), NEW p \in Proposals,
           \/ S.prop[p].state = "Rejected"
           \/ S.prop[p].state = "Measuring" /\ S.vault[p] = "Reject",
           NEW r \in Records(Working), r.state = S.prop[p].state,
           r.epoch = S.prop[p].epoch, r.resources = S.prop[p].resources
    PROVE  Sound(Put(S, p, r))
  <1> DEFINE T == Put(S, p, r)
  <1>1. S \in Storage(Working) /\ S.prop[p] \in Records(Working)
    BY RecordParts DEF Sound
  <1>2. /\ T \in Storage(Working)
        /\ T.clock = S.clock /\ T.recent = S.recent /\ T.baseline = S.baseline
        /\ T.vault = S.vault /\ T.locks = S.locks /\ T.cohorts = S.cohorts
        /\ T.prop[p] = r
        /\ \A q \in Proposals \ {p} : T.prop[q] = S.prop[q]
    BY <1>1, PutParts
  <1> HIDE DEF T
  <1>3. \A q \in Proposals : /\ T.prop[q].state = S.prop[q].state
                             /\ T.prop[q].epoch = S.prop[q].epoch
                             /\ T.prop[q].resources = S.prop[q].resources
    BY <1>2
  <1>4. \A q \in Proposals : VaultFits(T, q)
    BY <1>2, <1>3 DEF Sound, VaultFits
  <1>5. \A q \in Proposals : DecisionFits(T, q)
    <2> TAKE q \in Proposals
    <2>1. CASE q = p
      <3>1. /\ T.prop[p].state \in {"Rejected", "Measuring"}
            /\ T.prop[p].state = "Measuring" => T.vault[p] = "Reject"
        BY <1>2, <1>3
      <3>2. QED
        BY <3>1, <2>1 DEF DecisionFits, Undecided, Adopted
    <2>2. CASE q # p
      BY <2>2, <1>2 DEF Sound, DecisionFits
    <2>3. QED
      BY <2>1, <2>2
  <1>6. LocksFit(T)
    <2>1. LocksFit(S)
      BY DEF Sound
    <2>2. S.locks \in [Resources -> Proposals \union {Nobody}]
      BY <1>1, StorageParts
    <2>3. QED
      BY <2>1, <2>2, <1>2, <1>3 DEF LocksFit
  <1>7. MembersFit(T)
    BY <1>2, <1>3 DEF Sound, MembersFit, Member
  <1>8. \A e \in Epochs : CohortFits(T, e)
    BY <1>2 DEF Sound, CohortFits
  <1>9. \A e \in Epochs : NeutralFits(T, e)
    BY <1>2, <1>3 DEF Sound, NeutralFits
  <1>10. QED
    BY <1>2, <1>4, <1>5, <1>6, <1>7, <1>8, <1>9 DEF Sound, T

LEMMA RejectToMeasurementSound ==
    ASSUME NEW S, Sound(S), NEW p \in Proposals, S.prop[p].state \in MarketBearing,
           NEW T \in RejectToMeasurement(S, p)
    PROVE  Sound(T)
  <1>1. PICK U \in ToMeasurement(S, p, "Reject") :
          T = Release(Put(U, p, [U.prop[p] EXCEPT !.decision = "Reject"]), p)
    BY DEF RejectToMeasurement, Put
  <1>2. /\ Sound(U)
        /\ \/ U.prop[p].state = "Rejected"
           \/ U.prop[p].state = "Measuring" /\ U.vault[p] = "Reject"
    BY ToMeasurementSound
  <1> DEFINE r == [U.prop[p] EXCEPT !.decision = "Reject"]
  <1>3. U \in Storage(Working) /\ U.prop[p] \in Records(Working)
    BY <1>2, RecordParts DEF Sound
  <1>4. /\ r \in Records(Working)
        /\ r.state = U.prop[p].state /\ r.epoch = U.prop[p].epoch
        /\ r.resources = U.prop[p].resources
    BY <1>3 DEF Records
  <1> HIDE DEF r
  <1>5. Sound(Put(U, p, r))
    BY <1>2, <1>4, VerdictSound
  <1>6. Put(U, p, r).prop[p] = r
    BY <1>3, <1>4, PutParts
  <1>7. r.state \notin InProgress
    BY <1>2, <1>4 DEF InProgress, MarketBearing, Adopted
  <1>8. T = Release(Put(U, p, r), p)
    BY <1>1 DEF r
  <1>9. QED
    BY <1>5, <1>6, <1>7, <1>8, ReleaseSound

----------------------------------------------------------------------------
(* Screening, opening, queue: the rest of an item.                         *)

LEMMA Quotients ==
    ASSUME NEW a \in Nat, NEW b \in Nat, a <= b, NEW n \in Nat \ {0}
    PROVE  a \div n \in Nat /\ b \div n \in Nat /\ a \div n <= b \div n
  <1>1. /\ a \div n \in Nat /\ a % n \in Nat /\ a % n < n /\ a = n * (a \div n) + (a % n)
        /\ b \div n \in Nat /\ b % n \in Nat /\ b % n < n /\ b = n * (b \div n) + (b % n)
    OBVIOUS
  <1> DEFINE x == a \div n
             y == b \div n
             u == a % n
             w == b % n
  <1> HIDE DEF x, y, u, w
  <1>2. x \in Nat /\ y \in Nat /\ u \in Nat /\ w \in Nat /\ w < n /\ n * x + u <= n * y + w
    BY <1>1 DEF x, y, u, w
  <1>3. ASSUME ~(x <= y) PROVE FALSE
    <2>1. x >= y + 1
      BY <1>2, <1>3
    <2>2. n * x >= n * (y + 1)
      BY <2>1, <1>2
    <2>3. n * (y + 1) = n * y + n
      BY <1>2
    <2>4. n * x \in Nat /\ n * y \in Nat
      BY <1>2
    <2>5. QED
      BY <2>2, <2>3, <2>4, <1>2
  <1>4. QED
    BY <1>1, <1>3 DEF x, y

(* The next epoch is one of those the bound leaves room for.               *)
LEMMA NextEpoch ==
    ASSUME now \in 0 .. Horizon, NEW i \in Nat, i <= now \div Length
    PROVE  i \in Epochs /\ i + 1 \in Epochs
  <1>1. now \in Nat /\ Horizon \in Nat /\ now <= Horizon /\ Length \in Nat \ {0}
    BY EpochParameters
  <1>2. now \div Length \in Nat /\ Horizon \div Length \in Nat /\ now \div Length <= Horizon \div Length
    BY <1>1, Quotients
  <1>3. QED
    BY <1>2 DEF Epochs

LEMMA RolloverParts ==
    ASSUME NEW r \in Records(Working), NEW next \in Epochs
    PROVE  /\ RolloverOrRefund(r, next) \in Records(Working)
           /\ RolloverOrRefund(r, next).decision = r.decision
           /\ \/ RolloverOrRefund(r, next).state = "Cancelled"
              \/ /\ RolloverOrRefund(r, next).state = "Submitted"
                 /\ RolloverOrRefund(r, next).epoch = next
  <1>1. CASE r.rolled
    <2>1. "Cancelled" \in Working
      BY DEF Working, Terminal
    <2>2. QED
      BY <1>1, <2>1, EntersParts DEF RolloverOrRefund
  <1>2. CASE ~r.rolled
    <2>1. "Submitted" \in Working
      BY WorkingStates
    <2>2. QED
      BY <1>2, <2>1 DEF RolloverOrRefund, Records
  <1>3. QED
    BY <1>1, <1>2

(* Locks are taken by a proposal that qualifies only where they are free.  *)
LEMMA TakesParts ==
    ASSUME NEW S, S \in Storage(Working), NEW p \in Proposals
    PROVE  /\ Takes(S, p) \in Storage(Working)
           /\ Takes(S, p).clock = S.clock /\ Takes(S, p).recent = S.recent
           /\ Takes(S, p).baseline = S.baseline /\ Takes(S, p).prop = S.prop
           /\ Takes(S, p).vault = S.vault /\ Takes(S, p).cohorts = S.cohorts
           /\ Takes(S, p).stale = S.stale
           /\ \A x \in Resources :
                Takes(S, p).locks[x] = IF x \in S.prop[p].resources THEN p ELSE S.locks[x]
  <1> DEFINE T == Takes(S, p)
  <1>1. S.locks \in [Resources -> Proposals \union {Nobody}]
    BY StorageParts
  <1>2. /\ T.clock = S.clock /\ T.recent = S.recent /\ T.baseline = S.baseline
        /\ T.prop = S.prop /\ T.vault = S.vault /\ T.cohorts = S.cohorts
        /\ T.stale = S.stale
        /\ T.locks = [x \in Resources |-> IF x \in S.prop[p].resources THEN p ELSE S.locks[x]]
    BY DEF Storage, Takes
  <1>3. T.locks \in [Resources -> Proposals \union {Nobody}]
    BY <1>1, <1>2
  <1>4. T \in Storage(Working)
    BY <1>2, <1>3 DEF Storage, Takes
  <1>5. QED
    BY <1>2, <1>4

(* A proposal that no hold stops qualifies for an epoch whose Baseline is  *)
(* not settled at the neutral value.                                       *)
LEMMA CurrentNotNeutral ==
    ASSUME NEW S, Sound(S), ~Voided(S, S.clock.index)
    PROVE  S.baseline[S.clock.index] # "Neutral"
  <1>1. S.clock.index \in Epochs /\ S.clock.index \in Nat
    BY StorageParts, EpochsAreNaturals DEF Sound
  <1>2. NeutralFits(S, S.clock.index)
    BY <1>1 DEF Sound
  <1>3. QED
    BY <1>1, <1>2 DEF NeutralFits, Voided

LEMMA QualifiedSound ==
    ASSUME NEW S, Sound(S), NEW p \in Candidates(S), ~Voided(S, S.clock.index),
           \A x \in S.prop[p].resources : S.locks[x] = Nobody,
           NEW r \in Records(Working), r.state = "Qualified", r.epoch = S.prop[p].epoch,
           r.resources = S.prop[p].resources, r.decision = S.prop[p].decision
    PROVE  Sound(Takes(Put(S, p, r), p))
  <1>1. /\ S \in Storage(Working)
        /\ p \in Proposals /\ S.prop[p].state = "Submitted" /\ S.prop[p].epoch = S.clock.index
    BY DEF Candidates, Sound
  <1>2. VaultFits(S, p) /\ DecisionFits(S, p) /\ LocksFit(S)
    BY <1>1 DEF Sound
  <1> DEFINE U == Put(S, p, r)
             T == Takes(U, p)
  <1>3. /\ U \in Storage(Working)
        /\ U.clock = S.clock /\ U.recent = S.recent /\ U.baseline = S.baseline
        /\ U.vault = S.vault /\ U.locks = S.locks /\ U.cohorts = S.cohorts
        /\ U.prop[p] = r
        /\ \A q \in Proposals \ {p} : U.prop[q] = S.prop[q]
    BY <1>1, PutParts
  <1> HIDE DEF U
  <1>4. /\ T \in Storage(Working)
        /\ T.clock = S.clock /\ T.recent = S.recent /\ T.baseline = S.baseline
        /\ T.vault = S.vault /\ T.cohorts = S.cohorts
        /\ T.prop[p] = r
        /\ \A q \in Proposals \ {p} : T.prop[q] = S.prop[q]
        /\ \A x \in Resources : T.locks[x] = IF x \in r.resources THEN p ELSE S.locks[x]
    BY <1>1, <1>3, TakesParts
  <1> HIDE DEF T
  <1>5. S.prop[p].state \notin MarketBearing \union InProgress \union Ended \union {"Measuring"}
    BY <1>1 DEF MarketBearing, InProgress, Adopted, Ended, Terminal
  <1>6. r.state \in InProgress /\ r.state \notin MarketBearing \union Adopted \union {"Measuring", "Submitted"}
    BY DEF MarketBearing, InProgress, Adopted
  <1>7. VaultFits(T, p)
    BY <1>2, <1>4, <1>5, <1>6 DEF VaultFits
  <1>8. DecisionFits(T, p)
    <2>1. S.prop[p].decision = "None"
      BY <1>1, <1>2 DEF DecisionFits
    <2>2. QED
      BY <2>1, <1>4, <1>6 DEF DecisionFits
  <1>9. Unmoved(S, T, p)
    BY <1>1, <1>4, <1>6 DEF Unmoved
  <1>10. r.resources \subseteq Resources
    BY <1>1, RecordParts
  <1>11. LocksMove(S, T, p)
    <2>1. \A x \in Resources : T.locks[x] # S.locks[x] => S.locks[x] = Nobody /\ T.locks[x] = p
      BY <1>4
    <2>2. \A x \in r.resources : T.locks[x] = p
      BY <1>4, <1>10
    <2>3. QED
      BY <2>1, <2>2, <1>4, <1>6 DEF LocksMove
  <1>12. EpochMoves(S, T, p)
    <2>1. S.baseline[r.epoch] # "Neutral"
      BY <1>1, CurrentNotNeutral
    <2>2. QED
      BY <2>1, <1>4, <1>6 DEF EpochMoves
  <1>13. Step(S, T, p)
    <2>1. \A q \in Proposals \ {p} : T.prop[q] = S.prop[q] /\ T.vault[q] = S.vault[q]
      BY <1>4
    <2>2. QED
      BY <2>1, <1>4, <1>7, <1>8, <1>9, <1>11, <1>12 DEF Step
  <1>14. QED
    BY <1>1, <1>13, StepSound DEF T, U

(* A submitted proposal that leaves, or stays for a later epoch.           *)
LEMMA DeferredSound ==
    ASSUME NEW S, Sound(S), NEW p \in Proposals, S.prop[p].state = "Submitted",
           NEW r \in Records(Working), r.decision = S.prop[p].decision,
           \/ r.state = "Cancelled"
           \/ r.state = "Submitted" /\ r.epoch >= S.clock.index
    PROVE  Sound(Put(S, p, r))
  <1>1. VaultFits(S, p) /\ DecisionFits(S, p)
    BY DEF Sound
  <1>2. /\ S.prop[p].state \notin MarketBearing \union InProgress \union Ended \union {"Measuring"}
        /\ r.state \notin MarketBearing \union InProgress \union Adopted \union {"Measuring"}
        /\ r.state \in Ended \/ r.state = "Submitted"
    BY DEF MarketBearing, InProgress, Adopted, Ended, Terminal
  <1>3. S.vault[p] \notin {"Voided", "Settled"}
    BY <1>1, <1>2 DEF VaultFits
  <1>4. r.decision = "None"
    BY <1>1 DEF DecisionFits
  <1>5. S.prop[p].state # "Measuring" /\ r.state # "Measuring"
    BY <1>2
  <1>6. r.state \in MarketBearing <=> S.prop[p].state \in MarketBearing
    BY <1>2
  <1>7. r.state \notin InProgress /\ r.state \notin Adopted /\ S.prop[p].state \notin InProgress
    BY <1>2
  <1>8. QED
    BY <1>3, <1>4, <1>5, <1>6, <1>7, RecordSound

LEMMA ScreenSound ==
    ASSUME now \in 0 .. Horizon,
           NEW S, Sound(S), NEW p \in Candidates(S), ~Voided(S, S.clock.index),
           NEW T \in Screen(S, p)
    PROVE  Sound(T)
  <1>1. /\ S \in Storage(Working) /\ S.clock.index <= now \div Length
        /\ p \in Proposals /\ S.prop[p].state = "Submitted" /\ S.prop[p].epoch = S.clock.index
    BY DEF Candidates, Sound
  <1>2. /\ S.clock.index \in Nat /\ S.prop[p] \in Records(Working)
        /\ S.clock.index + 1 \in Epochs
    BY <1>1, StorageParts, RecordParts, EpochsAreNaturals, NextEpoch
  <1> DEFINE at   == S.clock.index * Length + Start[DecidePhase]
             left == Enters(S.prop[p], "Cancelled")
             in   == [Enters(S.prop[p], "Qualified") EXCEPT !.due = at]
             late == RolloverOrRefund(S.prop[p], S.clock.index + 1)
  <1>3. \/ T = Put(S, p, left)
        \/ T = Put(S, p, late)
        \/ /\ \A x \in S.prop[p].resources : S.locks[x] = Nobody
           /\ T = Takes(Put(S, p, in), p)
    BY DEF Screen, Put
  <1>4. CASE T = Put(S, p, left)
    <2>1. "Cancelled" \in Working
      BY DEF Working, Terminal
    <2>2. left \in Records(Working) /\ left.state = "Cancelled" /\ left.decision = S.prop[p].decision
      BY <2>1, <1>2, EntersParts
    <2> HIDE DEF left
    <2>3. QED
      BY <1>1, <1>4, <2>2, DeferredSound
  <1>5. CASE T = Put(S, p, late)
    <2>1. /\ late \in Records(Working) /\ late.decision = S.prop[p].decision
          /\ late.state = "Cancelled" \/ (late.state = "Submitted" /\ late.epoch = S.clock.index + 1)
      BY <1>2, RolloverParts
    <2>2. S.clock.index + 1 >= S.clock.index
      BY <1>2
    <2> HIDE DEF late
    <2>3. QED
      BY <1>1, <1>5, <2>1, <2>2, DeferredSound
  <1>6. CASE /\ \A x \in S.prop[p].resources : S.locks[x] = Nobody
             /\ T = Takes(Put(S, p, in), p)
    <2>1. at \in Nat
      <3>1. DecidePhase \in Phases /\ Length \in Nat /\ Start[DecidePhase] \in Nat
        BY EpochParameters DEF DecidePhase, Phases, Intake, Housekeeping
      <3>2. QED
        BY <3>1, <1>2
    <2> HIDE DEF at
    <2>2. "Qualified" \in Working
      BY DEF Working, States, Stored, ForceRejectable, InProgress
    <2>3. /\ in \in Records(Working) /\ in.state = "Qualified" /\ in.epoch = S.prop[p].epoch
          /\ in.resources = S.prop[p].resources /\ in.decision = S.prop[p].decision
      <3> DEFINE q == Enters(S.prop[p], "Qualified")
      <3>1. /\ q \in Records(Working) /\ q.state = "Qualified" /\ q.epoch = S.prop[p].epoch
            /\ q.resources = S.prop[p].resources /\ q.decision = S.prop[p].decision
        BY <1>2, <2>2, EntersParts
      <3> HIDE DEF q
      <3>2. in = [q EXCEPT !.due = at]
        BY DEF q
      <3>3. QED
        BY <3>1, <3>2, <2>1 DEF Records
    <2> HIDE DEF in
    <2>4. QED
      BY <1>6, <2>3, QualifiedSound
  <1>7. QED
    BY <1>3, <1>4, <1>5, <1>6

(* The books of a qualified proposal open, and its vault with them.        *)
LEMMA OpenMarketsSound ==
    ASSUME NEW S, Sound(S), NEW p \in Proposals, S.prop[p].state = "Qualified",
           NEW T \in OpenMarkets(S, p)
    PROVE  Sound(T)
  <1> DEFINE e == S.prop[p].epoch
             r == [S.prop[p] EXCEPT !.state = "Trading"]
             b == IF S.baseline[e] = "Absent" THEN "Open" ELSE S.baseline[e]
  <1>1. /\ S \in Storage(Working)
        /\ VaultFits(S, p) /\ DecisionFits(S, p) /\ LocksFit(S) /\ NeutralFits(S, e)
    BY RecordParts DEF Sound
  <1>2. /\ S.prop[p] \in Records(Working) /\ e \in Epochs
        /\ S.prop \in [Proposals -> Records(Working)]
        /\ S.vault \in [Proposals -> Vaults]
        /\ S.baseline \in [Epochs -> {"Absent", "Open", "Settled", "Neutral"}]
    BY <1>1, StorageParts, RecordParts
  <1>3. T = [S EXCEPT !.vault[p] = "Open", !.prop[p] = r, !.baseline[e] = b]
    BY DEF OpenMarkets
  <1>4. T = [S EXCEPT !.vault = [S.vault EXCEPT ![p] = "Open"],
                      !.prop = [S.prop EXCEPT ![p] = r],
                      !.baseline = [S.baseline EXCEPT ![e] = b]]
    BY <1>3
  <1>5. /\ r \in Records(Working) /\ r.state = "Trading" /\ r.epoch = e
        /\ r.resources = S.prop[p].resources /\ r.decision = S.prop[p].decision
    <2>1. "Trading" \in Working
      BY DEF Working, States, Stored, ForceRejectable, InProgress, MarketBearing
    <2>2. QED
      BY <1>2, <2>1 DEF Records
  <1>6. b \in {"Absent", "Open", "Settled", "Neutral"} /\ (b = "Neutral" => S.baseline[e] = "Neutral")
    BY <1>2
  <1> HIDE DEF r, b
  <1>7. /\ T.clock = S.clock /\ T.recent = S.recent /\ T.locks = S.locks /\ T.cohorts = S.cohorts
        /\ T.vault = [S.vault EXCEPT ![p] = "Open"]
        /\ T.prop = [S.prop EXCEPT ![p] = r]
        /\ T.baseline = [S.baseline EXCEPT ![e] = b]
    BY <1>1, <1>4 DEF Storage
  <1>8. /\ T.prop \in [Proposals -> Records(Working)]
        /\ T.vault \in [Proposals -> Vaults]
        /\ T.baseline \in [Epochs -> {"Absent", "Open", "Settled", "Neutral"}]
    <2>1. "Open" \in Vaults
      BY DEF Vaults
    <2>2. QED
      BY <2>1, <1>2, <1>5, <1>6, <1>7
  <1>9. T \in Storage(Working)
    BY <1>1, <1>4, <1>7, <1>8 DEF Storage, Vaults
  <1>10. /\ T.prop[p] = r /\ T.vault[p] = "Open"
         /\ \A q \in Proposals \ {p} : T.prop[q] = S.prop[q] /\ T.vault[q] = S.vault[q]
         /\ \A f \in Epochs : T.baseline[f] = "Neutral" => S.baseline[f] = "Neutral"
    BY <1>2, <1>6, <1>7
  <1>11. /\ r.state \in MarketBearing /\ r.state \in InProgress /\ r.state \notin {"Measuring", "Submitted"}
         /\ r.state \notin Adopted
         /\ S.prop[p].state \in InProgress /\ S.prop[p].state # "Measuring"
         /\ S.prop[p].state \in Undecided
    BY <1>5 DEF MarketBearing, InProgress, Adopted, Undecided
  <1>12. VaultFits(T, p)
    BY <1>10, <1>11 DEF VaultFits
  <1>13. DecisionFits(T, p)
    <2>1. r.decision = "None"
      BY <1>1, <1>5, <1>11 DEF DecisionFits
    <2>2. QED
      BY <2>1, <1>10, <1>11 DEF DecisionFits
  <1>14. Unmoved(S, T, p)
    BY <1>7, <1>10, <1>11 DEF Unmoved
  <1>15. LocksMove(S, T, p)
    BY <1>1, <1>5, <1>7, <1>10, <1>11 DEF LocksFit, LocksMove
  <1>16. EpochMoves(S, T, p)
    <2>1. S.baseline[e] # "Neutral"
      BY <1>1, <1>11 DEF NeutralFits
    <2>2. QED
      BY <2>1, <1>5, <1>10, <1>11 DEF EpochMoves
  <1>17. Step(S, T, p)
    BY <1>7, <1>9, <1>10, <1>12, <1>13, <1>14, <1>15, <1>16 DEF Step
  <1>18. QED
    BY <1>17, StepSound

LEMMA ScheduleRerunSound ==
    ASSUME NEW S, Sound(S), NEW p \in Proposals, S.prop[p].state = "Suspended",
           NEW T \in ScheduleRerun(S, p)
    PROVE  Sound(T)
  <1> DEFINE r == [S.prop[p] EXCEPT !.state = "Rerun", !.due = 0, !.decision = "None"]
  <1>1. S.prop[p] \in Records(Working)
    BY RecordParts DEF Sound
  <1>2. S.prop[p].state \in MarketBearing /\ "Rerun" \in MarketBearing /\ "Rerun" \notin Adopted
    BY DEF MarketBearing, Adopted
  <1>3. /\ r \in Records(Working) /\ r.state = "Rerun" /\ r.epoch = S.prop[p].epoch
        /\ r.resources = S.prop[p].resources /\ r.decision = "None"
    BY <1>1, <1>2, WorkingStates DEF Records
  <1>4. T = Put(S, p, r)
    BY DEF ScheduleRerun, Put
  <1> HIDE DEF r
  <1>5. QED
    BY <1>2, <1>3, <1>4, ContinuesSound

LEMMA OpenRerunSound ==
    ASSUME now \in Nat,
           NEW S, Sound(S), NEW p \in Proposals, S.prop[p].state = "Rerun",
           NEW T \in OpenRerun(S, p)
    PROVE  Sound(T)
  <1> DEFINE r == [S.prop[p] EXCEPT !.state = "Extended", !.rerun = TRUE, !.due = now + Extension]
  <1>1. S.prop[p] \in Records(Working) /\ DecisionFits(S, p)
    BY RecordParts DEF Sound
  <1>2. S.prop[p].state \in MarketBearing /\ "Extended" \in MarketBearing /\ "Extended" \notin Adopted
    BY DEF MarketBearing, Adopted
  <1>3. now + Extension \in Nat
    BY EpochParameters
  <1>4. /\ r \in Records(Working) /\ r.state = "Extended" /\ r.epoch = S.prop[p].epoch
        /\ r.resources = S.prop[p].resources /\ r.decision = S.prop[p].decision
    BY <1>1, <1>2, <1>3, WorkingStates DEF Records
  <1>5. S.prop[p].decision = "None"
    BY <1>1 DEF DecisionFits
  <1>6. T = Put(S, p, r)
    BY DEF OpenRerun, Put
  <1> HIDE DEF r
  <1>7. QED
    BY <1>2, <1>4, <1>5, <1>6, ContinuesSound

LEMMA FromQueueSound ==
    ASSUME NEW S, Sound(S), NEW p \in Proposals, S.prop[p].state = "Queued",
           NEW T \in FromQueue(S, p)
    PROVE  Sound(T)
  <1>1. S.prop[p].state \in MarketBearing
    BY DEF MarketBearing, Adopted
  <1>2. T \in RejectToMeasurement(S, p) \/ T \in ToMeasurement(S, p, "Reject") \/ T = S
    BY DEF FromQueue
  <1>3. QED
    BY <1>1, <1>2, RejectToMeasurementSound, ToMeasurementSound

(* Any item of a batch.                                                    *)
LEMMA TickOneSound ==
    ASSUME now \in 0 .. Horizon,
           NEW S, Sound(S), NEW p \in Proposals, NEW frozen, NEW T \in TickOne(S, p, frozen)
    PROVE  Sound(T)
  <1>1. now \in Nat
    BY EpochParameters
  <1>2. CASE S.prop[p].state \in ForceRejectable /\ Held(S, p, frozen)
    BY <1>2, ForceRejectSound DEF TickOne
  <1>3. CASE ~(S.prop[p].state \in ForceRejectable /\ Held(S, p, frozen))
    <2>1. CASE p \in Candidates(S) /\ S.clock.phase = Qualify
      <3>1. S.prop[p].state = "Submitted" /\ S.prop[p].epoch = S.clock.index
        BY <2>1 DEF Candidates
      <3>2. S.prop[p].state \in ForceRejectable
        BY <3>1 DEF ForceRejectable
      <3>3. ~Voided(S, S.clock.index)
        BY <3>1, <3>2, <1>3 DEF Held
      <3>4. T \in Screen(S, p)
        BY <1>3, <2>1 DEF TickOne
      <3>5. QED
        BY <2>1, <3>3, <3>4, ScreenSound
    <2>2. CASE ~(p \in Candidates(S) /\ S.clock.phase = Qualify)
      <3>1. \/ S.prop[p].state = "Qualified" /\ T \in OpenMarkets(S, p)
            \/ S.prop[p].state = "Suspended" /\ T \in ScheduleRerun(S, p)
            \/ S.prop[p].state = "Rerun" /\ T \in OpenRerun(S, p)
            \/ S.prop[p].state = "Queued" /\ T \in FromQueue(S, p)
            \/ S.prop[p].state = "FailedExecuted" /\ T \in ToMeasurement(S, p, "Accept")
            \/ T = S
        BY <1>3, <2>2 DEF TickOne
      <3>2. CASE S.prop[p].state = "FailedExecuted" /\ T \in ToMeasurement(S, p, "Accept")
        <4>1. S.prop[p].state \in Adopted /\ S.prop[p].state \in MarketBearing
          BY <3>2 DEF Adopted, MarketBearing
        <4>2. QED
          BY <3>2, <4>1, ToMeasurementSound
      <3>3. QED
        BY <1>1, <3>1, <3>2, OpenMarketsSound, ScheduleRerunSound, OpenRerunSound, FromQueueSound
    <2>3. QED
      BY <2>1, <2>2
  <1>4. QED
    BY <1>2, <1>3

(* Any outcome of decide.                                                  *)
LEMMA DecisionsSound ==
    ASSUME now \in Nat,
           NEW S, Sound(S), NEW p \in Proposals, S.prop[p].state \in {"Trading", "Extended"},
           NEW frozen, NEW T \in Decisions(S, p, frozen)
    PROVE  Sound(T)
  <1>1. S.prop[p] \in Records(Working) /\ DecisionFits(S, p)
    BY RecordParts DEF Sound
  <1>2. S.prop[p].state \in MarketBearing /\ S.prop[p].decision = "None"
    BY <1>1 DEF MarketBearing, DecisionFits, Undecided
  <1>3. T \in ForceReject(S, p) \/ T \in Extend(S, p) \/ T \in Adopt(S, p) \/ T \in RejectToMeasurement(S, p)
    BY DEF Decisions
  <1>4. CASE T \in Extend(S, p)
    <2> DEFINE d == S.prop[p].due + Extension
               r == [S.prop[p] EXCEPT !.state = "Extended", !.due = d]
    <2>1. "Extended" \in MarketBearing /\ "Extended" \notin Adopted /\ "Extended" \in Working
      BY DEF MarketBearing, Adopted, Working, States, Stored, ForceRejectable, InProgress
    <2>2. d \in Nat
      BY <1>1, EpochParameters DEF Records
    <2>3. T = Put(S, p, r)
      BY <1>4 DEF Extend, Put
    <2> HIDE DEF d
    <2>4. /\ r \in Records(Working) /\ r.state = "Extended" /\ r.epoch = S.prop[p].epoch
          /\ r.resources = S.prop[p].resources /\ r.decision = S.prop[p].decision
      BY <1>1, <2>1, <2>2 DEF Records
    <2> HIDE DEF r
    <2>5. QED
      BY <1>2, <2>1, <2>3, <2>4, ContinuesSound
  <1>5. CASE T \in Adopt(S, p)
    <2> DEFINE r == [S.prop[p] EXCEPT !.state = "Queued", !.decision = "Adopt", !.due = now + Timelock]
    <2>1. "Queued" \in MarketBearing /\ "Queued" \notin {"Trading", "Extended", "Rerun"}
      BY DEF MarketBearing, Adopted
    <2>2. now + Timelock \in Nat
      BY EpochParameters
    <2>3. /\ r \in Records(Working) /\ r.state = "Queued" /\ r.epoch = S.prop[p].epoch
          /\ r.resources = S.prop[p].resources /\ r.decision = "Adopt"
      BY <1>1, <2>1, <2>2, WorkingStates DEF Records
    <2>4. T = Put(S, p, r)
      BY <1>5 DEF Adopt, Put
    <2> HIDE DEF r
    <2>5. QED
      BY <1>2, <2>1, <2>3, <2>4, ContinuesSound
  <1>6. QED
    BY <1>2, <1>3, <1>4, <1>5, ForceRejectSound, RejectToMeasurementSound

----------------------------------------------------------------------------
(* Calls that touch several proposals at once.                             *)

(* Proposals that leave the machine together, with their locks, and whole  *)
(* cohorts with them.                                                      *)
Leave(S, T, gone) ==
    /\ T \in Storage(Working)
    /\ T.clock = S.clock
    /\ \A p \in Proposals \ gone : T.prop[p] = S.prop[p] /\ T.vault[p] = S.vault[p]
    /\ \A p \in gone : /\ T.prop[p].state \notin InProgress \union {"Measuring"}
                       /\ VaultFits(T, p) /\ DecisionFits(T, p)
    /\ \A x \in Resources : T.locks[x] = IF S.locks[x] \in gone THEN Nobody ELSE S.locks[x]
    /\ \A e \in Epochs :
         \/ /\ T.cohorts[e] = NoCohort
            /\ \A p \in Proposals : Member(S, p, e) => p \in gone
         \/ /\ T.cohorts[e] = S.cohorts[e]
            /\ \A p \in gone : ~Member(S, p, e)
    /\ \A e \in Epochs : NeutralFits(T, e)

LEMMA EmptyCohort ==
    ASSUME NEW S, NEW e, S.cohorts[e] = NoCohort
    PROVE  CohortFits(S, e) /\ \A p \in Proposals : ~Member(S, p, e)
  BY DEF CohortFits, Member, NoCohort, IsInjective, Range

LEMMA LeaveSound ==
    ASSUME NEW S, Sound(S), NEW gone \in SUBSET Proposals, NEW T, Leave(S, T, gone)
    PROVE  Sound(T)
  <1>1. /\ S \in Storage(Working) /\ T \in Storage(Working) /\ T.clock = S.clock
        /\ S.clock.index <= now \div Length
        /\ S.locks \in [Resources -> Proposals \union {Nobody}]
    BY StorageParts DEF Leave, Sound
  <1>2. \A p \in Proposals \ gone : T.prop[p] = S.prop[p] /\ T.vault[p] = S.vault[p]
    BY DEF Leave
  <1>3. \A p \in Proposals : VaultFits(T, p) /\ DecisionFits(T, p)
    <2> TAKE p \in Proposals
    <2>1. CASE p \in gone
      BY <2>1 DEF Leave
    <2>2. CASE p \notin gone
      BY <2>2, <1>2 DEF Sound, VaultFits, DecisionFits
    <2>3. QED
      BY <2>1, <2>2
  <1>4. LocksFit(T)
    <2>1. LocksFit(S)
      BY DEF Sound
    <2>2. /\ \A p \in gone : T.prop[p].state \notin InProgress \union {"Measuring"}
          /\ \A x \in Resources : T.locks[x] = IF S.locks[x] \in gone THEN Nobody ELSE S.locks[x]
      BY DEF Leave
    <2>3. ASSUME NEW p \in Proposals, T.prop[p].state \in InProgress, NEW x \in T.prop[p].resources
          PROVE  T.locks[x] = p
      <3>1. p \notin gone /\ x \in Resources
        BY <1>1, <2>2, <2>3, RecordParts
      <3>2. S.locks[x] = p
        BY <3>1, <1>2, <2>1, <2>3 DEF LocksFit
      <3>3. QED
        BY <3>1, <3>2, <2>2
    <2>4. ASSUME NEW x \in Resources, T.locks[x] # Nobody
          PROVE  T.prop[T.locks[x]].state \in InProgress \union {"Measuring"}
      <3>1. T.locks[x] = S.locks[x] /\ S.locks[x] \in Proposals \ gone
        BY <1>1, <2>2, <2>4
      <3>2. QED
        BY <3>1, <1>2, <2>1, <2>4 DEF LocksFit
    <2>5. QED
      BY <2>3, <2>4 DEF LocksFit
  <1>5. \A e \in Epochs : CohortFits(T, e)
    <2> TAKE e \in Epochs
    <2>1. CASE T.cohorts[e] = NoCohort
      BY <2>1, EmptyCohort
    <2>2. CASE T.cohorts[e] = S.cohorts[e] /\ \A p \in gone : ~Member(S, p, e)
      <3>1. S.cohorts[e].members \in Seq(Proposals)
        BY <1>1, StorageParts
      <3>2. \A i \in DOMAIN S.cohorts[e].members : S.cohorts[e].members[i] \in Proposals \ gone
        BY <3>1, <2>2 DEF Member, Range
      <3>3. CohortFits(S, e)
        BY DEF Sound
      <3>4. QED
        BY <3>2, <3>3, <2>2, <1>2 DEF CohortFits
    <2>3. QED
      BY <2>1, <2>2 DEF Leave
  <1>6. MembersFit(T)
    <2> SUFFICES ASSUME NEW p \in Proposals, NEW e \in Epochs
                 PROVE  Member(T, p, e) <=> T.prop[p].state = "Measuring" /\ T.prop[p].epoch = e
      BY DEF MembersFit
    <2>1. Member(S, p, e) <=> S.prop[p].state = "Measuring" /\ S.prop[p].epoch = e
      BY DEF Sound, MembersFit
    <2>2. p \in gone => T.prop[p].state # "Measuring"
      BY DEF Leave
    <2>3. CASE T.cohorts[e] = NoCohort /\ \A q \in Proposals : Member(S, q, e) => q \in gone
      <3>1. ~Member(T, p, e)
        BY <2>3, EmptyCohort
      <3>2. QED
        BY <3>1, <2>1, <2>2, <2>3, <1>2
    <2>4. CASE T.cohorts[e] = S.cohorts[e] /\ \A q \in gone : ~Member(S, q, e)
      <3>1. Member(T, p, e) <=> Member(S, p, e)
        BY <2>4 DEF Member
      <3>2. QED
        BY <3>1, <2>1, <2>2, <2>4, <1>2
    <2>5. QED
      BY <2>3, <2>4 DEF Leave
  <1>7. \A e \in Epochs : NeutralFits(T, e)
    BY DEF Leave
  <1>8. QED
    BY <1>1, <1>3, <1>4, <1>5, <1>6, <1>7 DEF Sound

LEMMA PhasesAreFinite ==
    /\ IsFiniteSet(Phases) /\ Cardinality(Phases) = 6 /\ Intake \in Phases
  <1>1. Phases = 0 .. 5
    BY DEF Phases, Intake, Housekeeping
  <1>2. IsFiniteSet(0 .. 5) /\ Cardinality(0 .. 5) = 6
    <2>1. 0 \in Int /\ 5 \in Int /\ ~(0 > 5) /\ 5 - 0 + 1 = 6
      OBVIOUS
    <2>2. IsFiniteSet(0 .. 5)
      BY <2>1, FS_Interval
    <2>3. Cardinality(0 .. 5) = 5 - 0 + 1
      BY <2>1, FS_Interval
    <2>4. QED
      BY <2>1, <2>2, <2>3
  <1>3. Intake \in Phases
    BY DEF Phases, Intake, Housekeeping
  <1>4. QED
    BY <1>1, <1>2, <1>3

LEMMA ClockParts ==
    ASSUME now \in 0 .. Horizon
    PROVE  /\ ClockAt(now) \in [index : Epochs, phase : Phases]
           /\ ClockAt(now).index = now \div Length
  <1> DEFINE d == now % Length
             F == {f \in Phases : Start[f] <= d}
  <1>1. now \in Nat /\ Length \in Nat \ {0} /\ now <= now
    BY EpochParameters
  <1>2. now \div Length \in Nat /\ now \div Length <= now \div Length /\ d \in Nat
    BY <1>1, Quotients
  <1>3. now \div Length \in Epochs
    BY <1>2, NextEpoch
  <1> HIDE DEF d
  <1>4. Intake \in F
    BY <1>2, EpochParameters, PhasesAreFinite
  <1>5. F \subseteq Phases
    OBVIOUS
  <1> HIDE DEF F
  <1>6. IsFiniteSet(F) /\ Cardinality(F) <= 6
    BY <1>5, PhasesAreFinite, FS_Subset
  <1>7. Cardinality(F) \in Nat /\ Cardinality(F) # 0
    BY <1>4, <1>6, FS_CardinalityType, FS_EmptySet
  <1>8. Cardinality(F) - 1 \in 0 .. 5
    BY <1>6, <1>7
  <1>9. PhaseAt(d) \in Phases
    BY <1>8 DEF PhaseAt, F, Phases, Intake, Housekeeping
  <1>10. QED
    BY <1>3, <1>9 DEF ClockAt, d

(* Synchronizing moves the stored clock to the block and may mark          *)
(* proposals as stale.                                                     *)
LEMMA SyncParts ==
    ASSUME now \in 0 .. Horizon, NEW states, NEW S, S \in Storage(states)
    PROVE  /\ Sync(S) \in Storage(states)
           /\ Sync(S).prop = S.prop /\ Sync(S).vault = S.vault /\ Sync(S).locks = S.locks
           /\ Sync(S).cohorts = S.cohorts /\ Sync(S).recent = S.recent
           /\ Sync(S).baseline = S.baseline /\ Sync(S).schedules = S.schedules
           /\ Sync(S).funded = S.funded
           /\ Sync(S).clock = ClockAt(now)
  <1> DEFINE latched == IF S.stale = {} /\ now > NextBoundary(S.clock) + StaleBound
                        THEN {p \in Proposals : S.prop[p].state # "Absent"} ELSE S.stale
             L == [S EXCEPT !.stale = latched]
             C == MaybeClearStale(L)
             c == ClockAt(now)
  <1>1. latched \subseteq Proposals
    BY StorageParts
  <1>2. Sync(S) = [C EXCEPT !.clock = c]
    BY DEF Sync
  <1>3. c \in [index : Epochs, phase : Phases]
    BY ClockParts
  <1> HIDE DEF latched, c
  <1>4. \E X \in SUBSET Proposals : C = [S EXCEPT !.stale = X]
    <2>1. CASE \E p \in L.stale : L.prop[p].state \in ForceRejectable
      <3>1. C = L
        BY <2>1 DEF MaybeClearStale
      <3>2. QED
        BY <3>1, <1>1
    <2>2. CASE ~ \E p \in L.stale : L.prop[p].state \in ForceRejectable
      <3>1. C = [L EXCEPT !.stale = {}]
        BY <2>2 DEF MaybeClearStale
      <3>2. C = [S EXCEPT !.stale = {}]
        BY <3>1 DEF Storage
      <3>3. QED
        BY <3>2
    <2>3. QED
      BY <2>1, <2>2
  <1>5. PICK X \in SUBSET Proposals : C = [S EXCEPT !.stale = X]
    BY <1>4
  <1> HIDE DEF C
  <1>6. Sync(S) = [S EXCEPT !.stale = X, !.clock = c]
    BY <1>2, <1>5
  <1>7. Sync(S) \in Storage(states)
    BY <1>3, <1>6 DEF Storage
  <1>8. QED
    BY <1>6, <1>7 DEF Storage, c

LEMMA SyncSound ==
    ASSUME now \in 0 .. Horizon, NEW S, Sound(S)
    PROVE  Sound(Sync(S))
  <1>1. S \in Storage(Working) /\ S.clock.index <= now \div Length /\ S.clock.index \in Nat
    BY StorageParts, EpochsAreNaturals DEF Sound
  <1>2. now \div Length <= now \div Length
    BY EpochParameters
  <1>3. QED
    BY <1>1, <1>2, SyncParts, ClockParts, IdleSound

(* At the entry into Seed a part of the slate goes back, with its locks.   *)
LEMMA ShrinkSound ==
    ASSUME now \in 0 .. Horizon, NEW S, Sound(S), NEW keep \in SUBSET QualifiedFor(S)
    PROVE  Sound(Shrink(S, keep))
  <1> DEFINE gone == QualifiedFor(S) \ keep
             i == S.clock.index
             l == [x \in Resources |-> IF S.locks[x] \in gone THEN Nobody ELSE S.locks[x]]
             r == [p \in Proposals |-> IF p \in gone THEN RolloverOrRefund(S.prop[p], i + 1) ELSE S.prop[p]]
             T == Shrink(S, keep)
  <1>1. /\ S \in Storage(Working) /\ i <= now \div Length
        /\ i \in Nat /\ S.locks \in [Resources -> Proposals \union {Nobody}]
        /\ S.clock.index \in Epochs
    BY StorageParts, EpochsAreNaturals DEF Sound
  <1>2. /\ gone \in SUBSET Proposals
        /\ \A p \in gone : S.prop[p].state = "Qualified" /\ S.prop[p].epoch = i
        /\ keep \in SUBSET Proposals
    BY DEF QualifiedFor
  <1>3. T = [S EXCEPT !.funded = keep, !.locks = l, !.prop = r]
    BY DEF Shrink
  <1> HIDE DEF gone
  <1>4. \A p \in gone : /\ r[p] \in Records(Working)
                        /\ r[p].decision = S.prop[p].decision
                        /\ \/ r[p].state = "Cancelled"
                           \/ r[p].state = "Submitted" /\ r[p].epoch = i + 1
    <2> TAKE p \in gone
    <2>1. i + 1 \in Epochs /\ S.prop[p] \in Records(Working)
      BY <1>1, <1>2, NextEpoch, RecordParts
    <2>2. r[p] = RolloverOrRefund(S.prop[p], i + 1)
      BY <1>2
    <2> HIDE DEF r
    <2>3. QED
      BY <2>1, <2>2, RolloverParts
  <1>5. \A p \in Proposals \ gone : r[p] = S.prop[p]
    OBVIOUS
  <1>6. \A p \in Proposals : r[p] \in Records(Working)
    BY <1>1, <1>4, <1>5, RecordParts
  <1>7. r \in [Proposals -> Records(Working)]
    BY <1>6
  <1>8. l \in [Resources -> Proposals \union {Nobody}]
    BY <1>1
  <1>9. \A x \in Resources : l[x] = IF S.locks[x] \in gone THEN Nobody ELSE S.locks[x]
    OBVIOUS
  <1> HIDE DEF r, l, T
  <1>10. /\ T \in Storage(Working)
         /\ T.clock = S.clock /\ T.recent = S.recent /\ T.baseline = S.baseline
         /\ T.vault = S.vault /\ T.cohorts = S.cohorts /\ T.locks = l /\ T.prop = r
    BY <1>1, <1>2, <1>3, <1>7, <1>8 DEF Storage
  <1>11. S.baseline[i] = "Neutral" => gone = {}
    <2>1. NeutralFits(S, i)
      BY <1>1 DEF Sound
    <2>2. "Qualified" \in InProgress
      BY DEF InProgress
    <2>3. QED
      BY <2>1, <2>2, <1>2 DEF NeutralFits
  <1>12. ASSUME NEW p \in gone
         PROVE  /\ T.prop[p].state \notin InProgress \union {"Measuring"}
                /\ VaultFits(T, p) /\ DecisionFits(T, p)
    <2>1. VaultFits(S, p) /\ DecisionFits(S, p)
      BY <1>2 DEF Sound
    <2>2. /\ S.prop[p].state = "Qualified"
          /\ "Qualified" \notin MarketBearing \union Ended \union {"Measuring"}
          /\ "Qualified" \in Undecided
      BY <1>2 DEF MarketBearing, Adopted, Ended, Terminal, Undecided
    <2>3. T.prop[p].state \in {"Cancelled", "Submitted"} /\ T.prop[p].decision = S.prop[p].decision
      BY <1>4, <1>10
    <2>4. T.prop[p].state \notin InProgress \union MarketBearing \union Adopted \union {"Measuring"}
      BY <2>3 DEF InProgress, MarketBearing, Adopted
    <2>5. S.vault[p] \notin {"Open", "Accept", "Reject", "Voided", "Settled"}
      BY <2>1, <2>2 DEF VaultFits
    <2>6. VaultFits(T, p)
      BY <2>4, <2>5, <1>10 DEF VaultFits
    <2>7. S.prop[p].decision = "None"
      BY <2>1, <2>2 DEF DecisionFits
    <2>8. DecisionFits(T, p)
      BY <2>3, <2>4, <2>7 DEF DecisionFits
    <2>9. QED
      BY <2>4, <2>6, <2>8
  <1>13. \A p \in gone, e \in Epochs : ~Member(S, p, e)
    BY <1>2 DEF Sound, MembersFit
  <1>14. ASSUME NEW e \in Epochs PROVE NeutralFits(T, e)
    <2> SUFFICES ASSUME S.baseline[e] = "Neutral"
                 PROVE  NeutralFits(T, e)
      BY <1>10 DEF NeutralFits
    <2>1. NeutralFits(S, e)
      BY DEF Sound
    <2>2. ASSUME NEW p \in Proposals, T.prop[p].epoch = e
          PROVE  /\ T.prop[p].state \notin InProgress \union {"Measuring"}
                 /\ e < i => \/ S.prop[p].epoch = e /\ T.prop[p].state = S.prop[p].state
                             \/ T.prop[p].state # "Submitted"
      <3>1. CASE p \in gone
        BY <3>1, <2>2, <1>1, <1>4, <1>10, <1>12
      <3>2. CASE p \notin gone
        <4>1. T.prop[p] = S.prop[p]
          BY <3>2, <1>5, <1>10
        <4>2. QED
          BY <4>1, <2>1, <2>2 DEF NeutralFits
      <3>3. QED
        BY <3>1, <3>2
    <2>3. QED
      BY <2>1, <2>2, <1>10 DEF NeutralFits
  <1>15. Leave(S, T, gone)
    BY <1>2, <1>5, <1>9, <1>10, <1>12, <1>13, <1>14 DEF Leave
  <1>16. QED
    BY <1>2, <1>15, LeaveSound DEF T

----------------------------------------------------------------------------
(* The end of a cohort.                                                    *)

(* Whose vaults a batch of the settlement settles.                         *)
Due(S, e, end) ==
    {S.cohorts[e].members[i] : i \in (S.cohorts[e].cursor + 1 .. end) \ {Len(S.cohorts[e].members) + 1}}

SettledVaults(S, due) == [p \in Proposals |-> IF p \in due THEN "Settled" ELSE S.vault[p]]

LEMMA DueAreMembers ==
    ASSUME NEW S, Sound(S), NEW e \in Epochs,
           NEW end \in Nat, end <= Len(S.cohorts[e].members) + 1
    PROVE  /\ \A p \in Due(S, e, end) : p \in Proposals /\ Member(S, p, e)
           /\ \A j \in DOMAIN S.cohorts[e].members :
                S.cohorts[e].members[j] \in Due(S, e, end) <=> S.cohorts[e].cursor < j /\ j <= end
  <1> DEFINE m == S.cohorts[e].members
             k == S.cohorts[e].cursor
  <1>1. m \in Seq(Proposals) /\ k \in Nat
    BY StorageParts DEF Sound
  <1>2. IsInjective(m)
    BY DEF Sound, CohortFits
  <1>3. DOMAIN m = 1 .. Len(m) /\ Len(m) \in Nat /\ \A j \in DOMAIN m : m[j] \in Proposals
    BY <1>1
  <1>4. Due(S, e, end) = {m[i] : i \in (k + 1 .. end) \ {Len(m) + 1}}
    BY DEF Due
  <1>5. \A p \in Proposals : Member(S, p, e) <=> \E i \in DOMAIN m : m[i] = p
    BY DEF Member, Range
  <1> HIDE DEF m, k
  <1>6. \A i \in (k + 1 .. end) \ {Len(m) + 1} : i \in DOMAIN m /\ k < i /\ i <= end
    BY <1>1, <1>3 DEF m
  <1>7. ASSUME NEW p \in Due(S, e, end)
        PROVE  p \in Proposals /\ Member(S, p, e)
    BY <1>3, <1>4, <1>5, <1>6
  <1>8. ASSUME NEW j \in DOMAIN m
        PROVE  m[j] \in Due(S, e, end) <=> k < j /\ j <= end
    <2>1. j \in Nat /\ j <= Len(m)
      BY <1>3
    <2>2. ASSUME m[j] \in Due(S, e, end) PROVE k < j /\ j <= end
      <3>1. PICK i \in (k + 1 .. end) \ {Len(m) + 1} : m[j] = m[i]
        BY <1>4, <2>2
      <3>2. i = j
        BY <1>2, <1>6, <3>1 DEF IsInjective
      <3>3. QED
        BY <1>6, <3>1, <3>2
    <2>3. ASSUME k < j, j <= end PROVE m[j] \in Due(S, e, end)
      <3>1. j \in (k + 1 .. end) \ {Len(m) + 1}
        BY <1>1, <1>3, <2>1, <2>3
      <3>2. QED
        BY <1>4, <3>1
    <2>4. QED
      BY <2>2, <2>3
  <1>9. QED
    BY <1>7, <1>8 DEF m, k

(* A batch that does not reach the Baseline.                               *)
SettledPart(S, e, end) ==
    [S EXCEPT !.vault = SettledVaults(S, Due(S, e, end)), !.cohorts[e].cursor = end]

LEMMA SettledPartParts ==
    ASSUME NEW S, Sound(S), NEW e \in Epochs, NEW end \in Nat
    PROVE  /\ SettledPart(S, e, end) \in Storage(Working)
           /\ SettledPart(S, e, end).clock = S.clock /\ SettledPart(S, e, end).recent = S.recent
           /\ SettledPart(S, e, end).baseline = S.baseline /\ SettledPart(S, e, end).prop = S.prop
           /\ SettledPart(S, e, end).locks = S.locks /\ SettledPart(S, e, end).funded = S.funded
           /\ SettledPart(S, e, end).stale = S.stale /\ SettledPart(S, e, end).schedules = S.schedules
           /\ SettledPart(S, e, end).vault = SettledVaults(S, Due(S, e, end))
           /\ SettledPart(S, e, end).cohorts[e].members = S.cohorts[e].members
           /\ SettledPart(S, e, end).cohorts[e].cursor = end
           /\ \A f \in Epochs \ {e} : SettledPart(S, e, end).cohorts[f] = S.cohorts[f]
           /\ SettledPart(S, e, end).cohorts \in [Epochs -> [members : Seq(Proposals), cursor : Nat]]
  <1> DEFINE T == SettledPart(S, e, end)
             v == SettledVaults(S, Due(S, e, end))
             d == [S.cohorts[e] EXCEPT !.cursor = end]
  <1>1. /\ S \in Storage(Working)
        /\ S.vault \in [Proposals -> Vaults]
        /\ S.cohorts \in [Epochs -> [members : Seq(Proposals), cursor : Nat]]
    BY StorageParts DEF Sound
  <1>2. T = [S EXCEPT !.vault = v, !.cohorts = [S.cohorts EXCEPT ![e] = d]]
    BY DEF SettledPart, Storage
  <1>3. d \in [members : Seq(Proposals), cursor : Nat] /\ d.members = S.cohorts[e].members /\ d.cursor = end
    BY <1>1
  <1>4. v \in [Proposals -> Vaults]
    <2>1. "Settled" \in Vaults
      BY DEF Vaults
    <2>2. QED
      BY <2>1, <1>1 DEF SettledVaults
  <1> HIDE DEF v, d, T
  <1>5. /\ [S.cohorts EXCEPT ![e] = d] \in [Epochs -> [members : Seq(Proposals), cursor : Nat]]
        /\ [S.cohorts EXCEPT ![e] = d][e] = d
        /\ \A f \in Epochs \ {e} : [S.cohorts EXCEPT ![e] = d][f] = S.cohorts[f]
    BY <1>1, <1>3
  <1> DEFINE c == [S.cohorts EXCEPT ![e] = d]
  <1> HIDE DEF c
  <1>6. /\ T.clock = S.clock /\ T.recent = S.recent /\ T.baseline = S.baseline
        /\ T.prop = S.prop /\ T.locks = S.locks /\ T.funded = S.funded
        /\ T.stale = S.stale /\ T.schedules = S.schedules
        /\ T.vault = v /\ T.cohorts = c
    BY <1>1, <1>2 DEF Storage, c
  <1>7. T \in Storage(Working)
    <2>1. c \in [Epochs -> [members : Seq(Proposals), cursor : Nat]]
      BY <1>5 DEF c
    <2>2. T = [S EXCEPT !.vault = v, !.cohorts = c]
      BY <1>2 DEF c
    <2>3. QED
      BY <1>1, <1>4, <2>1, <2>2 DEF Storage, Vaults
  <1>8. QED
    BY <1>3, <1>5, <1>6, <1>7 DEF T, v, c

LEMMA SettledPartSound ==
    ASSUME NEW S, Sound(S), NEW e \in Epochs,
           NEW end \in Nat, S.cohorts[e].cursor <= end, end <= Len(S.cohorts[e].members)
    PROVE  Sound(SettledPart(S, e, end))
  <1> DEFINE T == SettledPart(S, e, end)
             m == S.cohorts[e].members
             k == S.cohorts[e].cursor
             due == Due(S, e, end)
  <1>1. /\ S \in Storage(Working) /\ S.clock.index <= now \div Length
        /\ S.cohorts \in [Epochs -> [members : Seq(Proposals), cursor : Nat]]
        /\ S.vault \in [Proposals -> Vaults]
        /\ LocksFit(S) /\ MembersFit(S)
        /\ \A p \in Proposals : VaultFits(S, p) /\ DecisionFits(S, p)
        /\ \A f \in Epochs : CohortFits(S, f) /\ NeutralFits(S, f)
    BY StorageParts DEF Sound
  <1>2. /\ T \in Storage(Working)
        /\ T.clock = S.clock /\ T.recent = S.recent /\ T.baseline = S.baseline
        /\ T.prop = S.prop /\ T.locks = S.locks
        /\ T.vault = SettledVaults(S, due)
        /\ T.cohorts[e].members = m /\ T.cohorts[e].cursor = end
        /\ \A f \in Epochs \ {e} : T.cohorts[f] = S.cohorts[f]
    BY SettledPartParts
  <1>3. m \in Seq(Proposals) /\ Len(m) \in Nat /\ DOMAIN m = 1 .. Len(m) /\ k \in Nat
    BY <1>1
  <1>4. /\ \A p \in due : p \in Proposals /\ Member(S, p, e)
        /\ \A j \in DOMAIN m : m[j] \in due <=> k < j /\ j <= end
    <2>1. end <= Len(m) + 1
      BY <1>3
    <2>2. QED
      BY <2>1, DueAreMembers
  <1> HIDE DEF T, due
  <1>5. \A p \in Proposals : T.vault[p] = IF p \in due THEN "Settled" ELSE S.vault[p]
    BY <1>2 DEF SettledVaults
  <1>6. \A p \in due : S.prop[p].state = "Measuring" /\ S.prop[p].epoch = e
    BY <1>1, <1>4 DEF MembersFit
  <1>7. \A p \in Proposals : VaultFits(T, p)
    <2> TAKE p \in Proposals
    <2>1. VaultFits(S, p) /\ T.prop[p] = S.prop[p]
      BY <1>1, <1>2
    <2>2. CASE p \in due
      <3>1. T.vault[p] = "Settled" /\ T.prop[p].state = "Measuring"
        BY <2>1, <2>2, <1>5, <1>6
      <3>2. "Measuring" \notin MarketBearing
        BY DEF MarketBearing, Adopted
      <3>3. QED
        BY <3>1, <3>2 DEF VaultFits
    <2>3. CASE p \notin due
      <3>1. T.vault[p] = S.vault[p]
        BY <2>3, <1>5
      <3>2. QED
        BY <2>1, <3>1 DEF VaultFits
    <2>4. QED
      BY <2>2, <2>3
  <1>8. \A p \in Proposals : DecisionFits(T, p)
    <2> TAKE p \in Proposals
    <2>1. DecisionFits(S, p) /\ T.prop[p] = S.prop[p]
      BY <1>1, <1>2
    <2>2. T.vault[p] = "Accept" => S.vault[p] = "Accept"
      BY <1>5
    <2>3. QED
      BY <2>1, <2>2 DEF DecisionFits
  <1>9. LocksFit(T)
    BY <1>1, <1>2 DEF LocksFit
  <1>10. \A f \in Epochs : T.cohorts[f].members = S.cohorts[f].members
    BY <1>2
  <1>11. MembersFit(T)
    BY <1>1, <1>2, <1>10 DEF MembersFit, Member
  <1>12. CohortFits(T, e)
    <2>1. CohortFits(S, e)
      BY <1>1
    <2>2. \A j \in DOMAIN m : T.vault[m[j]] = "Settled" <=> j <= end
      <3> TAKE j \in DOMAIN m
      <3>1. j \in Nat /\ j <= Len(m) /\ m[j] \in Proposals
        BY <1>3
      <3>2. S.vault[m[j]] = "Settled" <=> j <= k
        BY <2>1 DEF CohortFits
      <3>3. m[j] \in due <=> k < j /\ j <= end
        BY <1>4
      <3>4. T.vault[m[j]] = IF m[j] \in due THEN "Settled" ELSE S.vault[m[j]]
        BY <3>1, <1>5
      <3>5. k <= end
        OBVIOUS
      <3> HIDE DEF m, k
      <3>6. QED
        BY <3>1, <3>2, <3>3, <3>4, <3>5, <1>3
    <2>3. QED
      BY <2>1, <2>2, <1>2 DEF CohortFits
  <1>13. ASSUME NEW f \in Epochs \ {e}
         PROVE  CohortFits(T, f)
    <2>1. CohortFits(S, f) /\ T.cohorts[f] = S.cohorts[f] /\ S.cohorts[f].members \in Seq(Proposals)
      BY <1>1, <1>2
    <2>2. ASSUME NEW i \in DOMAIN S.cohorts[f].members
          PROVE  /\ S.cohorts[f].members[i] \in Proposals
                 /\ S.cohorts[f].members[i] \notin due
      <3>1. S.cohorts[f].members[i] \in Proposals /\ Member(S, S.cohorts[f].members[i], f)
        BY <2>1 DEF Member, Range
      <3>2. QED
        BY <3>1, <1>1, <1>6 DEF MembersFit
    <2>3. QED
      BY <2>1, <2>2, <1>5 DEF CohortFits
  <1>14. ASSUME NEW f \in Epochs
         PROVE  NeutralFits(T, f)
    <2>1. NeutralFits(S, f)
      BY <1>1
    <2>2. CASE f # e
      BY <2>1, <2>2, <1>2 DEF NeutralFits
    <2>3. CASE f = e
      <3>1. CASE T.baseline[e] # "Neutral"
        BY <2>3, <3>1 DEF NeutralFits
      <3>2. CASE T.baseline[e] = "Neutral"
        <4>1. S.cohorts[e] = NoCohort
          BY <2>1, <2>3, <3>2, <1>2 DEF NeutralFits
        <4>2. k = 0 /\ Len(m) = 0 /\ m = <<>>
          BY <4>1 DEF NoCohort
        <4>3. end = 0
          BY <4>2
        <4>4. T.cohorts[e] \in [members : Seq(Proposals), cursor : Nat]
          BY <1>2, StorageParts
        <4>5. T.cohorts[e] = NoCohort
          BY <4>2, <4>3, <4>4, <1>2 DEF NoCohort
        <4>6. QED
          BY <2>1, <2>3, <4>5, <1>2 DEF NeutralFits
      <3>3. QED
        BY <3>1, <3>2
    <2>4. QED
      BY <2>2, <2>3
  <1>15. QED
    BY <1>1, <1>2, <1>7, <1>8, <1>9, <1>11, <1>12, <1>13, <1>14 DEF Sound, T

(* The records that leave with a cohort, and its Baseline.                 *)
SettledRecords(S, gone) ==
    [p \in Proposals |-> IF p \in gone THEN [S.prop[p] EXCEPT !.state = "Settled"] ELSE S.prop[p]]

Closed(S, e, b, gone) == [S EXCEPT !.baseline[e] = b, !.prop = SettledRecords(S, gone)]

LEMMA ClosedParts ==
    ASSUME NEW S, S \in Storage(Working), NEW e \in Epochs,
           NEW b \in {"Absent", "Open", "Settled", "Neutral"}, NEW gone \in SUBSET Proposals
    PROVE  /\ Closed(S, e, b, gone) \in Storage(Working)
           /\ Closed(S, e, b, gone).clock = S.clock /\ Closed(S, e, b, gone).recent = S.recent
           /\ Closed(S, e, b, gone).vault = S.vault /\ Closed(S, e, b, gone).locks = S.locks
           /\ Closed(S, e, b, gone).cohorts = S.cohorts
           /\ Closed(S, e, b, gone).baseline[e] = b
           /\ \A f \in Epochs \ {e} : Closed(S, e, b, gone).baseline[f] = S.baseline[f]
           /\ \A p \in gone : /\ Closed(S, e, b, gone).prop[p].state = "Settled"
                              /\ Closed(S, e, b, gone).prop[p].epoch = S.prop[p].epoch
           /\ \A p \in Proposals \ gone : Closed(S, e, b, gone).prop[p] = S.prop[p]
  <1> DEFINE T == Closed(S, e, b, gone)
             r == SettledRecords(S, gone)
             n == [S.baseline EXCEPT ![e] = b]
  <1>1. /\ S.prop \in [Proposals -> Records(Working)]
        /\ S.baseline \in [Epochs -> {"Absent", "Open", "Settled", "Neutral"}]
    BY StorageParts
  <1>2. "Settled" \in Working
    BY DEF Working, Terminal
  <1>3. ASSUME NEW p \in Proposals
        PROVE  /\ r[p] \in Records(Working)
               /\ p \in gone => r[p].state = "Settled" /\ r[p].epoch = S.prop[p].epoch
               /\ p \notin gone => r[p] = S.prop[p]
    <2>1. S.prop[p] \in Records(Working)
      BY <1>1
    <2>2. CASE p \in gone
      <3>1. r[p] = [S.prop[p] EXCEPT !.state = "Settled"]
        BY <2>2 DEF SettledRecords
      <3>2. QED
        BY <2>1, <2>2, <3>1, <1>2 DEF Records
    <2>3. CASE p \notin gone
      BY <2>1, <2>3 DEF SettledRecords
    <2>4. QED
      BY <2>2, <2>3
  <1>4. r \in [Proposals -> Records(Working)]
    BY <1>3 DEF SettledRecords
  <1>5. /\ n \in [Epochs -> {"Absent", "Open", "Settled", "Neutral"}]
        /\ n[e] = b /\ \A f \in Epochs \ {e} : n[f] = S.baseline[f]
    BY <1>1
  <1>6. T = [S EXCEPT !.baseline = n, !.prop = r]
    BY DEF Closed
  <1> HIDE DEF T, r, n
  <1>7. /\ T \in Storage(Working)
        /\ T.clock = S.clock /\ T.recent = S.recent /\ T.vault = S.vault /\ T.locks = S.locks
        /\ T.cohorts = S.cohorts /\ T.baseline = n /\ T.prop = r
    BY <1>4, <1>5, <1>6 DEF Storage
  <1>8. QED
    BY <1>3, <1>5, <1>7 DEF T

LEMMA ReapParts ==
    ASSUME NEW S, S \in Storage(Working), NEW e \in Epochs, NEW gone \in SUBSET Proposals,
           NEW outcome \in {"Settled", "Voided"}
    PROVE  /\ Reap(S, e, gone, outcome) \in Storage(Working)
           /\ Reap(S, e, gone, outcome).clock = S.clock
           /\ Reap(S, e, gone, outcome).prop = S.prop /\ Reap(S, e, gone, outcome).vault = S.vault
           /\ Reap(S, e, gone, outcome).baseline = S.baseline
           /\ Reap(S, e, gone, outcome).cohorts[e] = NoCohort
           /\ \A f \in Epochs \ {e} : Reap(S, e, gone, outcome).cohorts[f] = S.cohorts[f]
           /\ Reap(S, e, gone, outcome).recent[e] = outcome
           /\ \A f \in Epochs \ {e} : Reap(S, e, gone, outcome).recent[f] = S.recent[f]
           /\ \A x \in Resources :
                Reap(S, e, gone, outcome).locks[x] = IF S.locks[x] \in gone THEN Nobody ELSE S.locks[x]
  <1> DEFINE T == Reap(S, e, gone, outcome)
             l == [x \in Resources |-> IF S.locks[x] \in gone THEN Nobody ELSE S.locks[x]]
             c == [S.cohorts EXCEPT ![e] = NoCohort]
             n == [S.recent EXCEPT ![e] = outcome]
  <1>1. /\ S.locks \in [Resources -> Proposals \union {Nobody}]
        /\ S.cohorts \in [Epochs -> [members : Seq(Proposals), cursor : Nat]]
        /\ S.recent \in [Epochs -> {"None", "Settled", "Voided"}]
    BY StorageParts
  <1>2. T = [S EXCEPT !.cohorts = c, !.recent = n, !.locks = l]
    BY DEF Reap, Storage
  <1>3. NoCohort \in [members : Seq(Proposals), cursor : Nat]
    BY DEF NoCohort
  <1>4. /\ c \in [Epochs -> [members : Seq(Proposals), cursor : Nat]]
        /\ c[e] = NoCohort /\ \A f \in Epochs \ {e} : c[f] = S.cohorts[f]
    BY <1>1, <1>3
  <1>5. /\ n \in [Epochs -> {"None", "Settled", "Voided"}]
        /\ n[e] = outcome /\ \A f \in Epochs \ {e} : n[f] = S.recent[f]
    BY <1>1
  <1>6. /\ l \in [Resources -> Proposals \union {Nobody}]
        /\ \A x \in Resources : l[x] = IF S.locks[x] \in gone THEN Nobody ELSE S.locks[x]
    BY <1>1
  <1> HIDE DEF T, l, c, n
  <1>7. /\ T \in Storage(Working)
        /\ T.clock = S.clock /\ T.prop = S.prop /\ T.vault = S.vault /\ T.baseline = S.baseline
        /\ T.cohorts = c /\ T.recent = n /\ T.locks = l
    BY <1>2, <1>4, <1>5, <1>6 DEF Storage
  <1>8. QED
    BY <1>4, <1>5, <1>6, <1>7 DEF T

(* With the Baseline the cohort is settled as a whole, and archived.       *)
LEMMA SettledWholeSound ==
    ASSUME NEW S, Sound(S), NEW e \in Epochs,
           NEW end, end = Len(S.cohorts[e].members) + 1,
           NEW gone, gone = Range(S.cohorts[e].members)
    PROVE  Sound(Reap(Closed(SettledPart(S, e, end), e, "Settled", gone), e, gone, "Settled"))
  <1> DEFINE m == S.cohorts[e].members
             k == S.cohorts[e].cursor
             D == SettledPart(S, e, end)
             A == Closed(D, e, "Settled", gone)
             T == Reap(A, e, gone, "Settled")
             due == Due(S, e, end)
  <1>1. /\ S \in Storage(Working)
        /\ S.cohorts \in [Epochs -> [members : Seq(Proposals), cursor : Nat]]
        /\ LocksFit(S) /\ MembersFit(S)
        /\ \A p \in Proposals : VaultFits(S, p) /\ DecisionFits(S, p)
        /\ \A f \in Epochs : CohortFits(S, f) /\ NeutralFits(S, f)
    BY StorageParts DEF Sound
  <1>2. /\ m \in Seq(Proposals) /\ Len(m) \in Nat /\ DOMAIN m = 1 .. Len(m) /\ k \in Nat
        /\ end \in Nat /\ end <= Len(m) + 1
    BY <1>1
  <1>3. gone \in SUBSET Proposals /\ gone = {m[i] : i \in DOMAIN m}
    <2>1. \A i \in DOMAIN m : m[i] \in Proposals
      BY <1>2
    <2>2. gone = {m[i] : i \in DOMAIN m}
      BY DEF Range
    <2>3. QED
      BY <2>1, <2>2
  <1>4. /\ D \in Storage(Working)
        /\ D.clock = S.clock /\ D.recent = S.recent /\ D.baseline = S.baseline
        /\ D.prop = S.prop /\ D.locks = S.locks
        /\ D.vault = SettledVaults(S, due)
        /\ \A f \in Epochs \ {e} : D.cohorts[f] = S.cohorts[f]
    BY <1>2, SettledPartParts
  <1>5. /\ \A p \in due : Member(S, p, e)
        /\ \A j \in DOMAIN m : m[j] \in due <=> k < j /\ j <= end
    BY <1>2, DueAreMembers
  <1> HIDE DEF D, due
  <1>6. \A p \in Proposals : Member(S, p, e) <=> p \in gone
    BY DEF Member
  <1>7. \A p \in gone : SettledVaults(S, due)[p] = "Settled"
    <2> TAKE p \in gone
    <2>1. PICK j \in DOMAIN m : p = m[j]
      BY <1>3
    <2>2. j \in Nat /\ j <= end /\ p \in Proposals
      BY <2>1, <1>2, <1>3
    <2>3. CASE k < j
      BY <2>1, <2>2, <2>3, <1>5 DEF SettledVaults
    <2>4. CASE ~(k < j)
      <3>1. S.vault[p] = "Settled"
        <4>1. CohortFits(S, e) /\ j <= k
          BY <2>2, <2>4, <1>1, <1>2
        <4>2. QED
          BY <4>1, <2>1 DEF CohortFits
      <3>2. QED
        BY <3>1, <2>2 DEF SettledVaults
    <2>5. QED
      BY <2>3, <2>4
  <1>8. \A p \in Proposals \ gone : SettledVaults(S, due)[p] = S.vault[p]
    BY <1>5, <1>6 DEF SettledVaults
  <1>9. /\ A \in Storage(Working)
        /\ A.clock = S.clock /\ A.recent = S.recent /\ A.vault = D.vault /\ A.locks = S.locks
        /\ A.cohorts = D.cohorts
        /\ A.baseline[e] = "Settled"
        /\ \A f \in Epochs \ {e} : A.baseline[f] = S.baseline[f]
        /\ \A p \in gone : A.prop[p].state = "Settled"
        /\ \A p \in Proposals \ gone : A.prop[p] = S.prop[p]
    BY <1>3, <1>4, ClosedParts
  <1> HIDE DEF A
  <1>10. /\ T \in Storage(Working)
         /\ T.clock = S.clock /\ T.prop = A.prop /\ T.vault = D.vault /\ T.baseline = A.baseline
         /\ T.cohorts[e] = NoCohort
         /\ \A f \in Epochs \ {e} : T.cohorts[f] = S.cohorts[f] /\ T.recent[f] = S.recent[f]
         /\ \A x \in Resources : T.locks[x] = IF S.locks[x] \in gone THEN Nobody ELSE S.locks[x]
    BY <1>3, <1>4, <1>9, ReapParts
  <1> HIDE DEF T, m, k
  <1>11. \A p \in Proposals \ gone : T.prop[p] = S.prop[p] /\ T.vault[p] = S.vault[p]
    BY <1>4, <1>8, <1>9, <1>10
  <1>12. \A p \in gone : T.prop[p].state = "Settled" /\ T.vault[p] = "Settled"
    BY <1>4, <1>7, <1>9, <1>10
  <1>13. /\ "Settled" \notin InProgress \union MarketBearing \union Adopted \union Undecided
         /\ "Settled" \in Ended
    BY DEF InProgress, MarketBearing, Adopted, Undecided, Ended, Terminal
  <1>14. \A p \in gone : /\ T.prop[p].state \notin InProgress \union {"Measuring"}
                         /\ VaultFits(T, p) /\ DecisionFits(T, p)
    <2> TAKE p \in gone
    <2>1. VaultFits(T, p)
      BY <1>12, <1>13 DEF VaultFits
    <2>2. DecisionFits(T, p)
      BY <1>12, <1>13 DEF DecisionFits
    <2>3. QED
      BY <2>1, <2>2, <1>12, <1>13
  <1>15. ASSUME NEW f \in Epochs
         PROVE  \/ /\ T.cohorts[f] = NoCohort
                   /\ \A p \in Proposals : Member(S, p, f) => p \in gone
                \/ /\ T.cohorts[f] = S.cohorts[f]
                   /\ \A p \in gone : ~Member(S, p, f)
    <2>1. CASE f = e
      BY <2>1, <1>6, <1>10
    <2>2. CASE f # e
      <3>1. \A p \in gone : ~Member(S, p, f)
        <4> TAKE p \in gone
        <4>1. p \in Proposals /\ Member(S, p, e)
          BY <1>3, <1>6
        <4>2. S.prop[p].epoch = e
          BY <4>1, <1>1 DEF MembersFit
        <4>3. QED
          BY <4>1, <4>2, <2>2, <1>1 DEF MembersFit
      <3>2. QED
        BY <3>1, <2>2, <1>10
    <2>3. QED
      BY <2>1, <2>2
  <1>16. ASSUME NEW f \in Epochs PROVE NeutralFits(T, f)
    <2>1. CASE f = e
      BY <2>1, <1>9, <1>10 DEF NeutralFits
    <2>2. CASE f # e
      <3>1. NeutralFits(S, f) /\ T.baseline[f] = S.baseline[f] /\ T.cohorts[f] = S.cohorts[f]
            /\ T.recent[f] = S.recent[f]
        BY <2>2, <1>1, <1>9, <1>10
      <3>2. \A p \in Proposals : T.prop[p].state \notin InProgress \union {"Measuring", "Submitted"}
                                 \/ T.prop[p] = S.prop[p]
        BY <1>11, <1>12, <1>13
      <3>3. QED
        BY <3>1, <3>2, <1>10 DEF NeutralFits
    <2>3. QED
      BY <2>1, <2>2
  <1>17. Leave(S, T, gone)
    BY <1>10, <1>11, <1>14, <1>15, <1>16 DEF Leave
  <1>18. QED
    BY <1>3, <1>17, LeaveSound DEF T, A, D

(* Vaults voided together.                                                 *)
VoidedVaults(S, priced) == [p \in Proposals |-> IF p \in priced THEN "Voided" ELSE S.vault[p]]

VoidAll(S, priced) == [S EXCEPT !.vault = VoidedVaults(S, priced)]

LEMMA VoidAllParts ==
    ASSUME NEW S, S \in Storage(Working), NEW priced \in SUBSET Proposals
    PROVE  /\ VoidAll(S, priced) \in Storage(Working)
           /\ VoidAll(S, priced).clock = S.clock /\ VoidAll(S, priced).recent = S.recent
           /\ VoidAll(S, priced).baseline = S.baseline /\ VoidAll(S, priced).prop = S.prop
           /\ VoidAll(S, priced).locks = S.locks /\ VoidAll(S, priced).cohorts = S.cohorts
           /\ \A p \in Proposals :
                VoidAll(S, priced).vault[p] = IF p \in priced THEN "Voided" ELSE S.vault[p]
  <1> DEFINE T == VoidAll(S, priced)
             v == VoidedVaults(S, priced)
  <1>1. S.vault \in [Proposals -> Vaults] /\ "Voided" \in Vaults
    BY StorageParts DEF Vaults
  <1>2. /\ v \in [Proposals -> Vaults]
        /\ \A p \in Proposals : v[p] = IF p \in priced THEN "Voided" ELSE S.vault[p]
    BY <1>1 DEF VoidedVaults
  <1>3. T = [S EXCEPT !.vault = v]
    BY DEF VoidAll
  <1> HIDE DEF T, v
  <1>4. /\ T \in Storage(Working)
        /\ T.clock = S.clock /\ T.recent = S.recent /\ T.baseline = S.baseline
        /\ T.prop = S.prop /\ T.locks = S.locks /\ T.cohorts = S.cohorts /\ T.vault = v
    BY <1>2, <1>3 DEF Storage, Vaults
  <1>5. QED
    BY <1>2, <1>4 DEF T

(* A voided cohort takes along whatever of its epoch is in progress, with  *)
(* the vaults of those whose books stand.                                  *)
LEMMA VoidedSound ==
    ASSUME NEW S, Sound(S), NEW e \in Epochs,
           NEW affected \in SUBSET Proposals,
           \A p \in Proposals :
              p \in affected <=> Member(S, p, e) \/ (S.prop[p].epoch = e /\ S.prop[p].state \in InProgress),
           NEW priced \in SUBSET affected,
           \A p \in affected : p \in priced <=> S.prop[p].state \in MarketBearing \union {"Measuring"},
           NEW b \in {"Absent", "Open", "Settled", "Neutral"}
    PROVE  Sound(Reap(Closed(VoidAll(S, priced), e, b, affected), e, affected, "Voided"))
  <1> DEFINE D == VoidAll(S, priced)
             A == Closed(D, e, b, affected)
             T == Reap(A, e, affected, "Voided")
  <1>1. /\ S \in Storage(Working)
        /\ LocksFit(S) /\ MembersFit(S)
        /\ \A p \in Proposals : VaultFits(S, p) /\ DecisionFits(S, p)
        /\ \A f \in Epochs : CohortFits(S, f) /\ NeutralFits(S, f)
    BY DEF Sound
  <1>2. /\ D \in Storage(Working)
        /\ D.clock = S.clock /\ D.recent = S.recent /\ D.baseline = S.baseline
        /\ D.prop = S.prop /\ D.locks = S.locks /\ D.cohorts = S.cohorts
        /\ \A p \in Proposals : D.vault[p] = IF p \in priced THEN "Voided" ELSE S.vault[p]
    <2>1. priced \in SUBSET Proposals
      OBVIOUS
    <2>2. QED
      BY <2>1, <1>1, VoidAllParts
  <1> HIDE DEF D
  <1>3. /\ A \in Storage(Working)
        /\ A.clock = S.clock /\ A.recent = S.recent /\ A.vault = D.vault /\ A.locks = S.locks
        /\ A.cohorts = S.cohorts
        /\ \A f \in Epochs \ {e} : A.baseline[f] = S.baseline[f]
        /\ \A p \in affected : A.prop[p].state = "Settled" /\ A.prop[p].epoch = S.prop[p].epoch
        /\ \A p \in Proposals \ affected : A.prop[p] = S.prop[p]
    BY <1>2, ClosedParts
  <1> HIDE DEF A
  <1>4. /\ T \in Storage(Working)
        /\ T.clock = S.clock /\ T.prop = A.prop /\ T.vault = D.vault /\ T.baseline = A.baseline
        /\ T.cohorts[e] = NoCohort /\ T.recent[e] = "Voided"
        /\ \A f \in Epochs \ {e} : T.cohorts[f] = S.cohorts[f] /\ T.recent[f] = S.recent[f]
        /\ \A x \in Resources : T.locks[x] = IF S.locks[x] \in affected THEN Nobody ELSE S.locks[x]
    BY <1>3, ReapParts
  <1> HIDE DEF T
  <1>5. \A p \in Proposals \ affected : T.prop[p] = S.prop[p] /\ T.vault[p] = S.vault[p]
    BY <1>2, <1>3, <1>4
  <1>6. \A p \in affected : /\ T.prop[p].state = "Settled" /\ T.prop[p].epoch = S.prop[p].epoch
                            /\ T.vault[p] = IF p \in priced THEN "Voided" ELSE S.vault[p]
    BY <1>2, <1>3, <1>4
  <1>7. /\ "Settled" \notin InProgress \union MarketBearing \union Adopted \union Undecided
        /\ "Settled" \in Ended
    BY DEF InProgress, MarketBearing, Adopted, Undecided, Ended, Terminal
  <1>8. \A p \in affected : /\ T.prop[p].state \notin InProgress \union {"Measuring"}
                            /\ VaultFits(T, p) /\ DecisionFits(T, p)
    <2> TAKE p \in affected
    <2>1. VaultFits(T, p)
      <3>1. T.vault[p] \notin {"Open", "Accept", "Reject"}
        <4>1. CASE p \in priced
          BY <4>1, <1>6
        <4>2. CASE p \notin priced
          <5>1. T.vault[p] = S.vault[p] /\ S.prop[p].state \notin MarketBearing \union {"Measuring"}
            BY <4>2, <1>6
          <5>2. VaultFits(S, p)
            BY <1>1
          <5>3. QED
            BY <5>1, <5>2 DEF VaultFits
        <4>3. QED
          BY <4>1, <4>2
      <3>2. QED
        BY <3>1, <1>6, <1>7 DEF VaultFits
    <2>2. DecisionFits(T, p)
      BY <1>6, <1>7 DEF DecisionFits
    <2>3. QED
      BY <2>1, <2>2, <1>6, <1>7
  <1>9. ASSUME NEW f \in Epochs
        PROVE  \/ /\ T.cohorts[f] = NoCohort
                  /\ \A p \in Proposals : Member(S, p, f) => p \in affected
               \/ /\ T.cohorts[f] = S.cohorts[f]
                  /\ \A p \in affected : ~Member(S, p, f)
    <2>1. CASE f = e
      BY <2>1, <1>4
    <2>2. CASE f # e
      <3>1. \A p \in affected : ~Member(S, p, f)
        <4> TAKE p \in affected
        <4>1. S.prop[p].epoch = e
          BY <1>1 DEF MembersFit
        <4>2. QED
          BY <4>1, <2>2, <1>1 DEF MembersFit
      <3>2. QED
        BY <3>1, <2>2, <1>4
    <2>3. QED
      BY <2>1, <2>2
  <1>10. ASSUME NEW f \in Epochs PROVE NeutralFits(T, f)
    <2>1. CASE f = e
      <3>1. \A p \in Proposals : T.prop[p].epoch = e => T.prop[p].state \notin InProgress \union {"Measuring"}
        <4> SUFFICES ASSUME NEW p \in Proposals, T.prop[p].epoch = e
                     PROVE  T.prop[p].state \notin InProgress \union {"Measuring"}
          OBVIOUS
        <4>1. CASE p \in affected
          BY <4>1, <1>8
        <4>2. CASE p \notin affected
          <5>1. T.prop[p] = S.prop[p] /\ ~Member(S, p, e) /\ S.prop[p].state \notin InProgress
            BY <4>2, <1>5
          <5>2. QED
            BY <5>1, <1>1 DEF MembersFit
        <4>3. QED
          BY <4>1, <4>2
      <3>2. QED
        BY <3>1, <2>1, <1>4 DEF NeutralFits
    <2>2. CASE f # e
      <3>1. NeutralFits(S, f) /\ T.baseline[f] = S.baseline[f] /\ T.cohorts[f] = S.cohorts[f]
            /\ T.recent[f] = S.recent[f]
        BY <2>2, <1>1, <1>3, <1>4
      <3>2. \A p \in Proposals : T.prop[p].state \notin InProgress \union {"Measuring", "Submitted"}
                                 \/ T.prop[p] = S.prop[p]
        BY <1>5, <1>6, <1>7
      <3>3. QED
        BY <3>1, <3>2, <1>4 DEF NeutralFits
    <2>3. QED
      BY <2>1, <2>2
  <1>11. Leave(S, T, affected)
    BY <1>4, <1>5, <1>8, <1>9, <1>10 DEF Leave
  <1>12. QED
    BY <1>11, LeaveSound DEF T, A, D

(* finalize_epoch_baseline: nothing of the epoch is pending any more.      *)
LEMMA FinalizedSound ==
    ASSUME NEW S, Sound(S), NEW e \in Epochs,
           e < S.clock.index, S.cohorts[e] = NoCohort,
           \A p \in Proposals : S.prop[p].epoch = e => S.prop[p].state \notin Stored
    PROVE  Sound([S EXCEPT !.baseline[e] = IF @ = "Open" THEN "Neutral" ELSE @])
  <1> DEFINE b == IF S.baseline[e] = "Open" THEN "Neutral" ELSE S.baseline[e]
             n == [S.baseline EXCEPT ![e] = b]
             T == [S EXCEPT !.baseline = n]
  <1>1. /\ S \in Storage(Working) /\ S.clock.index <= now \div Length
        /\ S.baseline \in [Epochs -> {"Absent", "Open", "Settled", "Neutral"}]
    BY StorageParts DEF Sound
  <1>2. b \in {"Absent", "Open", "Settled", "Neutral"}
    BY <1>1
  <1>3. T = [S EXCEPT !.baseline[e] = IF @ = "Open" THEN "Neutral" ELSE @]
    OBVIOUS
  <1> HIDE DEF b
  <1>4. /\ n \in [Epochs -> {"Absent", "Open", "Settled", "Neutral"}]
        /\ \A f \in Epochs \ {e} : n[f] = S.baseline[f]
    BY <1>1, <1>2
  <1> HIDE DEF n
  <1>5. /\ T \in Storage(Working)
        /\ T.clock = S.clock /\ T.recent = S.recent /\ T.vault = S.vault /\ T.prop = S.prop
        /\ T.locks = S.locks /\ T.cohorts = S.cohorts /\ T.baseline = n
    BY <1>1, <1>4 DEF Storage
  <1> HIDE DEF T
  <1>6. \A p \in Proposals : VaultFits(T, p) /\ DecisionFits(T, p)
    BY <1>5 DEF Sound, VaultFits, DecisionFits
  <1>7. LocksFit(T) /\ MembersFit(T)
    <2>1. LocksFit(T)
      BY <1>5 DEF Sound, LocksFit
    <2>2. MembersFit(T)
      BY <1>5 DEF Sound, MembersFit, Member
    <2>3. QED
      BY <2>1, <2>2
  <1>8. \A f \in Epochs : CohortFits(T, f)
    BY <1>5 DEF Sound, CohortFits
  <1>9. \A f \in Epochs : NeutralFits(T, f)
    <2> TAKE f \in Epochs
    <2>1. CASE f = e
      <3>1. InProgress \union {"Measuring", "Submitted"} \subseteq Stored
        BY DEF Stored, ForceRejectable
      <3>2. QED
        BY <2>1, <3>1, <1>5 DEF NeutralFits
    <2>2. CASE f # e
      BY <2>2, <1>4, <1>5 DEF Sound, NeutralFits
    <2>3. QED
      BY <2>1, <2>2
  <1>10. Sound(T)
    BY <1>1, <1>5, <1>6, <1>7, <1>8, <1>9 DEF Sound
  <1>11. QED
    BY <1>3, <1>10

----------------------------------------------------------------------------
(* What a call stores.                                                     *)

LEMMA StoredParts ==
    ASSUME NEW r \in Records(Working)
    PROVE  /\ StoredRecord(r) \in Records(States)
           /\ r.state \in Terminal => StoredRecord(r).state = "Gone" /\ StoredRecord(r).decision = "None"
           /\ r.state \notin Terminal => /\ StoredRecord(r).state = r.state
                                         /\ StoredRecord(r).epoch = r.epoch
                                         /\ StoredRecord(r).decision = r.decision
           /\ r.state \in InProgress \union {"Submitted"} => StoredRecord(r) = r
  <1>1. 0 \in Epochs /\ 0 \in Nat
    BY EpochParameters, Quotients DEF Epochs
  <1> DEFINE R(s, e, d) == [state |-> s, epoch |-> e, resources |-> {}, rolled |-> FALSE, rerun |-> FALSE,
                            delayed |-> FALSE, due |-> 0, decision |-> d]
  <1>2. \A s \in States, e \in Epochs, d \in {"None", "Adopt", "Reject"} :
          R(s, e, d) \in Records(States) /\ R(s, e, d).state = s /\ R(s, e, d).epoch = e /\ R(s, e, d).decision = d
    BY <1>1 DEF Records
  <1>3. CASE r.state \in Terminal
    <2>1. r.state # "Measuring" /\ r.state \notin InProgress \union {"Submitted"}
      BY <1>3, WorkingStates DEF ForceRejectable
    <2>2. StoredRecord(r) = R("Gone", 0, "None")
      BY <1>3, <2>1 DEF StoredRecord, Blank
    <2>3. "Gone" \in States /\ "None" \in {"None", "Adopt", "Reject"}
      BY DEF States
    <2> HIDE DEF R
    <2>4. StoredRecord(r) \in Records(States) /\ StoredRecord(r).state = "Gone"
          /\ StoredRecord(r).decision = "None"
      BY <1>1, <1>2, <2>2, <2>3
    <2>5. QED
      BY <1>3, <2>1, <2>4
  <1>4. CASE r.state = "Measuring"
    <2>1. r.state \notin Terminal /\ r.state \notin InProgress \union {"Submitted"}
      BY <1>4, WorkingStates
    <2>2. StoredRecord(r) = R("Measuring", r.epoch, r.decision)
      BY <1>4, <2>1 DEF StoredRecord, Blank
    <2>3. "Measuring" \in States /\ r.epoch \in Epochs /\ r.decision \in {"None", "Adopt", "Reject"}
      BY DEF States, Stored, Records
    <2> HIDE DEF R
    <2>4. StoredRecord(r) \in Records(States) /\ StoredRecord(r).state = "Measuring"
          /\ StoredRecord(r).epoch = r.epoch /\ StoredRecord(r).decision = r.decision
      BY <1>2, <2>2, <2>3
    <2>5. QED
      BY <1>4, <2>1, <2>4
  <1>5. CASE r.state \notin Terminal /\ r.state # "Measuring"
    <2>1. StoredRecord(r) = r
      BY <1>5 DEF StoredRecord
    <2>2. r \in Records(States)
      BY <1>5 DEF Records, Working
    <2>3. QED
      BY <1>5, <2>1, <2>2
  <1>6. QED
    BY <1>3, <1>4, <1>5

(* The storage after a call is sound, typed, and the schedules name the    *)
(* members.                                                                *)
LEMMA PersistSound ==
    ASSUME NEW S, Sound(S), NEW T \in Persist(S)
    PROVE  /\ Sound(T) /\ T \in Storage(States)
           /\ \A e \in Epochs : T.schedules[e] = T.cohorts[e].members
           /\ T.vault = S.vault /\ T.stale = S.stale
  <1> DEFINE m == [e \in Epochs |-> S.cohorts[e].members]
             r == [p \in Proposals |-> StoredRecord(S.prop[p])]
             g == {p \in S.funded : S.prop[p].state = "Qualified"}
  <1>1. /\ S \in Storage(Working) /\ S.clock.index <= now \div Length
        /\ S.cohorts \in [Epochs -> [members : Seq(Proposals), cursor : Nat]]
        /\ S.locks \in [Resources -> Proposals \union {Nobody}]
        /\ S.funded \subseteq Proposals
    BY StorageParts DEF Sound
  <1>2. T = [S EXCEPT !.schedules = m, !.prop = r, !.funded = g]
    BY DEF Persist
  <1>3. m \in [Epochs -> Seq(Proposals)] /\ \A e \in Epochs : m[e] = S.cohorts[e].members
    BY <1>1
  <1>4. \A p \in Proposals :
          /\ r[p] \in Records(States)
          /\ S.prop[p].state \in Terminal => r[p].state = "Gone" /\ r[p].decision = "None"
          /\ S.prop[p].state \notin Terminal => /\ r[p].state = S.prop[p].state
                                                /\ r[p].epoch = S.prop[p].epoch
                                                /\ r[p].decision = S.prop[p].decision
          /\ S.prop[p].state \in InProgress \union {"Submitted"} => r[p] = S.prop[p]
    <2> TAKE p \in Proposals
    <2>1. r[p] = StoredRecord(S.prop[p]) /\ S.prop[p] \in Records(Working)
      BY <1>1, RecordParts
    <2> HIDE DEF r
    <2>2. QED
      BY <2>1, StoredParts
  <1>5. r \in [Proposals -> Records(States)]
    BY <1>4
  <1>6. g \subseteq Proposals
    BY <1>1
  <1> HIDE DEF m, r, g
  <1>7. /\ T \in Storage(States)
        /\ T.clock = S.clock /\ T.recent = S.recent /\ T.vault = S.vault /\ T.baseline = S.baseline
        /\ T.locks = S.locks /\ T.cohorts = S.cohorts /\ T.stale = S.stale
        /\ T.schedules = m /\ T.prop = r
    BY <1>1, <1>2, <1>3, <1>5, <1>6 DEF Storage
  <1>8. T \in Storage(Working)
    <2>1. Records(States) \subseteq Records(Working)
      BY DEF Records, Working
    <2>2. r \in [Proposals -> Records(Working)]
      BY <1>5, <2>1
    <2>3. QED
      BY <1>7, <2>2 DEF Storage
  <1>9. /\ Terminal \intersect (InProgress \union MarketBearing \union Adopted \union Undecided
                                \union {"Measuring", "Submitted", "Absent", "Rerun"}) = {}
        /\ Terminal \subseteq Ended /\ "Gone" \in Ended
        /\ "Gone" \notin InProgress \union MarketBearing \union Adopted \union Undecided
    BY DEF Terminal, Ended, InProgress, MarketBearing, Adopted, Undecided
  <1>10. \A p \in Proposals : VaultFits(T, p)
    <2> TAKE p \in Proposals
    <2>1. VaultFits(S, p) /\ T.vault[p] = S.vault[p] /\ T.prop[p] = r[p]
      BY <1>7 DEF Sound
    <2>2. CASE S.prop[p].state \in Terminal
      <3>1. T.vault[p] \notin {"Open", "Accept", "Reject"}
        BY <2>1, <2>2, <1>9 DEF VaultFits
      <3>2. T.prop[p].state = "Gone"
        BY <2>1, <2>2, <1>4
      <3>3. QED
        BY <3>1, <3>2, <1>9 DEF VaultFits
    <2>3. CASE S.prop[p].state \notin Terminal
      <3>1. T.prop[p].state = S.prop[p].state
        BY <2>1, <2>3, <1>4
      <3>2. QED
        BY <2>1, <3>1 DEF VaultFits
    <2>4. QED
      BY <2>2, <2>3
  <1>11. \A p \in Proposals : DecisionFits(T, p)
    <2> TAKE p \in Proposals
    <2>1. DecisionFits(S, p) /\ T.vault[p] = S.vault[p] /\ T.prop[p] = r[p]
      BY <1>7 DEF Sound
    <2>2. CASE S.prop[p].state \in Terminal
      <3>1. T.prop[p].state = "Gone"
        BY <2>1, <2>2, <1>4
      <3>2. QED
        BY <3>1, <1>9 DEF DecisionFits
    <2>3. CASE S.prop[p].state \notin Terminal
      <3>1. T.prop[p].state = S.prop[p].state /\ T.prop[p].decision = S.prop[p].decision
        BY <2>1, <2>3, <1>4
      <3>2. QED
        BY <2>1, <3>1 DEF DecisionFits
    <2>4. QED
      BY <2>2, <2>3
  <1>12. \A p \in Proposals : /\ T.prop[p].state \in InProgress => T.prop[p] = S.prop[p]
                              /\ S.prop[p].state \in InProgress \union {"Measuring"} =>
                                   T.prop[p].state = S.prop[p].state
                              /\ T.prop[p].state \in InProgress \union {"Measuring", "Submitted"} =>
                                   T.prop[p].state = S.prop[p].state /\ T.prop[p].epoch = S.prop[p].epoch
    <2> TAKE p \in Proposals
    <2>1. CASE S.prop[p].state \in Terminal
      <3>1. T.prop[p].state = "Gone"
        BY <2>1, <1>4, <1>7
      <3>2. QED
        BY <2>1, <3>1, <1>9
    <2>2. CASE S.prop[p].state \notin Terminal
      BY <2>2, <1>4, <1>7
    <2>3. QED
      BY <2>1, <2>2
  <1>13. LocksFit(T)
    <2>1. LocksFit(S)
      BY DEF Sound
    <2>2. ASSUME NEW p \in Proposals, T.prop[p].state \in InProgress, NEW x \in T.prop[p].resources
          PROVE  T.locks[x] = p
      BY <2>1, <2>2, <1>7, <1>12 DEF LocksFit
    <2>3. ASSUME NEW x \in Resources, T.locks[x] # Nobody
          PROVE  T.prop[T.locks[x]].state \in InProgress \union {"Measuring"}
      <3>1. S.locks[x] \in Proposals /\ S.prop[S.locks[x]].state \in InProgress \union {"Measuring"}
        BY <2>1, <2>3, <1>1, <1>7 DEF LocksFit
      <3>2. QED
        BY <3>1, <1>7, <1>12
    <2>4. QED
      BY <2>2, <2>3 DEF LocksFit
  <1>14. MembersFit(T)
    <2> SUFFICES ASSUME NEW p \in Proposals, NEW e \in Epochs
                 PROVE  Member(T, p, e) <=> T.prop[p].state = "Measuring" /\ T.prop[p].epoch = e
      BY DEF MembersFit
    <2>1. Member(T, p, e) <=> S.prop[p].state = "Measuring" /\ S.prop[p].epoch = e
      BY <1>7 DEF Sound, MembersFit, Member
    <2>2. QED
      BY <2>1, <1>12
  <1>15. \A e \in Epochs : CohortFits(T, e)
    BY <1>7 DEF Sound, CohortFits
  <1>16. \A e \in Epochs : NeutralFits(T, e)
    <2> TAKE e \in Epochs
    <2>1. NeutralFits(S, e)
      BY DEF Sound
    <2>2. QED
      BY <2>1, <1>7, <1>12 DEF NeutralFits
  <1>17. Sound(T)
    BY <1>1, <1>7, <1>8, <1>10, <1>11, <1>13, <1>14, <1>15, <1>16 DEF Sound
  <1>18. QED
    BY <1>3, <1>7, <1>17

----------------------------------------------------------------------------
(* A batch, one item after the other.  What holds at the start and is kept *)
(* by every item holds at the end: the first item after which it does not  *)
(* hold would be a least one.                                              *)

(* The storages after each of the first n items.                           *)
After(f, T, o, frozen, n) ==
    f = [i \in 0 .. n |-> IF i = 0 THEN {T} ELSE UNION {TickOne(U, o[i], frozen) : U \in f[i - 1]}]

NextAfter(X, p, frozen) == UNION {TickOne(U, p, frozen) : U \in X}

LEMMA AfterParts ==
    ASSUME NEW f, NEW T, NEW o, NEW frozen, NEW n \in Nat
    PROVE  After(f, T, o, frozen, n) <=>
             /\ f = [i \in 0 .. n |-> f[i]]
             /\ f[0] = {T}
             /\ \A i \in 1 .. n : f[i] = NextAfter(f[i - 1], o[i], frozen)
  <1> DEFINE F(i) == IF i = 0 THEN {T} ELSE NextAfter(f[i - 1], o[i], frozen)
  <1>1. After(f, T, o, frozen, n) <=> f = [i \in 0 .. n |-> F(i)]
    BY DEF After, NextAfter
  <1>2. F(0) = {T} /\ \A i \in 1 .. n : F(i) = NextAfter(f[i - 1], o[i], frozen)
    OBVIOUS
  <1>3. 0 \in 0 .. n /\ 1 .. n \subseteq 0 .. n /\ \A i \in 0 .. n : i = 0 \/ i \in 1 .. n
    OBVIOUS
  <1> HIDE DEF F
  <1>4. f = [i \in 0 .. n |-> F(i)] => \A i \in 0 .. n : f[i] = F(i)
    OBVIOUS
  <1>5. f = [i \in 0 .. n |-> F(i)] => f = [i \in 0 .. n |-> f[i]]
    OBVIOUS
  <1>6. f = [i \in 0 .. n |-> f[i]] /\ (\A i \in 0 .. n : f[i] = F(i)) => f = [i \in 0 .. n |-> F(i)]
    OBVIOUS
  <1>7. QED
    BY <1>1, <1>2, <1>3, <1>4, <1>5, <1>6

LEMMA AfterExists ==
    ASSUME NEW T, NEW o, NEW frozen
    PROVE  \A n \in Nat : \E f : After(f, T, o, frozen, n)
  <1> DEFINE X == {n \in Nat : ~ \E f : After(f, T, o, frozen, n)}
  <1>1. SUFFICES ASSUME X # {} PROVE FALSE
    OBVIOUS
  <1>2. PICK n \in X : \A y \in X : ~(y < n)
    BY <1>1, LeastNatural
  <1>3. CASE n = 0
    <2>1. \E f : f = [i \in 0 .. 0 |-> {T}]
      OBVIOUS
    <2>2. PICK f : f = [i \in 0 .. 0 |-> {T}]
      BY <2>1
    <2>3. f = [i \in 0 .. 0 |-> f[i]] /\ f[0] = {T} /\ 1 .. 0 = {} /\ 0 \in Nat
      BY <2>2
    <2>4. After(f, T, o, frozen, 0)
      BY <2>3, AfterParts
    <2>5. QED
      BY <1>3, <2>4
  <1>4. CASE n # 0
    <2>1. n \in Nat /\ n - 1 \in Nat /\ n - 1 < n
      BY <1>4
    <2>2. PICK g : After(g, T, o, frozen, n - 1)
      BY <1>2, <2>1
    <2>3. \E f : f = [i \in 0 .. n |-> IF i = n THEN NextAfter(g[n - 1], o[n], frozen) ELSE g[i]]
      OBVIOUS
    <2>4. PICK f : f = [i \in 0 .. n |-> IF i = n THEN NextAfter(g[n - 1], o[n], frozen) ELSE g[i]]
      BY <2>3
    <2>5. f = [i \in 0 .. n |-> f[i]] /\ f[n] = NextAfter(g[n - 1], o[n], frozen)
      BY <2>1, <2>4
    <2>6. \A i \in 0 .. n - 1 : f[i] = g[i]
      BY <2>1, <2>4
    <2>7. g[0] = {T} /\ \A i \in 1 .. n - 1 : g[i] = NextAfter(g[i - 1], o[i], frozen)
      BY <2>1, <2>2, AfterParts
    <2>8. f[0] = {T}
      <3>1. 0 \in 0 .. n - 1
        BY <2>1
      <3>2. QED
        BY <3>1, <2>6, <2>7
    <2>9. ASSUME NEW i \in 1 .. n PROVE f[i] = NextAfter(f[i - 1], o[i], frozen)
      <3>1. i - 1 \in 0 .. n - 1
        BY <2>1
      <3>2. f[i - 1] = g[i - 1]
        BY <3>1, <2>6
      <3>3. CASE i = n
        BY <3>2, <3>3, <2>5
      <3>4. CASE i # n
        <4>1. i \in 0 .. n - 1 /\ i \in 1 .. n - 1
          BY <3>4, <2>1
        <4>2. f[i] = g[i]
          BY <4>1, <2>6
        <4>3. QED
          BY <4>1, <4>2, <3>2, <2>7
      <3>5. QED
        BY <3>3, <3>4
    <2>10. After(f, T, o, frozen, n)
      BY <2>1, <2>5, <2>8, <2>9, AfterParts
    <2>11. QED
      BY <2>10
  <1>5. QED
    BY <1>3, <1>4

LEMMA BatchKeeps ==
    ASSUME NEW G, NEW T \in G, NEW o, NEW frozen, Len(o) \in Nat,
           \A U \in G, i \in 1 .. Len(o) : TickOne(U, o[i], frozen) \subseteq G
    PROVE  Batch(T, o, frozen) \subseteq G
  <1> DEFINE n == Len(o)
             h == CHOOSE f : After(f, T, o, frozen, n)
  <1>1. After(h, T, o, frozen, n)
    BY AfterExists
  <1>2. Batch(T, o, frozen) = h[n]
    BY DEF Batch, After
  <1>3. h[0] = {T} /\ \A i \in 1 .. n : h[i] = NextAfter(h[i - 1], o[i], frozen)
    <2> HIDE DEF h
    <2>1. QED
      BY <1>1, AfterParts
  <1> HIDE DEF h
  <1> DEFINE X == {i \in 0 .. n : ~(h[i] \subseteq G)}
  <1>4. SUFFICES ASSUME X # {} PROVE FALSE
    BY <1>2
  <1>5. X \subseteq Nat
    OBVIOUS
  <1>6. PICK i \in X : \A j \in X : ~(j < i)
    BY <1>4, <1>5, LeastNatural
  <1>7. i # 0
    BY <1>3, <1>6
  <1>8. i \in 1 .. n /\ i - 1 \in 0 .. n /\ i - 1 < i
    BY <1>7
  <1>9. h[i - 1] \subseteq G
    BY <1>6, <1>8
  <1>10. NextAfter(h[i - 1], o[i], frozen) \subseteq G
    BY <1>8, <1>9 DEF NextAfter
  <1>11. QED
    BY <1>3, <1>6, <1>8, <1>10

(* An order of a batch is a sequence of its proposals.                     *)
LEMMA OrdersParts ==
    ASSUME NEW B \in SUBSET Proposals, NEW S, NEW o \in Orders(S, B)
    PROVE  Len(o) \in Nat /\ \A i \in 1 .. Len(o) : o[i] \in Proposals
  <1>1. IsFiniteSet(B)
    <2>1. 1 \in Int /\ N \in Int
      BY EpochParameters
    <2>2. IsFiniteSet(Proposals)
      BY <2>1, FS_Interval DEF Proposals
    <2>3. QED
      BY <2>2, FS_Subset
  <1>2. Cardinality(B) \in Nat
    BY <1>1, FS_CardinalityType
  <1>3. o \in [1 .. Cardinality(B) -> B]
    BY DEF Orders, SetToSeqs
  <1>4. QED
    BY <1>2, <1>3

LEMMA TickBatchSound ==
    ASSUME now \in 0 .. Horizon,
           NEW B \in SUBSET Proposals, NEW S, NEW o \in Orders(S, B), NEW frozen,
           NEW T, Sound(T), NEW U \in Batch(T, o, frozen)
    PROVE  Sound(U)
  <1>1. Len(o) \in Nat /\ \A i \in 1 .. Len(o) : o[i] \in Proposals
    BY OrdersParts
  <1> DEFINE G == {X \in Storage(Working) : Sound(X)}
  <1>2. \A X : X \in G <=> Sound(X)
    BY DEF Sound
  <1> HIDE DEF G
  <1>3. ASSUME NEW X \in G, NEW i \in 1 .. Len(o) PROVE TickOne(X, o[i], frozen) \subseteq G
    BY <1>1, <1>2, TickOneSound
  <1>4. Batch(T, o, frozen) \subseteq G
    BY <1>1, <1>2, <1>3, BatchKeeps
  <1>5. QED
    BY <1>2, <1>4

----------------------------------------------------------------------------
(* The invariant is one: a call keeps it when all its outcomes are sound.  *)

LEMMA StepsOn ==
    ASSUME Sound(st'), st'.clock.index <= now' \div Length
    PROVE  Sound(st)'
  BY DEF Sound, VaultFits, DecisionFits, LocksFit, CohortFits, NeutralFits, MembersFit, Member,
         Range, IsInjective

LEMMA CallKeeps ==
    ASSUME EpochInv, NEW outcomes, \A S \in outcomes : Sound(S), Call(outcomes)
    PROVE  EpochInv'
  <1>1. PICK S \in outcomes : st' \in Persist(S)
    BY DEF Call
  <1>2. now' = now /\ now \in 0 .. Horizon
    BY DEF Call, EpochInv, TypeOK
  <1>3. /\ Sound(st') /\ st' \in Storage(States)
        /\ \A e \in Epochs : st'.schedules[e] = st'.cohorts[e].members
    BY <1>1, PersistSound
  <1>4. Sound(st)'
    BY <1>2, <1>3, StepsOn DEF Sound
  <1>5. \A e \in Epochs : st'.cohorts[e].cursor <= Len(st'.cohorts[e].members)
    BY <1>3 DEF Sound, CohortFits
  <1>6. TypeOK'
    BY <1>2, <1>3, <1>5 DEF TypeOK
  <1>7. QED
    BY <1>3, <1>4, <1>6 DEF EpochInv

LEMMA AdvanceKeeps ==
    ASSUME EpochInv, Advance
    PROVE  EpochInv'
  <1>1. now \in Nat /\ now' = now + 1 /\ now' \in 0 .. Horizon /\ st' = st /\ Length \in Nat \ {0}
    BY EpochParameters DEF EpochInv, TypeOK, Advance
  <1>2. now \div Length \in Nat /\ now' \div Length \in Nat /\ now \div Length <= now' \div Length
    BY <1>1, Quotients
  <1>3. st.clock.index \in Nat /\ st.clock.index <= now \div Length
    BY StorageParts, EpochsAreNaturals DEF EpochInv, Sound
  <1>4. Sound(st') /\ st'.clock.index <= now' \div Length
    BY <1>1, <1>2, <1>3 DEF EpochInv
  <1>5. Sound(st)'
    BY <1>4, StepsOn
  <1>6. QED
    BY <1>1, <1>5 DEF EpochInv, TypeOK

(* One lemma for each kind of call.                                        *)

LEMMA TickKeeps ==
    ASSUME EpochInv, NEW B \in SUBSET Proposals, NEW frozen, Tick(B, frozen)
    PROVE  EpochInv'
  <1> DEFINE S     == Sync(st)
             slate == IF st.clock.phase # Seed /\ S.clock.phase = Seed
                      THEN {Shrink(S, keep) : keep \in SUBSET QualifiedFor(S)} ELSE {S}
             outs  == UNION {Batch(T, o, frozen) : T \in slate, o \in Orders(S, B)}
  <1>1. now \in 0 .. Horizon /\ Sound(st)
    BY DEF EpochInv, TypeOK
  <1>2. Sound(S)
    BY <1>1, SyncSound
  <1>3. Call(outs)
    BY DEF Tick
  <1> HIDE DEF S
  <1>4. \A T \in slate : Sound(T)
    BY <1>1, <1>2, ShrinkSound
  <1> HIDE DEF slate
  <1>5. ASSUME NEW U \in outs PROVE Sound(U)
    <2>1. PICK T \in slate, o \in Orders(S, B) : U \in Batch(T, o, frozen)
      OBVIOUS
    <2>2. QED
      BY <2>1, <1>1, <1>4, TickBatchSound
  <1> HIDE DEF outs
  <1>6. QED
    BY <1>3, <1>5, CallKeeps

LEMMA SubmitKeeps ==
    ASSUME EpochInv, NEW p \in Proposals, NEW R \in SUBSET Resources, Submit(p, R)
    PROVE  EpochInv'
  <1> DEFINE r == [st.prop[p] EXCEPT !.state = "Submitted", !.epoch = st.clock.index, !.resources = R]
  <1>1. Sound(st) /\ st \in Storage(Working) /\ st.prop[p].state = "Absent"
    BY DEF EpochInv, Sound, Submit
  <1>2. st.prop[p] \in Records(Working) /\ st.clock.index \in Epochs /\ st.clock.index \in Nat
    BY <1>1, RecordParts, StorageParts, EpochsAreNaturals
  <1>3. "Submitted" \in Working
    BY WorkingStates
  <1>4. r \in Records(Working) /\ r.state = "Submitted" /\ r.epoch = st.clock.index
        /\ r.decision = st.prop[p].decision
    BY <1>2, <1>3 DEF Records
  <1>5. Call({Put(st, p, r)})
    BY DEF Submit, Put
  <1>6. VaultFits(st, p) /\ DecisionFits(st, p)
    BY <1>1 DEF Sound
  <1>7. /\ {"Absent", "Submitted"} \intersect (MarketBearing \union InProgress \union Ended
                                               \union {"Measuring"} \union Adopted) = {}
    BY DEF MarketBearing, InProgress, Ended, Terminal, Adopted
  <1>8. st.vault[p] \notin {"Voided", "Settled"} /\ r.decision = "None"
    BY <1>1, <1>4, <1>6, <1>7 DEF VaultFits, DecisionFits
  <1> HIDE DEF r
  <1>9. Sound(Put(st, p, r))
    BY <1>1, <1>2, <1>4, <1>7, <1>8, RecordSound
  <1>10. QED
    BY <1>5, <1>9, CallKeeps

LEMMA WithdrawKeeps ==
    ASSUME EpochInv, NEW p \in Proposals, Withdraw(p)
    PROVE  EpochInv'
  <1> DEFINE r == Enters(st.prop[p], "Cancelled")
  <1>1. Sound(st) /\ st \in Storage(Working) /\ st.prop[p].state = "Submitted"
    BY DEF EpochInv, Sound, Withdraw, Candidates
  <1>2. st.prop[p] \in Records(Working) /\ "Cancelled" \in Working
    BY <1>1, RecordParts, WorkingStates DEF Terminal
  <1>3. r \in Records(Working) /\ r.state = "Cancelled" /\ r.decision = st.prop[p].decision
    BY <1>2, EntersParts
  <1>4. Call({Put(st, p, r)})
    BY DEF Withdraw, Put
  <1> HIDE DEF r
  <1>5. Sound(Put(st, p, r))
    BY <1>1, <1>3, DeferredSound
  <1>6. QED
    BY <1>4, <1>5, CallKeeps

LEMMA DecideKeeps ==
    ASSUME EpochInv, NEW p \in Proposals, NEW frozen, Decide(p, frozen)
    PROVE  EpochInv'
  <1>1. now \in 0 .. Horizon /\ now \in Nat /\ Sound(st) /\ st \in Storage(Working)
    BY DEF EpochInv, TypeOK, Sound
  <1>2. Sound(Sync(st)) /\ Sync(st).prop = st.prop
    BY <1>1, SyncSound, SyncParts
  <1>3. Sync(st).prop[p].state \in {"Trading", "Extended"}
    BY <1>2 DEF Decide
  <1>4. \A T \in Decisions(Sync(st), p, frozen) : Sound(T)
    BY <1>1, <1>2, <1>3, DecisionsSound
  <1>5. QED
    BY <1>4, CallKeeps DEF Decide

LEMMA DriveKeeps ==
    ASSUME EpochInv, DriveOracleBoundaries
    PROVE  EpochInv'
  <1>1. Sound(Sync(st))
    BY SyncSound DEF EpochInv, TypeOK
  <1>2. QED
    BY <1>1, CallKeeps DEF DriveOracleBoundaries

(* The calls that leave the books of a proposal open.                      *)
LEMMA ContinuedKeeps ==
    ASSUME EpochInv, NEW p \in Proposals, NEW s \in {"Suspended", "Extended", "FailedExecuted"},
           NEW r, r \in Records(Working), r.state = s,
           st.prop[p].state \in MarketBearing,
           r.epoch = st.prop[p].epoch, r.resources = st.prop[p].resources,
           s = "Extended" => r.decision = "None",
           s # "Extended" => r.decision = "Adopt",
           Call({[st EXCEPT !.prop[p] = r]})
    PROVE  EpochInv'
  <1>1. Sound(st) /\ s \in MarketBearing
    BY DEF EpochInv, MarketBearing, Adopted
  <1>2. s \in {"Trading", "Extended", "Rerun"} => s = "Extended"
    OBVIOUS
  <1>3. s \in Adopted => s # "Extended"
    BY DEF Adopted
  <1>4. Sound(Put(st, p, r))
    BY <1>1, <1>2, <1>3, ContinuesSound
  <1>5. Call({Put(st, p, r)})
    BY DEF Put
  <1>6. QED
    BY <1>4, <1>5, CallKeeps

LEMMA QueuedParts ==
    ASSUME EpochInv, NEW p \in Proposals
    PROVE  /\ st \in Storage(Working) /\ now \in Nat
           /\ st.prop[p] \in Records(Working) /\ st.clock.index + 1 \in Nat
           /\ now + RetryWindow \in Nat /\ now + Extension \in Nat
           /\ st.prop[p].state \in Adopted => st.prop[p].decision = "Adopt"
           /\ {"Suspended", "Extended", "FailedExecuted"} \subseteq Working
           /\ {"Trading", "Extended", "Queued", "FailedExecuted", "Suspended"} \subseteq MarketBearing
           /\ {"Queued", "FailedExecuted", "Suspended"} \subseteq Adopted
  <1>1. st \in Storage(Working) /\ now \in Nat /\ DecisionFits(st, p)
    BY DEF EpochInv, TypeOK, Sound
  <1>2. st.prop[p] \in Records(Working) /\ st.clock.index \in Nat
    BY <1>1, RecordParts, StorageParts, EpochsAreNaturals
  <1>3. /\ {"Suspended", "Extended", "FailedExecuted"} \subseteq Working
        /\ {"Trading", "Extended", "Queued", "FailedExecuted", "Suspended"} \subseteq MarketBearing
        /\ {"Queued", "FailedExecuted", "Suspended"} \subseteq Adopted
    BY DEF MarketBearing, Adopted, Working, States, Stored, ForceRejectable, InProgress
  <1>4. QED
    BY <1>1, <1>2, <1>3, EpochParameters DEF DecisionFits

LEMMA DelayKeeps ==
    ASSUME EpochInv, NEW p \in Proposals, DelayOnce(p)
    PROVE  EpochInv'
  <1> DEFINE r == [st.prop[p] EXCEPT !.state = "Suspended", !.delayed = TRUE, !.due = st.clock.index + 1]
  <1>1. st.prop[p].state = "Queued" /\ Call({[st EXCEPT !.prop[p] = r]})
    BY DEF DelayOnce
  <1>2. /\ r \in Records(Working) /\ r.state = "Suspended" /\ r.epoch = st.prop[p].epoch
        /\ r.resources = st.prop[p].resources /\ r.decision = st.prop[p].decision
    BY QueuedParts DEF Records
  <1> HIDE DEF r
  <1>3. QED
    BY <1>1, <1>2, QueuedParts, ContinuedKeeps

LEMMA RerunKeeps ==
    ASSUME EpochInv, NEW p \in Proposals, ForceRerun(p)
    PROVE  EpochInv'
  <1> DEFINE r == [st.prop[p] EXCEPT !.state = "Extended", !.rerun = TRUE,
                                     !.decision = "None", !.due = now + Extension]
  <1>1. st.prop[p].state \in {"Trading", "Extended", "Queued"} /\ Call({[st EXCEPT !.prop[p] = r]})
    BY DEF ForceRerun, MayRerun
  <1>2. /\ r \in Records(Working) /\ r.state = "Extended" /\ r.epoch = st.prop[p].epoch
        /\ r.resources = st.prop[p].resources /\ r.decision = "None"
    BY QueuedParts DEF Records
  <1> HIDE DEF r
  <1>3. QED
    BY <1>1, <1>2, QueuedParts, ContinuedKeeps

LEMMA FailedKeeps ==
    ASSUME EpochInv, NEW p \in Proposals, MarkFailed(p)
    PROVE  EpochInv'
  <1> DEFINE r == [st.prop[p] EXCEPT !.state = "FailedExecuted", !.due = now + RetryWindow]
  <1>1. st.prop[p].state = "Queued" /\ Call({[st EXCEPT !.prop[p] = r]})
    BY DEF MarkFailed
  <1>2. /\ r \in Records(Working) /\ r.state = "FailedExecuted" /\ r.epoch = st.prop[p].epoch
        /\ r.resources = st.prop[p].resources /\ r.decision = st.prop[p].decision
    BY QueuedParts DEF Records
  <1> HIDE DEF r
  <1>3. QED
    BY <1>1, <1>2, QueuedParts, ContinuedKeeps

(* The calls that measure or reject.                                       *)
LEMMA MeasuredKeeps ==
    ASSUME EpochInv, NEW p \in Proposals,
           VetoUpheld(p) \/ GuardianForceReject(p) \/ MarkExecuted(p) \/ RejectStale(p)
              \/ ExpireFailedExecution(p)
    PROVE  EpochInv'
  <1>1. Sound(st)
    BY DEF EpochInv
  <1>2. CASE GuardianForceReject(p)
    <2>1. \A T \in ForceReject(st, p) : Sound(T)
      BY <1>1, ForceRejectSound
    <2>2. QED
      BY <1>2, <2>1, CallKeeps DEF GuardianForceReject
  <1>3. CASE VetoUpheld(p) \/ RejectStale(p)
    <2>1. st.prop[p].state \in MarketBearing /\ Call(RejectToMeasurement(st, p))
      BY <1>3, QueuedParts DEF VetoUpheld, RejectStale
    <2>2. \A T \in RejectToMeasurement(st, p) : Sound(T)
      BY <1>1, <2>1, RejectToMeasurementSound
    <2>3. QED
      BY <2>1, <2>2, CallKeeps
  <1>4. CASE MarkExecuted(p) \/ ExpireFailedExecution(p)
    <2>1. /\ st.prop[p].state \in MarketBearing /\ st.prop[p].state \in Adopted
          /\ Call(ToMeasurement(st, p, "Accept"))
      BY <1>4, QueuedParts DEF MarkExecuted, ExpireFailedExecution, Executable
    <2>2. \A T \in ToMeasurement(st, p, "Accept") : Sound(T)
      BY <1>1, <2>1, ToMeasurementSound
    <2>3. QED
      BY <2>1, <2>2, CallKeeps
  <1>5. QED
    BY <1>2, <1>3, <1>4

LEMMA SettleKeeps ==
    ASSUME EpochInv, NEW e \in Epochs, NEW batch \in 1 .. N + 1, SettleCohort(e, batch)
    PROVE  EpochInv'
  <1> DEFINE S     == Sync(st)
             c     == st.cohorts[e]
             m     == Len(c.members)
             end   == IF c.cursor + batch < m + 1 THEN c.cursor + batch ELSE m + 1
             due   == {c.members[i] : i \in ((c.cursor + 1) .. end) \ {m + 1}}
             gone  == Range(c.members)
             done  == [S EXCEPT !.vault = [p \in Proposals |-> IF p \in due THEN "Settled" ELSE @[p]],
                                !.cohorts[e].cursor = end]
             all   == [done EXCEPT !.baseline[e] = "Settled",
                                   !.prop = [p \in Proposals |-> IF p \in gone
                                                                 THEN [@[p] EXCEPT !.state = "Settled"]
                                                                 ELSE @[p]]]
             out   == IF end < m + 1 THEN done ELSE Reap(all, e, gone, "Settled")
  <1>1. Call({out})
    BY DEF SettleCohort
  <1>2. now \in 0 .. Horizon /\ Sound(st) /\ st \in Storage(Working)
    BY DEF EpochInv, TypeOK, Sound
  <1>3. Sound(S) /\ S.cohorts = st.cohorts
    BY <1>2, SyncSound, SyncParts
  <1>4. c.members \in Seq(Proposals) /\ c.cursor \in Nat /\ c.cursor <= m /\ m \in Nat
    BY <1>2, StorageParts DEF Sound, CohortFits
  <1>5. batch \in Nat /\ end \in Nat /\ c.cursor <= end /\ end <= m + 1 /\ (~(end < m + 1) => end = m + 1)
    <2>1. batch \in Nat
      BY EpochParameters
    <2> HIDE DEF m, c
    <2>2. QED
      BY <1>4, <2>1
  <1>6. due = Due(S, e, end)
    BY <1>3 DEF Due
  <1>7. done = SettledPart(S, e, end)
    BY <1>6 DEF SettledPart, SettledVaults
  <1>8. all = Closed(done, e, "Settled", gone)
    BY DEF Closed, SettledRecords
  <1> HIDE DEF done, all, due, S, gone
  <1>9. CASE end < m + 1
    <2>1. end <= m /\ out = done
      BY <1>4, <1>5, <1>9
    <2>2. Sound(done)
      BY <2>1, <1>3, <1>5, <1>7, SettledPartSound
    <2>3. QED
      BY <2>1, <2>2, <1>1, CallKeeps
  <1>10. CASE ~(end < m + 1)
    <2>1. out = Reap(all, e, gone, "Settled") /\ end = m + 1
      BY <1>5, <1>10
    <2>2. gone = Range(S.cohorts[e].members) /\ end = Len(S.cohorts[e].members) + 1
      BY <2>1, <1>3 DEF gone
    <2>3. Sound(Reap(Closed(SettledPart(S, e, end), e, "Settled", gone), e, gone, "Settled"))
      BY <2>2, <1>3, SettledWholeSound
    <2>4. Sound(Reap(all, e, gone, "Settled"))
      BY <2>3, <1>7, <1>8
    <2>5. QED
      BY <2>1, <2>4, <1>1, CallKeeps
  <1>11. QED
    BY <1>9, <1>10

LEMMA VoidKeeps ==
    ASSUME EpochInv, NEW e \in Epochs, VoidCohort(e)
    PROVE  EpochInv'
  <1> DEFINE members  == Range(st.cohorts[e].members)
             affected == members \union {p \in Proposals : st.prop[p].epoch = e /\ st.prop[p].state \in InProgress}
             priced   == {p \in affected : HasMarkets(st, p)}
             b        == IF st.baseline[e] = "Open" THEN "Neutral" ELSE st.baseline[e]
             V        == [p \in Proposals |-> IF p \in priced THEN "Voided" ELSE st.vault[p]]
             P        == [p \in Proposals |-> IF p \in affected THEN [st.prop[p] EXCEPT !.state = "Settled"]
                                                               ELSE st.prop[p]]
             T        == [st EXCEPT !.vault = V, !.prop = P, !.baseline[e] = b]
  <1>1. Call({Reap(T, e, affected, "Voided")})
    BY DEF VoidCohort
  <1>2. Sound(st) /\ st \in Storage(Working)
    BY DEF EpochInv, Sound
  <1>3. members \subseteq Proposals /\ \A p \in Proposals : p \in members <=> Member(st, p, e)
    <2>1. st.cohorts[e].members \in Seq(Proposals)
      BY <1>2, StorageParts
    <2>2. QED
      BY <2>1 DEF Member, Range
  <1> HIDE DEF members
  <1>4. /\ affected \in SUBSET Proposals
        /\ \A p \in Proposals :
             p \in affected <=> Member(st, p, e) \/ (st.prop[p].epoch = e /\ st.prop[p].state \in InProgress)
    BY <1>3
  <1> HIDE DEF affected
  <1>5. /\ priced \in SUBSET affected
        /\ \A p \in affected : p \in priced <=> st.prop[p].state \in MarketBearing \union {"Measuring"}
    BY DEF HasMarkets
  <1>6. b \in {"Absent", "Open", "Settled", "Neutral"}
    BY <1>2, StorageParts
  <1>7. V = VoidedVaults(st, priced) /\ P = SettledRecords(st, affected)
    BY DEF VoidedVaults, SettledRecords
  <1> HIDE DEF b, V, P, priced
  <1>8. T = Closed(VoidAll(st, priced), e, b, affected)
    <2>1. VoidAll(st, priced) = [st EXCEPT !.vault = V] /\ VoidAll(st, priced).prop = st.prop
      BY <1>2, <1>7 DEF VoidAll, Storage
    <2>2. SettledRecords(VoidAll(st, priced), affected) = P
      BY <2>1, <1>7 DEF SettledRecords
    <2>3. Closed(VoidAll(st, priced), e, b, affected) =
            [[st EXCEPT !.vault = V] EXCEPT !.baseline[e] = b, !.prop = P]
      BY <2>1, <2>2 DEF Closed
    <2>4. T = [[st EXCEPT !.vault = V] EXCEPT !.baseline[e] = b, !.prop = P]
      BY <1>2 DEF Storage
    <2>5. QED
      BY <2>3, <2>4
  <1> HIDE DEF T
  <1>9. Sound(Reap(Closed(VoidAll(st, priced), e, b, affected), e, affected, "Voided"))
    BY <1>2, <1>4, <1>5, <1>6, VoidedSound
  <1>10. Sound(Reap(T, e, affected, "Voided"))
    BY <1>8, <1>9
  <1>11. QED
    BY <1>1, <1>10, CallKeeps

LEMMA FinalizeKeeps ==
    ASSUME EpochInv, NEW e \in Epochs, FinalizeBaseline(e)
    PROVE  EpochInv'
  <1> DEFINE T == [st EXCEPT !.baseline[e] = IF @ = "Open" THEN "Neutral" ELSE @]
  <1>1. Call({T})
    BY DEF FinalizeBaseline
  <1>2. /\ e < st.clock.index /\ st.cohorts[e] = NoCohort
        /\ \A p \in Proposals : st.prop[p].epoch = e => st.prop[p].state \notin Stored
    BY DEF FinalizeBaseline, Orphaned
  <1>3. Sound(T)
    BY <1>2, FinalizedSound DEF EpochInv
  <1> HIDE DEF T
  <1>4. QED
    BY <1>1, <1>3, CallKeeps

LEMMA InitKeeps ==
    ASSUME Init
    PROVE  EpochInv
  <1>1. now = 0 /\ now \in 0 .. Horizon /\ now \in Nat /\ 0 \in Epochs
    BY EpochParameters, Quotients DEF Init, Epochs
  <1>2. ClockAt(0) \in [index : Epochs, phase : Phases] /\ ClockAt(0).index = now \div Length
    BY <1>1, ClockParts
  <1>3. Blank \in Records(States) /\ Blank.state = "Absent" /\ Blank.decision = "None"
    BY <1>1 DEF Blank, Records, States
  <1>4. Blank \in Records(Working)
    BY <1>3 DEF Records, Working
  <1>5. /\ st.clock = ClockAt(0)
        /\ \A p \in Proposals : st.prop[p] = Blank /\ st.vault[p] = "Absent"
        /\ \A r \in Resources : st.locks[r] = Nobody
        /\ \A e \in Epochs : /\ st.cohorts[e] = NoCohort /\ st.schedules[e] = <<>>
                             /\ st.baseline[e] = "Absent"
    BY DEF Init
  <1>6. NoCohort \in [members : Seq(Proposals), cursor : Nat] /\ NoCohort.members = <<>> /\ NoCohort.cursor = 0
    BY DEF NoCohort
  <1>7. st \in Storage(States)
    BY <1>2, <1>3, <1>6 DEF Init, Storage
  <1>8. st \in Storage(Working)
    BY <1>2, <1>4, <1>6 DEF Init, Storage
  <1>9. "Absent" \notin MarketBearing \union InProgress \union Adopted \union {"Measuring"}
    BY DEF MarketBearing, InProgress, Adopted
  <1>10. \A p \in Proposals : VaultFits(st, p) /\ DecisionFits(st, p)
    BY <1>3, <1>5, <1>9 DEF VaultFits, DecisionFits
  <1>11. LocksFit(st)
    BY <1>3, <1>5, <1>9 DEF LocksFit
  <1>12. \A e \in Epochs : CohortFits(st, e) /\ NeutralFits(st, e)
    BY <1>5, <1>6 DEF CohortFits, NeutralFits, IsInjective
  <1>13. MembersFit(st)
    BY <1>3, <1>5, <1>6 DEF MembersFit, Member, Range
  <1>14. st.clock.index <= now \div Length
    <2>1. 0 \div Length \in Nat
      BY EpochParameters, Quotients
    <2>2. QED
      BY <2>1, <1>1, <1>2, <1>5
  <1>15. Sound(st)
    BY <1>8, <1>10, <1>11, <1>12, <1>13, <1>14 DEF Sound
  <1>16. \A e \in Epochs : /\ st.schedules[e] = st.cohorts[e].members
                           /\ st.cohorts[e].cursor <= Len(st.cohorts[e].members)
    BY <1>5, <1>6
  <1>17. QED
    BY <1>1, <1>7, <1>15, <1>16 DEF EpochInv, TypeOK

LEMMA NextKeeps ==
    ASSUME EpochInv, [Next]_vars
    PROVE  EpochInv'
  <1>1. CASE UNCHANGED vars
    <2>1. Sound(st') /\ st'.clock.index <= now' \div Length
      BY <1>1 DEF vars, EpochInv, Sound
    <2>2. Sound(st)'
      BY <2>1, StepsOn
    <2>3. QED
      BY <1>1, <2>2 DEF vars, EpochInv, TypeOK
  <1>2. CASE Next
    <2>1. CASE \E B \in SUBSET Proposals, frozen \in BOOLEAN : Tick(B, frozen)
      BY <2>1, TickKeeps
    <2>2. CASE \E p \in Proposals, R \in SUBSET Resources : Submit(p, R)
      BY <2>2, SubmitKeeps
    <2>3. CASE \E p \in Proposals : Withdraw(p)
      BY <2>3, WithdrawKeeps
    <2>4. CASE \E p \in Proposals, frozen \in BOOLEAN : Decide(p, frozen)
      BY <2>4, DecideKeeps
    <2>5. CASE DriveOracleBoundaries
      BY <2>5, DriveKeeps
    <2>6. CASE \E p \in Proposals : DelayOnce(p) \/ ForceRerun(p) \/ MarkFailed(p)
      BY <2>6, DelayKeeps, RerunKeeps, FailedKeeps
    <2>7. CASE \E p \in Proposals : VetoUpheld(p) \/ GuardianForceReject(p) \/ MarkExecuted(p)
                                      \/ RejectStale(p) \/ ExpireFailedExecution(p)
      BY <2>7, MeasuredKeeps
    <2>8. CASE \E e \in Epochs, batch \in 1 .. N + 1 : SettleCohort(e, batch)
      BY <2>8, SettleKeeps
    <2>9. CASE \E e \in Epochs : VoidCohort(e)
      BY <2>9, VoidKeeps
    <2>10. CASE \E e \in Epochs : FinalizeBaseline(e)
      BY <2>10, FinalizeKeeps
    <2>11. CASE Advance
      BY <2>11, AdvanceKeeps
    <2>12. QED
      BY <1>2, <2>1, <2>2, <2>3, <2>4, <2>5, <2>6, <2>7, <2>8, <2>9, <2>10, <2>11 DEF Next, EpochCalls, GuardianHold
  <1>3. QED
    BY <1>1, <1>2

----------------------------------------------------------------------------
(* The theorems.                                                           *)

(* The invariant, for any number of proposals, resources and epochs: every *)
(* call of keepers, guardian and guard leaves a sound storage.             *)
THEOREM EpochInvariant == Spec => []EpochInv
  <1>1. Init => EpochInv
    BY InitKeeps
  <1>2. EpochInv /\ [Next]_vars => EpochInv'
    BY NextKeeps
  <1>3. QED
    BY <1>1, <1>2, PTL DEF Spec

(* What a stored storage's sound parts say: the properties the runs check. *)
LEMMA StatesInHand ==
    /\ Ended \intersect States = {"Gone"}
    /\ {"Trading", "Extended", "Rerun"} \subseteq {"Absent", "Submitted", "Rerun"} \union Undecided
  BY DEF Ended, Terminal, States, Stored, ForceRejectable, InProgress, MarketBearing, Adopted, Undecided

LEMMA InvariantImplies ==
    ASSUME EpochInv
    PROVE  VaultsFollow /\ CohortsSound /\ NeutralIsFinal /\ LocksHeld /\ DecisionMatchesBranch
  <1>1. st \in Storage(States) /\ st \in Storage(Working) /\ Sound(st)
    BY DEF EpochInv, TypeOK, Sound
  <1>2. VaultsFollow
    <2> SUFFICES ASSUME NEW p \in Proposals
                 PROVE  LET s == st.prop[p].state
                            v == st.vault[p]
                        IN  /\ v = "Open" <=> s \in MarketBearing
                            /\ v \in {"Accept", "Reject"} => s = "Measuring"
                            /\ s = "Measuring" => v \in {"Accept", "Reject", "Settled"}
                            /\ v \in {"Voided", "Settled"} => s \in {"Gone", "Measuring"}
      BY DEF VaultsFollow
    <2>1. VaultFits(st, p) /\ st.prop[p].state \in States
      BY <1>1, RecordParts DEF Sound
    <2>2. QED
      BY <2>1, StatesInHand DEF VaultFits
  <1>3. CohortsSound
    <2>1. ASSUME NEW p \in Proposals
          PROVE  {e \in Epochs : p \in Range(st.cohorts[e].members)} =
                    IF st.prop[p].state = "Measuring" THEN {st.prop[p].epoch} ELSE {}
      <3>1. \A e \in Epochs : p \in Range(st.cohorts[e].members) <=>
                                st.prop[p].state = "Measuring" /\ st.prop[p].epoch = e
        BY <1>1 DEF Sound, MembersFit, Member
      <3>2. st.prop[p].epoch \in Epochs
        BY <1>1, RecordParts
      <3>3. QED
        BY <3>1, <3>2
    <2>2. \A e \in Epochs : CohortFits(st, e) /\ st.schedules[e] = st.cohorts[e].members
      BY <1>1 DEF Sound, EpochInv
    <2>3. QED
      BY <2>1, <2>2 DEF CohortsSound, CohortFits
  <1>4. NeutralIsFinal
    BY <1>1 DEF NeutralIsFinal, Sound, NeutralFits
  <1>5. LocksHeld
    BY <1>1 DEF LocksHeld, Sound, LocksFit
  <1>6. DecisionMatchesBranch
    BY <1>1, StatesInHand DEF DecisionMatchesBranch, Sound, DecisionFits
  <1>7. QED
    BY <1>2, <1>3, <1>4, <1>5, <1>6

(* The storage keeps its types, whatever the calls.                        *)
THEOREM EpochTypes == Spec => []TypeOK
  <1>1. EpochInv => TypeOK
    BY DEF EpochInv
  <1>2. QED
    BY <1>1, EpochInvariant, PTL

(* A vault is open while its proposal may be decided or executed, resolved *)
(* while it is measured, and no path out leaves one behind.                *)
THEOREM VaultsAlwaysFollow == Spec => []VaultsFollow
  <1>1. EpochInv => VaultsFollow
    BY InvariantImplies
  <1>2. QED
    BY <1>1, EpochInvariant, PTL

(* A proposal is measured exactly in the cohort of its own epoch, once, in *)
(* the order that is frozen, and a settlement in batches skips nobody.     *)
THEOREM CohortsAlwaysSound == Spec => []CohortsSound
  <1>1. EpochInv => CohortsSound
    BY InvariantImplies
  <1>2. QED
    BY <1>1, EpochInvariant, PTL

(* A neutral Baseline is never asked for a score again: no proposal of its *)
(* epoch can reach a cohort, whatever is submitted or rolled over later.   *)
THEOREM NeutralStaysFinal == Spec => []NeutralIsFinal
  <1>1. EpochInv => NeutralIsFinal
    BY InvariantImplies
  <1>2. QED
    BY <1>1, EpochInvariant, PTL

(* Every resource a live proposal declared is held by it, and only by one  *)
(* that is still in the machine.                                           *)
THEOREM LocksAlwaysHeld == Spec => []LocksHeld
  <1>1. EpochInv => LocksHeld
    BY InvariantImplies
  <1>2. QED
    BY <1>1, EpochInvariant, PTL

(* The decision on record is the one in force, also after a rerun.         *)
THEOREM DecisionAlwaysMatches == Spec => []DecisionMatchesBranch
  <1>1. EpochInv => DecisionMatchesBranch
    BY InvariantImplies
  <1>2. QED
    BY <1>1, EpochInvariant, PTL

----------------------------------------------------------------------------
(* SweepsAgree.  What an item does to the other proposals of the batch:    *)
(* it lets their vault, record and hold alone.                             *)

Spares(S, T, p) ==
    /\ T.vault[p] = S.vault[p] /\ T.prop[p] = S.prop[p] /\ T.recent = S.recent
    /\ S.prop[p].state \in ForceRejectable /\ p \in S.stale => p \in T.stale

LEMMA PutSpares ==
    ASSUME NEW S, S \in Storage(Working), NEW q \in Proposals, NEW r \in Records(Working),
           NEW p \in Proposals \ {q}
    PROVE  /\ Put(S, q, r) \in Storage(Working) /\ Spares(S, Put(S, q, r), p)
           /\ Spares(S, Release(Put(S, q, r), q), p)
           /\ Spares(S, Takes(Put(S, q, r), q), p)
  <1> DEFINE U == Put(S, q, r)
  <1>1. /\ U \in Storage(Working) /\ U.vault = S.vault /\ U.prop[p] = S.prop[p]
        /\ U.recent = S.recent /\ U.stale = S.stale
    BY PutParts
  <1> HIDE DEF U
  <1>2. /\ Release(U, q).vault = U.vault /\ Release(U, q).prop = U.prop
        /\ Release(U, q).recent = U.recent /\ Release(U, q).stale = U.stale
    BY <1>1, ReleaseParts
  <1>3. /\ Takes(U, q).vault = U.vault /\ Takes(U, q).prop = U.prop
        /\ Takes(U, q).recent = U.recent /\ Takes(U, q).stale = U.stale
    BY <1>1, TakesParts
  <1>4. QED
    BY <1>1, <1>2, <1>3 DEF Spares, U

(* A rejection ends the vault it finds open, and spares the others.        *)
LEMMA ForceRejectSpares ==
    ASSUME NEW S, S \in Storage(Working), NEW q \in Proposals, NEW T \in ForceReject(S, q)
    PROVE  /\ S.prop[q].state \in MarketBearing => T.vault[q] = "Voided"
           /\ \A p \in Proposals \ {q} : Spares(S, T, p)
           /\ T \in Storage(Working)
  <1>1. CASE S.prop[q].state \notin ForceRejectable
    <2>1. T = S /\ S.prop[q].state \notin MarketBearing
      BY <1>1, WorkingStates DEF ForceReject
    <2>2. QED
      BY <2>1 DEF Spares
  <1>2. CASE S.prop[q].state \in ForceRejectable
    <2>1. PICK U \in (IF HasMarkets(S, q) THEN VoidVault(S, q) ELSE {S}) :
            T = MaybeClearStale(Rejected(U, q))
      BY <1>2 DEF ForceReject, Rejected, Put
    <2>2. HasMarkets(S, q) <=> S.prop[q].state \in MarketBearing
      BY <1>2, WorkingStates DEF HasMarkets
    <2>3. U = IF S.prop[q].state \in MarketBearing THEN VaultPut(S, q, "Voided") ELSE S
      BY <2>1, <2>2 DEF VoidVault, VaultPut
    <2>4. /\ U \in Storage(Working) /\ U.prop = S.prop /\ U.recent = S.recent /\ U.stale = S.stale
          /\ S.prop[q].state \in MarketBearing => U.vault[q] = "Voided"
          /\ \A p \in Proposals \ {q} : U.vault[p] = S.vault[p]
      <3>1. "Voided" \in Vaults
        BY DEF Vaults
      <3>2. QED
        BY <3>1, <2>3, VaultPutParts
    <2> DEFINE r == Enters(U.prop[q], "Rejected")
    <2>5. r \in Records(Working)
      <3>1. U.prop[q] \in Records(Working) /\ "Rejected" \in Working
        BY <2>4, RecordParts, WorkingStates DEF Terminal
      <3>2. QED
        BY <3>1, EntersParts
    <2> DEFINE X == Put(U, q, r)
    <2>6. Rejected(U, q) = Release(X, q)
      BY DEF Rejected
    <2> HIDE DEF r
    <2>7. /\ X \in Storage(Working) /\ X.recent = S.recent /\ X.stale = S.stale /\ X.vault = U.vault
          /\ \A p \in Proposals \ {q} : X.prop[p] = S.prop[p]
      BY <2>4, <2>5, PutParts
    <2> HIDE DEF X
    <2> DEFINE Y == Release(X, q)
    <2>8. /\ Y \in Storage(Working) /\ Y.recent = S.recent /\ Y.stale = S.stale /\ Y.vault = U.vault
          /\ \A p \in Proposals \ {q} : Y.prop[p] = S.prop[p]
      BY <2>7, ReleaseParts
    <2>9. T = MaybeClearStale(Y)
      BY <2>1, <2>6
    <2> HIDE DEF Y
    <2>10. /\ T \in Storage(Working)
           /\ T.recent = S.recent /\ T.vault = U.vault /\ T.prop = Y.prop
           /\ T.stale = IF \E p \in Y.stale : Y.prop[p].state \in ForceRejectable THEN Y.stale ELSE {}
      BY <2>8, <2>9, ClearStaleParts
    <2>11. ASSUME NEW p \in Proposals \ {q} PROVE Spares(S, T, p)
      <3>1. T.vault[p] = S.vault[p] /\ T.prop[p] = S.prop[p] /\ T.recent = S.recent
        BY <2>4, <2>8, <2>10
      <3>2. ASSUME S.prop[p].state \in ForceRejectable, p \in S.stale PROVE p \in T.stale
        BY <3>2, <2>8, <2>10
      <3>3. QED
        BY <3>1, <3>2 DEF Spares
    <2>12. QED
      BY <2>4, <2>10, <2>11
  <1>3. QED
    BY <1>1, <1>2

LEMMA ToMeasurementSpares ==
    ASSUME NEW S, S \in Storage(Working), NEW q \in Proposals, NEW b \in {"Accept", "Reject"},
           NEW T \in ToMeasurement(S, q, b), NEW p \in Proposals \ {q}
    PROVE  T \in Storage(Working) /\ Spares(S, T, p)
  <1>1. CASE Voided(S, S.prop[q].epoch)
    BY <1>1, ForceRejectSpares DEF ToMeasurement
  <1>2. CASE ~Voided(S, S.prop[q].epoch)
    <2>1. PICK U \in ResolveVault(S, q, b) : T \in Measure(U, q)
      BY <1>2 DEF ToMeasurement
    <2>2. U = VaultPut(S, q, b) /\ b \in Vaults
      BY <2>1 DEF ResolveVault, VaultPut, Vaults
    <2>3. /\ U \in Storage(Working) /\ U.prop = S.prop /\ U.recent = S.recent /\ U.stale = S.stale
          /\ U.vault[p] = S.vault[p]
      BY <2>2, VaultPutParts
    <2>4. /\ T \in Storage(Working) /\ T.recent = U.recent /\ T.stale = U.stale /\ T.vault = U.vault
          /\ T.prop[p] = U.prop[p]
      BY <2>1, <2>3, MeasureParts
    <2>5. QED
      BY <2>3, <2>4 DEF Spares
  <1>3. QED
    BY <1>1, <1>2

LEMMA RejectToMeasurementSpares ==
    ASSUME NEW S, S \in Storage(Working), NEW q \in Proposals,
           NEW T \in RejectToMeasurement(S, q), NEW p \in Proposals \ {q}
    PROVE  Spares(S, T, p)
  <1>1. PICK U \in ToMeasurement(S, q, "Reject") :
          T = Release(Put(U, q, [U.prop[q] EXCEPT !.decision = "Reject"]), q)
    BY DEF RejectToMeasurement, Put
  <1>2. U \in Storage(Working) /\ Spares(S, U, p)
    BY ToMeasurementSpares
  <1> DEFINE r == [U.prop[q] EXCEPT !.decision = "Reject"]
  <1>3. r \in Records(Working)
    BY <1>2, RecordParts DEF Records
  <1> HIDE DEF r
  <1>4. Spares(U, Release(Put(U, q, r), q), p)
    BY <1>2, <1>3, PutSpares
  <1>5. T = Release(Put(U, q, r), q)
    BY <1>1 DEF r
  <1>6. QED
    BY <1>2, <1>4, <1>5 DEF Spares

LEMMA ScreenSpares ==
    ASSUME now \in 0 .. Horizon,
           NEW S, Sound(S), NEW q \in Candidates(S), NEW T \in Screen(S, q), NEW p \in Proposals \ {q}
    PROVE  Spares(S, T, p)
  <1>1. /\ S \in Storage(Working) /\ S.clock.index <= now \div Length
        /\ q \in Proposals /\ S.prop[q].state = "Submitted"
    BY DEF Candidates, Sound
  <1>2. /\ S.clock.index \in Nat /\ S.prop[q] \in Records(Working)
        /\ S.clock.index + 1 \in Epochs
    BY <1>1, StorageParts, RecordParts, EpochsAreNaturals, NextEpoch
  <1> DEFINE at   == S.clock.index * Length + Start[DecidePhase]
             left == Enters(S.prop[q], "Cancelled")
             mid  == Enters(S.prop[q], "Qualified")
             in   == [mid EXCEPT !.due = at]
             late == RolloverOrRefund(S.prop[q], S.clock.index + 1)
  <1>3. T \in {Put(S, q, left), Put(S, q, late), Takes(Put(S, q, in), q)}
    BY DEF Screen, Put
  <1>4. left \in Records(Working) /\ late \in Records(Working) /\ mid \in Records(Working)
    <2>1. {"Cancelled", "Qualified"} \subseteq Working
      BY DEF Working, Terminal, States, Stored, ForceRejectable, InProgress
    <2>2. QED
      BY <2>1, <1>2, EntersParts, RolloverParts
  <1>5. at \in Nat
    <2>1. DecidePhase \in Phases /\ Length \in Nat /\ Start[DecidePhase] \in Nat
      BY EpochParameters DEF DecidePhase, Phases, Intake, Housekeeping
    <2>2. QED
      BY <2>1, <1>2
  <1> HIDE DEF at, mid
  <1>6. in \in Records(Working)
    BY <1>4, <1>5 DEF Records
  <1> HIDE DEF left, late, in
  <1>7. QED
    BY <1>1, <1>3, <1>4, <1>6, PutSpares

LEMMA OpenMarketsSpares ==
    ASSUME NEW S, S \in Storage(Working), NEW q \in Proposals, NEW T \in OpenMarkets(S, q),
           NEW p \in Proposals \ {q}
    PROVE  Spares(S, T, p)
  <1> DEFINE e == S.prop[q].epoch
             v == [S.vault EXCEPT ![q] = "Open"]
             r == [S.prop EXCEPT ![q] = [S.prop[q] EXCEPT !.state = "Trading"]]
             b == [S.baseline EXCEPT ![e] = IF S.baseline[e] = "Absent" THEN "Open" ELSE S.baseline[e]]
  <1>1. T = [S EXCEPT !.vault = v, !.prop = r, !.baseline = b]
    BY DEF OpenMarkets
  <1>2. v[p] = S.vault[p] /\ r[p] = S.prop[p]
    BY StorageParts
  <1> HIDE DEF v, r, b
  <1>3. T.vault = v /\ T.prop = r /\ T.recent = S.recent /\ T.stale = S.stale
    BY <1>1 DEF Storage
  <1>4. QED
    BY <1>2, <1>3 DEF Spares

LEMMA RerunSpares ==
    ASSUME now \in Nat, NEW S, S \in Storage(Working), NEW q \in Proposals,
           NEW T \in ScheduleRerun(S, q) \union OpenRerun(S, q), NEW p \in Proposals \ {q}
    PROVE  Spares(S, T, p)
  <1> DEFINE r == [S.prop[q] EXCEPT !.state = "Rerun", !.due = 0, !.decision = "None"]
             x == [S.prop[q] EXCEPT !.state = "Extended", !.rerun = TRUE, !.due = now + Extension]
  <1>1. T \in {Put(S, q, r), Put(S, q, x)}
    BY DEF ScheduleRerun, OpenRerun, Put
  <1>2. {"Rerun", "Extended"} \subseteq Working /\ now + Extension \in Nat /\ 0 \in Nat
    BY EpochParameters DEF Working, States, Stored, ForceRejectable, InProgress, MarketBearing
  <1>3. S.prop[q] \in Records(Working)
    BY RecordParts
  <1>4. r \in Records(Working) /\ x \in Records(Working)
    BY <1>2, <1>3 DEF Records
  <1> HIDE DEF r, x
  <1>5. QED
    BY <1>1, <1>4, PutSpares

LEMMA TickOneSpares ==
    ASSUME now \in 0 .. Horizon, NEW S, Sound(S), NEW q \in Proposals, NEW frozen,
           NEW T \in TickOne(S, q, frozen), NEW p \in Proposals \ {q}
    PROVE  Spares(S, T, p)
  <1>1. S \in Storage(Working) /\ now \in Nat
    BY DEF Sound
  <1>2. \/ T \in ForceReject(S, q)
        \/ q \in Candidates(S) /\ T \in Screen(S, q)
        \/ T \in OpenMarkets(S, q)
        \/ T \in ScheduleRerun(S, q) \union OpenRerun(S, q)
        \/ T \in FromQueue(S, q)
        \/ T \in ToMeasurement(S, q, "Accept")
        \/ T = S
    BY DEF TickOne
  <1>3. T \in FromQueue(S, q) =>
          T \in RejectToMeasurement(S, q) \/ T \in ToMeasurement(S, q, "Reject") \/ T = S
    BY DEF FromQueue
  <1>4. T = S => Spares(S, T, p)
    BY DEF Spares
  <1>5. QED
    BY <1>1, <1>2, <1>3, <1>4, ForceRejectSpares, ScreenSpares, OpenMarketsSpares, RerunSpares,
       ToMeasurementSpares, RejectToMeasurementSpares

(* A vault under a hold: open with the hold in force, or voided already.   *)
Swept(S, p, frozen) == S.vault[p] = "Voided" \/ (S.vault[p] = "Open" /\ Held(S, p, frozen))

LEMMA SparedSwept ==
    ASSUME NEW S, Sound(S), NEW p \in Proposals, NEW frozen, Swept(S, p, frozen),
           NEW T, Spares(S, T, p)
    PROVE  Swept(T, p, frozen)
  <1>1. S.vault[p] = "Open" => S.prop[p].state \in ForceRejectable
    BY WorkingStates DEF Sound, VaultFits
  <1>2. CASE S.vault[p] = "Voided"
    BY <1>2 DEF Spares, Swept
  <1>3. CASE S.vault[p] = "Open" /\ Held(S, p, frozen)
    BY <1>1, <1>3 DEF Spares, Swept, Held, Voided
  <1>4. QED
    BY <1>2, <1>3 DEF Swept

LEMMA TickOneSwept ==
    ASSUME now \in 0 .. Horizon, NEW S, Sound(S), NEW p \in Proposals, NEW frozen,
           Swept(S, p, frozen), NEW q \in Proposals, NEW T \in TickOne(S, q, frozen)
    PROVE  Swept(T, p, frozen)
  <1>1. CASE q # p
    <2>1. Spares(S, T, p)
      BY <1>1, TickOneSpares
    <2>2. QED
      BY <2>1, SparedSwept
  <1>2. CASE q = p /\ S.vault[p] = "Open" /\ Held(S, p, frozen)
    <2>1. S.prop[p].state \in MarketBearing /\ S.prop[p].state \in ForceRejectable /\ S \in Storage(Working)
      BY <1>2, WorkingStates DEF Sound, VaultFits
    <2>2. T \in ForceReject(S, p)
      BY <1>2, <2>1 DEF TickOne
    <2>3. QED
      BY <2>1, <2>2, ForceRejectSpares DEF Swept
  <1>3. CASE q = p /\ S.vault[p] = "Voided"
    <2>1. S.prop[p].state \in Ended
      BY <1>3 DEF Sound, VaultFits
    <2>2. S.prop[p].state \notin ForceRejectable /\
          S.prop[p].state \notin {"Submitted", "Qualified", "Suspended", "Rerun", "Queued", "FailedExecuted"}
      BY <2>1 DEF Ended, Terminal, ForceRejectable, InProgress, MarketBearing, Adopted
    <2>3. T = S
      BY <1>3, <2>2 DEF TickOne, Candidates
    <2>4. QED
      BY <2>3
  <1>4. QED
    BY <1>1, <1>2, <1>3 DEF Swept

LEMMA TickSwept ==
    ASSUME EpochInv, NEW p \in Proposals, st.vault[p] = "Open",
           NEW frozen \in BOOLEAN, Held(Sync(st), p, frozen),
           NEW B \in SUBSET Proposals, Tick(B, frozen)
    PROVE  st'.vault[p] \notin {"Accept", "Reject"}
  <1> DEFINE S     == Sync(st)
             slate == IF st.clock.phase # Seed /\ S.clock.phase = Seed
                      THEN {Shrink(S, keep) : keep \in SUBSET QualifiedFor(S)} ELSE {S}
             G     == {X \in Storage(Working) : Sound(X) /\ Swept(X, p, frozen)}
  <1>1. now \in 0 .. Horizon /\ Sound(st) /\ st \in Storage(Working)
    BY DEF EpochInv, TypeOK, Sound
  <1>2. Sound(S) /\ S \in Storage(Working) /\ S.vault = st.vault /\ S.prop = st.prop
    BY <1>1, SyncSound, SyncParts DEF Sound
  <1>3. Swept(S, p, frozen)
    BY <1>2 DEF Swept
  <1>4. PICK T \in slate, o \in Orders(S, B) : \E U \in Batch(T, o, frozen) : st' \in Persist(U)
    BY DEF Tick, Call
  <1>5. PICK U \in Batch(T, o, frozen) : st' \in Persist(U)
    BY <1>4
  <1> HIDE DEF S
  <1>6. \A X : X \in G <=> Sound(X) /\ Swept(X, p, frozen)
    BY DEF Sound
  <1> HIDE DEF G
  <1>7. T \in G
    <2>1. ASSUME NEW keep \in SUBSET QualifiedFor(S) PROVE Shrink(S, keep) \in G
      <3>1. Sound(Shrink(S, keep))
        BY <1>1, <1>2, ShrinkSound
      <3>2. Spares(S, Shrink(S, keep), p)
        <4>1. S.prop[p].state \in MarketBearing
          <5>1. S.vault[p] = "Open" /\ VaultFits(S, p)
            BY <1>2 DEF Sound
          <5>2. QED
            BY <5>1 DEF VaultFits
        <4>2. p \notin QualifiedFor(S) \ keep
          BY <4>1 DEF QualifiedFor, MarketBearing, Adopted
        <4> DEFINE X == Shrink(S, keep)
                   r == [x \in Proposals |-> IF x \in QualifiedFor(S) \ keep
                                             THEN RolloverOrRefund(S.prop[x], S.clock.index + 1) ELSE S.prop[x]]
                   l == [x \in Resources |-> IF S.locks[x] \in QualifiedFor(S) \ keep THEN Nobody ELSE S.locks[x]]
        <4>3. r[p] = S.prop[p]
          BY <4>2
        <4>4. X = [S EXCEPT !.funded = keep, !.locks = l, !.prop = r]
          BY DEF Shrink
        <4> HIDE DEF X, r, l
        <4>5. X.vault = S.vault /\ X.prop = r /\ X.recent = S.recent /\ X.stale = S.stale
          BY <1>2, <4>4 DEF Storage
        <4>6. QED
          BY <4>3, <4>5 DEF Spares, X
      <3>3. QED
        BY <1>2, <1>3, <1>6, <3>1, <3>2, SparedSwept
    <2>2. S \in G
      BY <1>2, <1>3, <1>6
    <2>3. QED
      BY <2>1, <2>2
  <1> HIDE DEF slate
  <1>8. Len(o) \in Nat /\ \A i \in 1 .. Len(o) : o[i] \in Proposals
    BY OrdersParts
  <1>9. ASSUME NEW X \in G, NEW i \in 1 .. Len(o) PROVE TickOne(X, o[i], frozen) \subseteq G
    <2>1. o[i] \in Proposals /\ Sound(X) /\ Swept(X, p, frozen)
      BY <1>6, <1>8
    <2>2. ASSUME NEW Y \in TickOne(X, o[i], frozen) PROVE Y \in G
      BY <2>1, <1>1, <1>6, TickOneSound, TickOneSwept
    <2>3. QED
      BY <2>2
  <1>10. U \in G
    BY <1>7, <1>8, <1>9, BatchKeeps
  <1>11. st'.vault = U.vault
    BY <1>5, <1>6, <1>10, PersistSound
  <1>12. QED
    BY <1>6, <1>10, <1>11 DEF Swept

LEMMA DecideSwept ==
    ASSUME EpochInv, NEW p \in Proposals, st.vault[p] = "Open",
           NEW frozen \in BOOLEAN, Held(Sync(st), p, frozen), Decide(p, frozen)
    PROVE  st'.vault[p] \notin {"Accept", "Reject"}
  <1>1. now \in 0 .. Horizon /\ Sound(st) /\ st \in Storage(Working)
    BY DEF EpochInv, TypeOK, Sound
  <1>2. Sound(Sync(st)) /\ Sync(st) \in Storage(Working) /\ Sync(st).prop = st.prop
    BY <1>1, SyncSound, SyncParts DEF Sound
  <1>3. PICK T \in ForceReject(Sync(st), p) : st' \in Persist(T)
    BY DEF Decide, Call, Decisions
  <1>4. st.prop[p].state \in MarketBearing
    BY <1>1 DEF Sound, VaultFits
  <1>5. Sound(T) /\ T.vault[p] = "Voided"
    BY <1>2, <1>3, <1>4, ForceRejectSound, ForceRejectSpares
  <1>6. st'.vault = T.vault
    BY <1>3, <1>5, PersistSound
  <1>7. QED
    BY <1>5, <1>6

(* Under a hold, neither tick nor decide resolves a held vault to a        *)
(* branch, whatever the batch, its order and what its other items do.      *)
THEOREM SweepsAlwaysAgree == Spec => SweepsAgree
  <1> DEFINE A == \A p \in Proposals :
                    st.vault[p] = "Open" /\ st'.vault[p] \in {"Accept", "Reject"} =>
                        \A frozen \in BOOLEAN :
                            \/ ~Held(Sync(st), p, frozen)
                            \/ /\ ~Decide(p, frozen)
                               /\ \A B \in SUBSET Proposals : p \in B => ~Tick(B, frozen)
  <1>1. EpochInv => A
    BY DecideSwept, TickSwept
  <1>2. EpochInv /\ [Next]_vars => [A]_vars
    BY <1>1
  <1>3. SweepsAgree <=> [][A]_vars
    BY DEF SweepsAgree
  <1> HIDE DEF A
  <1>4. Spec => [][A]_vars
    BY <1>2, EpochInvariant, PTL DEF Spec
  <1>5. QED
    BY <1>3, <1>4


----------------------------------------------------------------------------
(* FollowsTaught.  What an item of a batch does to its proposal is one row *)
(* of the taught table, read off the storages in hand; a terminal record   *)
(* is gone when it is stored.                                              *)

Reran(r) == r.rerun \/ r.delayed

(* The flags of a record: the rollover counter is one of Submitted, and    *)
(* what is suspended has been delayed.                                     *)
FlagsFit(S, p) ==
    LET r == S.prop[p]
    IN  /\ r.state # "Submitted" => ~r.rolled
        /\ r.state = "Absent" => ~Reran(r)
        /\ r.state \in {"Suspended", "Rerun"} => r.delayed

FlagsKept(r, q) ==
    q.state \in ForceRejectable \union {"Absent"} =>
        /\ Reran(q) <=> Reran(r)
        /\ r.delayed => q.delayed

(* The rows but T1, T6 and those of the guardian and of the settlement,    *)
(* from the state s with the vault v to t with w.                          *)
Turned(s, v, t, w) ==
    \/ s = "Submitted" /\ t \in Ended \union {"Qualified"} /\ w = v
    \/ s = "Qualified" /\ v = "Absent" /\ t = "Trading" /\ w = "Open"
    \/ s = "Trading" /\ t = "Extended" /\ w = v
    \/ s \in {"Trading", "Extended"} /\ t = "Queued" /\ w = v
    \/ s = "Queued" /\ t = "FailedExecuted" /\ w = v
    \/ s = "Suspended" /\ t = "Rerun" /\ w = v
    \/ s = "Rerun" /\ t = "Extended" /\ w = v
    \/ /\ s \in {"Trading", "Extended", "Queued", "Suspended"} /\ v = "Open"
       /\ t = "Measuring" /\ w = "Reject"
    \/ /\ s \in {"Queued", "FailedExecuted"} /\ v = "Open"
       /\ t = "Measuring" /\ w = "Accept"
    \/ /\ s \in ForceRejectable /\ v \in {"Absent", "Open"}
       /\ t \in Ended /\ w = IF v = "Open" THEN "Voided" ELSE v

Stays(S, T, p) ==
    /\ T.prop[p].state = S.prop[p].state /\ T.vault[p] = S.vault[p]
    /\ T.prop[p].rolled <=> S.prop[p].rolled

DeferredOnce(S, T, p) ==
    /\ S.prop[p].state = "Submitted" /\ ~S.prop[p].rolled
    /\ T.prop[p].state = "Submitted" /\ T.prop[p].rolled
    /\ T.vault[p] = S.vault[p]

Row(S, T, p) ==
    /\ FlagsKept(S.prop[p], T.prop[p])
    /\ T.prop[p].state # "Submitted" => ~T.prop[p].rolled
    /\ \/ Stays(S, T, p)
       \/ DeferredOnce(S, T, p)
       \/ Turned(S.prop[p].state, S.vault[p], T.prop[p].state, T.vault[p])

LEMMA RowFits ==
    ASSUME NEW S, NEW T, NEW p, FlagsFit(S, p), Row(S, T, p)
    PROVE  FlagsFit(T, p)
  <1>1. T.prop[p].state \in {"Absent", "Suspended", "Rerun"} =>
           /\ FlagsKept(S.prop[p], T.prop[p])
           /\ \/ T.prop[p].state = S.prop[p].state
              \/ T.prop[p].state = "Rerun" /\ S.prop[p].state = "Suspended"
    BY DEF Row, Stays, DeferredOnce, Turned, Ended, Terminal
  <1>2. {"Absent", "Suspended", "Rerun"} \subseteq ForceRejectable \union {"Absent"}
    BY DEF ForceRejectable, InProgress, MarketBearing, Adopted
  <1>3. T.prop[p].state # "Submitted" => ~T.prop[p].rolled
    BY DEF Row
  <1>4. QED
    BY <1>1, <1>2, <1>3 DEF FlagsFit, FlagsKept

(* Two records of which the taught life shows the same.                    *)
Alike(r, q) == /\ r.state = q.state
               /\ (r.rolled <=> q.rolled) /\ (r.rerun <=> q.rerun) /\ (r.delayed <=> q.delayed)

LEMMA StaysRow ==
    ASSUME NEW S, NEW T, NEW p, FlagsFit(S, p), Alike(S.prop[p], T.prop[p]), T.vault[p] = S.vault[p]
    PROVE  Row(S, T, p)
  <1>1. Stays(S, T, p) /\ FlagsKept(S.prop[p], T.prop[p])
    BY DEF Stays, Alike, FlagsKept, Reran
  <1>2. T.prop[p].state # "Submitted" => ~T.prop[p].rolled
    BY DEF Alike, FlagsFit
  <1>3. QED
    BY <1>1, <1>2 DEF Row

LEMMA RowAlike ==
    ASSUME NEW S, NEW U, NEW T, NEW p, Row(S, U, p), Alike(U.prop[p], T.prop[p]),
           T.vault[p] = U.vault[p]
    PROVE  Row(S, T, p)
  <1>1. FlagsKept(S.prop[p], T.prop[p]) /\ (T.prop[p].state # "Submitted" => ~T.prop[p].rolled)
    BY DEF Row, Alike, FlagsKept, Reran
  <1>2. \/ Stays(S, T, p)
        \/ DeferredOnce(S, T, p)
        \/ Turned(S.prop[p].state, S.vault[p], T.prop[p].state, T.vault[p])
    <2>1. CASE Stays(S, U, p)
      BY <2>1 DEF Stays, Alike
    <2>2. CASE DeferredOnce(S, U, p)
      BY <2>2 DEF DeferredOnce, Alike
    <2>3. CASE Turned(S.prop[p].state, S.vault[p], U.prop[p].state, U.vault[p])
      <3>1. T.prop[p].state = U.prop[p].state
        BY DEF Alike
      <3>2. QED
        BY <2>3, <3>1
    <2>4. QED
      BY <2>1, <2>2, <2>3 DEF Row
  <1>3. QED
    BY <1>1, <1>2 DEF Row

(* The vault of what is not in the market.                                 *)
LEMMA VaultOf ==
    ASSUME NEW S, S \in Storage(Working), NEW p \in Proposals, VaultFits(S, p)
    PROVE  /\ S.prop[p].state \in MarketBearing => S.vault[p] = "Open"
           /\ S.prop[p].state \in {"Absent", "Submitted", "Qualified"} => S.vault[p] = "Absent"
  <1>1. S.vault[p] \in Vaults
    BY RecordParts
  <1>2. {"Absent", "Submitted", "Qualified"} \intersect (MarketBearing \union Ended \union {"Measuring"}) = {}
    BY DEF MarketBearing, Adopted, Ended, Terminal
  <1>3. QED
    BY <1>1, <1>2 DEF VaultFits, Vaults

LEMMA EntersFlags ==
    ASSUME NEW r \in Records(Working), NEW s
    PROVE  /\ Enters(r, s).state = s /\ ~Enters(r, s).rolled
           /\ Enters(r, s).rerun = r.rerun /\ Enters(r, s).delayed = r.delayed
  BY DEF Enters, Records

(* What a record entering a new state needs to be a row.                   *)
LEMMA EntersRow ==
    ASSUME NEW S, S \in Storage(Working), NEW T, NEW p \in Proposals, NEW s,
           T.prop[p] = Enters(S.prop[p], s), Turned(S.prop[p].state, S.vault[p], s, T.vault[p])
    PROVE  Row(S, T, p)
  <1>1. S.prop[p] \in Records(Working)
    BY RecordParts
  <1>2. /\ T.prop[p].state = s /\ ~T.prop[p].rolled
        /\ T.prop[p].rerun = S.prop[p].rerun /\ T.prop[p].delayed = S.prop[p].delayed
    BY <1>1, EntersFlags
  <1>3. QED
    BY <1>2 DEF Row, FlagsKept, Reran


(* A rejection by hold is T20, of an open vault and of none.               *)
LEMMA ForceRejectRow ==
    ASSUME NEW S, S \in Storage(Working), NEW p \in Proposals, VaultFits(S, p), FlagsFit(S, p),
           NEW T \in ForceReject(S, p)
    PROVE  Row(S, T, p)
  <1>1. CASE S.prop[p].state \notin ForceRejectable
    <2>1. T = S
      BY <1>1 DEF ForceReject
    <2>2. QED
      BY <2>1, StaysRow DEF Alike
  <1>2. CASE S.prop[p].state \in ForceRejectable
    <2>1. PICK U \in (IF HasMarkets(S, p) THEN VoidVault(S, p) ELSE {S}) :
            T = MaybeClearStale(Release(Put(U, p, Enters(U.prop[p], "Rejected")), p))
      BY <1>2 DEF ForceReject, Put
    <2>2. HasMarkets(S, p) <=> S.prop[p].state \in MarketBearing
      BY <1>2, WorkingStates DEF HasMarkets
    <2>3. U = IF S.prop[p].state \in MarketBearing THEN VaultPut(S, p, "Voided") ELSE S
      BY <2>1, <2>2 DEF VoidVault, VaultPut
    <2>4. /\ U \in Storage(Working) /\ U.prop = S.prop
          /\ U.vault[p] = IF S.prop[p].state \in MarketBearing THEN "Voided" ELSE S.vault[p]
      <3>1. "Voided" \in Vaults
        BY DEF Vaults
      <3>2. QED
        BY <3>1, <2>3, VaultPutParts
    <2> DEFINE r == Enters(S.prop[p], "Rejected")
               X == Put(U, p, r)
    <2>5. r \in Records(Working)
      <3>1. S.prop[p] \in Records(Working) /\ "Rejected" \in Working
        BY RecordParts, WorkingStates DEF Terminal
      <3>2. QED
        BY <3>1, EntersParts
    <2>6. T = MaybeClearStale(Release(X, p))
      BY <2>1, <2>4
    <2> HIDE DEF r
    <2>7. X \in Storage(Working) /\ X.prop[p] = r /\ X.vault = U.vault
      BY <2>4, <2>5, PutParts
    <2> HIDE DEF X
    <2>8. Release(X, p) \in Storage(Working) /\ Release(X, p).prop = X.prop /\ Release(X, p).vault = X.vault
      BY <2>7, ReleaseParts
    <2>9. T.prop[p] = Enters(S.prop[p], "Rejected") /\ T.vault[p] = U.vault[p]
      BY <2>6, <2>7, <2>8, ClearStaleParts DEF r
    <2>10. Turned(S.prop[p].state, S.vault[p], "Rejected", T.vault[p])
      <3>1. "Rejected" \in Ended
        BY DEF Ended, Terminal
      <3>2. CASE S.prop[p].state \in MarketBearing
        <4>1. S.vault[p] = "Open" /\ T.vault[p] = "Voided"
          BY <3>2, <2>4, <2>9, VaultOf
        <4>2. QED
          BY <4>1, <3>1, <1>2 DEF Turned
      <3>3. CASE S.prop[p].state \notin MarketBearing
        <4>1. S.prop[p].state \in {"Submitted", "Qualified"}
          BY <1>2, <3>3 DEF ForceRejectable, InProgress
        <4>2. S.vault[p] = "Absent" /\ T.vault[p] = "Absent"
          BY <4>1, <3>3, <2>4, <2>9, VaultOf
        <4>3. QED
          BY <4>2, <3>1, <1>2 DEF Turned
      <3>4. QED
        BY <3>2, <3>3
    <2>11. QED
      BY <2>9, <2>10, EntersRow
  <1>3. QED
    BY <1>1, <1>2

(* A branch the market or the execution resolves the vault of s to.        *)
BranchOf(s, b) ==
    \/ b = "Reject" /\ s \in {"Trading", "Extended", "Queued", "Suspended"}
    \/ b = "Accept" /\ s \in {"Queued", "FailedExecuted"}

LEMMA ToMeasurementRow ==
    ASSUME NEW S, S \in Storage(Working), NEW p \in Proposals, VaultFits(S, p), FlagsFit(S, p),
           NEW b \in {"Accept", "Reject"}, BranchOf(S.prop[p].state, b),
           NEW T \in ToMeasurement(S, p, b)
    PROVE  T \in Storage(Working) /\ Row(S, T, p)
  <1>1. CASE Voided(S, S.prop[p].epoch)
    <2>1. T \in ForceReject(S, p)
      BY <1>1 DEF ToMeasurement
    <2>2. QED
      BY <2>1, ForceRejectRow, ForceRejectSpares
  <1>2. CASE ~Voided(S, S.prop[p].epoch)
    <2>1. PICK U \in ResolveVault(S, p, b) : T \in Measure(U, p)
      BY <1>2 DEF ToMeasurement
    <2>2. U = VaultPut(S, p, b) /\ b \in Vaults
      BY <2>1 DEF ResolveVault, VaultPut, Vaults
    <2>3. U \in Storage(Working) /\ U.prop = S.prop /\ U.vault[p] = b
      BY <2>2, VaultPutParts
    <2>4. T \in Storage(Working) /\ T.vault = U.vault /\ T.prop[p] = Enters(U.prop[p], "Measuring")
      BY <2>1, <2>3, MeasureParts
    <2>5. S.vault[p] = "Open"
      BY VaultOf DEF BranchOf, MarketBearing, Adopted
    <2>6. Turned(S.prop[p].state, S.vault[p], "Measuring", T.vault[p])
      BY <2>3, <2>4, <2>5 DEF Turned, BranchOf
    <2>7. QED
      BY <2>3, <2>4, <2>6, EntersRow
  <1>3. QED
    BY <1>1, <1>2

LEMMA RejectToMeasurementRow ==
    ASSUME NEW S, S \in Storage(Working), NEW p \in Proposals, VaultFits(S, p), FlagsFit(S, p),
           BranchOf(S.prop[p].state, "Reject"),
           NEW T \in RejectToMeasurement(S, p)
    PROVE  Row(S, T, p)
  <1>1. PICK U \in ToMeasurement(S, p, "Reject") :
          T = Release(Put(U, p, [U.prop[p] EXCEPT !.decision = "Reject"]), p)
    BY DEF RejectToMeasurement, Put
  <1>2. U \in Storage(Working) /\ Row(S, U, p)
    BY ToMeasurementRow
  <1> DEFINE r == [U.prop[p] EXCEPT !.decision = "Reject"]
             X == Put(U, p, r)
  <1>3. U.prop[p] \in Records(Working)
    BY <1>2, RecordParts
  <1>4. r \in Records(Working) /\ Alike(U.prop[p], r)
    BY <1>3 DEF Records, Alike
  <1>5. T = Release(X, p)
    BY <1>1
  <1> HIDE DEF r
  <1>6. X \in Storage(Working) /\ X.prop[p] = r /\ X.vault = U.vault
    BY <1>2, <1>4, PutParts
  <1> HIDE DEF X
  <1>7. T.prop[p] = r /\ T.vault[p] = U.vault[p]
    BY <1>5, <1>6, ReleaseParts
  <1>8. QED
    BY <1>2, <1>4, <1>7, RowAlike


(* A deferral: once, or it is the end.                                     *)
LEMMA RolloverFlags ==
    ASSUME NEW r \in Records(Working), NEW next
    PROVE  LET q == RolloverOrRefund(r, next)
           IN  /\ q.rerun = r.rerun /\ q.delayed = r.delayed
               /\ r.rolled => q.state = "Cancelled" /\ ~q.rolled
               /\ ~r.rolled => q.state = "Submitted" /\ q.rolled
  <1>1. CASE r.rolled
    BY <1>1, EntersFlags DEF RolloverOrRefund
  <1>2. CASE ~r.rolled
    BY <1>2 DEF RolloverOrRefund, Records
  <1>3. QED
    BY <1>1, <1>2

LEMMA ScreenRow ==
    ASSUME now \in 0 .. Horizon,
           NEW S, Sound(S), NEW p \in Candidates(S), FlagsFit(S, p), NEW T \in Screen(S, p)
    PROVE  Row(S, T, p)
  <1>1. /\ S \in Storage(Working) /\ S.clock.index <= now \div Length
        /\ p \in Proposals /\ S.prop[p].state = "Submitted"
    BY DEF Candidates, Sound
  <1>2. /\ S.clock.index \in Nat /\ S.prop[p] \in Records(Working)
        /\ S.clock.index + 1 \in Epochs
    BY <1>1, StorageParts, RecordParts, EpochsAreNaturals, NextEpoch
  <1> DEFINE at   == S.clock.index * Length + Start[DecidePhase]
             left == Enters(S.prop[p], "Cancelled")
             mid  == Enters(S.prop[p], "Qualified")
             in   == [mid EXCEPT !.due = at]
             late == RolloverOrRefund(S.prop[p], S.clock.index + 1)
  <1>3. T \in {Put(S, p, left), Put(S, p, late), Takes(Put(S, p, in), p)}
    BY DEF Screen, Put
  <1>4. left \in Records(Working) /\ late \in Records(Working) /\ mid \in Records(Working)
    <2>1. {"Cancelled", "Qualified"} \subseteq Working
      BY DEF Working, Terminal, States, Stored, ForceRejectable, InProgress
    <2>2. QED
      BY <2>1, <1>2, EntersParts, RolloverParts
  <1>5. at \in Nat
    <2>1. DecidePhase \in Phases /\ Length \in Nat /\ Start[DecidePhase] \in Nat
      BY EpochParameters DEF DecidePhase, Phases, Intake, Housekeeping
    <2>2. QED
      BY <2>1, <1>2
  <1>6. /\ mid.state = "Qualified" /\ ~mid.rolled
        /\ mid.rerun = S.prop[p].rerun /\ mid.delayed = S.prop[p].delayed
    BY <1>2, EntersFlags
  <1> HIDE DEF at, mid
  <1>7. in \in Records(Working) /\ Alike(mid, in)
    BY <1>4, <1>5 DEF Records, Alike
  <1>8. T = Put(S, p, left) => Row(S, T, p)
    <2>1. Put(S, p, left).prop[p] = left /\ Put(S, p, left).vault = S.vault
      BY <1>1, <1>4, PutParts
    <2>2. Turned(S.prop[p].state, S.vault[p], "Cancelled", S.vault[p])
      BY <1>1 DEF Turned, Ended, Terminal
    <2>3. QED
      BY <2>1, <2>2, <1>1, EntersRow
  <1>9. T = Put(S, p, late) => Row(S, T, p)
    <2>1. Put(S, p, late).prop[p] = late /\ Put(S, p, late).vault = S.vault
      BY <1>1, <1>4, PutParts
    <2>2. /\ late.rerun = S.prop[p].rerun /\ late.delayed = S.prop[p].delayed
          /\ S.prop[p].rolled => late.state = "Cancelled" /\ ~late.rolled
          /\ ~S.prop[p].rolled => late.state = "Submitted" /\ late.rolled
      BY <1>2, RolloverFlags
    <2> HIDE DEF late
    <2>3. CASE S.prop[p].rolled
      <3>1. Turned(S.prop[p].state, S.vault[p], "Cancelled", S.vault[p])
        BY <1>1 DEF Turned, Ended, Terminal
      <3>2. QED
        BY <2>1, <2>2, <2>3, <3>1 DEF Row, FlagsKept, Reran
    <2>4. CASE ~S.prop[p].rolled
      BY <2>1, <2>2, <2>4, <1>1 DEF Row, FlagsKept, Reran, DeferredOnce
    <2>5. QED
      BY <2>3, <2>4
  <1>10. T = Takes(Put(S, p, in), p) => Row(S, T, p)
    <2> HIDE DEF in
    <2> DEFINE X == Put(S, p, in)
    <2>1. X \in Storage(Working) /\ X.prop[p] = in /\ X.vault = S.vault
      BY <1>1, <1>7, PutParts
    <2> HIDE DEF X
    <2>2. Takes(X, p).prop[p] = in /\ Takes(X, p).vault = S.vault
      BY <2>1, <1>1, TakesParts
    <2>3. Turned(S.prop[p].state, S.vault[p], "Qualified", S.vault[p])
      BY <1>1 DEF Turned
    <2>4. /\ in.state = "Qualified" /\ ~in.rolled
          /\ (in.rerun <=> S.prop[p].rerun) /\ (in.delayed <=> S.prop[p].delayed)
      BY <1>6, <1>7 DEF Alike
    <2>5. Row(S, Takes(X, p), p)
      BY <2>2, <2>3, <2>4 DEF Row, FlagsKept, Reran
    <2>6. QED
      BY <2>5 DEF X
  <1>11. QED
    BY <1>3, <1>8, <1>9, <1>10

LEMMA RerunRow ==
    ASSUME now \in Nat, NEW S, S \in Storage(Working), NEW p \in Proposals, FlagsFit(S, p),
           NEW T,
           \/ S.prop[p].state = "Suspended" /\ T \in ScheduleRerun(S, p)
           \/ S.prop[p].state = "Rerun" /\ T \in OpenRerun(S, p)
    PROVE  Row(S, T, p)
  <1> DEFINE r == [S.prop[p] EXCEPT !.state = "Rerun", !.due = 0, !.decision = "None"]
             x == [S.prop[p] EXCEPT !.state = "Extended", !.rerun = TRUE, !.due = now + Extension]
  <1>1. \/ S.prop[p].state = "Suspended" /\ T = Put(S, p, r)
        \/ S.prop[p].state = "Rerun" /\ T = Put(S, p, x)
    BY DEF ScheduleRerun, OpenRerun, Put
  <1>2. {"Rerun", "Extended"} \subseteq Working /\ now + Extension \in Nat /\ 0 \in Nat
    BY EpochParameters DEF Working, States, Stored, ForceRejectable, InProgress, MarketBearing
  <1>3. S.prop[p] \in Records(Working)
    BY RecordParts
  <1>4. /\ r \in Records(Working) /\ x \in Records(Working)
        /\ r.state = "Rerun" /\ r.rolled = S.prop[p].rolled
        /\ r.rerun = S.prop[p].rerun /\ r.delayed = S.prop[p].delayed
        /\ x.state = "Extended" /\ x.rolled = S.prop[p].rolled
        /\ x.rerun /\ x.delayed = S.prop[p].delayed
    BY <1>2, <1>3 DEF Records
  <1>5. S.prop[p].state \in {"Suspended", "Rerun"} => S.prop[p].delayed /\ ~S.prop[p].rolled
    BY DEF FlagsFit
  <1> HIDE DEF r, x
  <1>6. /\ Put(S, p, r).prop[p] = r /\ Put(S, p, r).vault = S.vault
        /\ Put(S, p, x).prop[p] = x /\ Put(S, p, x).vault = S.vault
    BY <1>4, PutParts
  <1>7. CASE S.prop[p].state = "Suspended" /\ T = Put(S, p, r)
    <2>1. Turned(S.prop[p].state, S.vault[p], r.state, S.vault[p])
      BY <1>4, <1>7 DEF Turned
    <2>2. FlagsKept(S.prop[p], r) /\ ~r.rolled
      BY <1>4, <1>5, <1>7 DEF FlagsKept, Reran
    <2>3. QED
      BY <2>1, <2>2, <1>6, <1>7 DEF Row
  <1>8. CASE S.prop[p].state = "Rerun" /\ T = Put(S, p, x)
    <2>1. Turned(S.prop[p].state, S.vault[p], x.state, S.vault[p])
      BY <1>4, <1>8 DEF Turned
    <2>2. FlagsKept(S.prop[p], x) /\ ~x.rolled
      BY <1>4, <1>5, <1>8 DEF FlagsKept, Reran
    <2>3. QED
      BY <2>1, <2>2, <1>6, <1>8 DEF Row
  <1>9. QED
    BY <1>1, <1>7, <1>8


LEMMA OpenMarketsRow ==
    ASSUME NEW S, S \in Storage(Working), NEW p \in Proposals, VaultFits(S, p), FlagsFit(S, p),
           S.prop[p].state = "Qualified", NEW T \in OpenMarkets(S, p)
    PROVE  Row(S, T, p)
  <1> DEFINE e == S.prop[p].epoch
             m == [S.prop[p] EXCEPT !.state = "Trading"]
             v == [S.vault EXCEPT ![p] = "Open"]
             r == [S.prop EXCEPT ![p] = m]
             b == [S.baseline EXCEPT ![e] = IF S.baseline[e] = "Absent" THEN "Open" ELSE S.baseline[e]]
  <1>1. T = [S EXCEPT !.vault = v, !.prop = r, !.baseline = b]
    BY DEF OpenMarkets
  <1>2. v[p] = "Open" /\ r[p] = m
    BY StorageParts
  <1>3. /\ m.state = "Trading" /\ m.rolled = S.prop[p].rolled
        /\ m.rerun = S.prop[p].rerun /\ m.delayed = S.prop[p].delayed
    <2>1. S.prop[p] \in Records(Working)
      BY RecordParts
    <2>2. QED
      BY <2>1 DEF Records
  <1> HIDE DEF v, r, b, m
  <1>4. T.vault = v /\ T.prop = r
    BY <1>1 DEF Storage
  <1>5. ~S.prop[p].rolled
    BY DEF FlagsFit
  <1>6. Turned("Qualified", S.vault[p], "Trading", T.vault[p])
    BY <1>2, <1>4, VaultOf DEF Turned
  <1>7. QED
    BY <1>2, <1>3, <1>4, <1>5, <1>6 DEF Row, FlagsKept, Reran

LEMMA TickOneRow ==
    ASSUME now \in 0 .. Horizon, NEW S, Sound(S), NEW p \in Proposals, FlagsFit(S, p),
           NEW frozen, NEW T \in TickOne(S, p, frozen)
    PROVE  Row(S, T, p)
  <1>1. S \in Storage(Working) /\ now \in Nat /\ VaultFits(S, p)
    BY DEF Sound
  <1>2. \/ T \in ForceReject(S, p)
        \/ p \in Candidates(S) /\ T \in Screen(S, p)
        \/ S.prop[p].state = "Qualified" /\ T \in OpenMarkets(S, p)
        \/ S.prop[p].state = "Suspended" /\ T \in ScheduleRerun(S, p)
        \/ S.prop[p].state = "Rerun" /\ T \in OpenRerun(S, p)
        \/ S.prop[p].state = "Queued" /\ T \in FromQueue(S, p)
        \/ S.prop[p].state = "FailedExecuted" /\ T \in ToMeasurement(S, p, "Accept")
        \/ T = S
    BY DEF TickOne
  <1>3. T \in FromQueue(S, p) =>
          T \in RejectToMeasurement(S, p) \/ T \in ToMeasurement(S, p, "Reject") \/ T = S
    BY DEF FromQueue
  <1>4. T = S => Row(S, T, p)
    BY StaysRow DEF Alike
  <1>5. /\ S.prop[p].state = "Queued" => BranchOf(S.prop[p].state, "Reject")
        /\ S.prop[p].state = "FailedExecuted" => BranchOf(S.prop[p].state, "Accept")
    BY DEF BranchOf
  <1>6. CASE S.prop[p].state = "Queued" /\ T \in FromQueue(S, p)
    BY <1>1, <1>3, <1>4, <1>5, <1>6, ToMeasurementRow, RejectToMeasurementRow
  <1>7. CASE S.prop[p].state = "FailedExecuted" /\ T \in ToMeasurement(S, p, "Accept")
    BY <1>1, <1>5, <1>7, ToMeasurementRow
  <1>8. QED
    BY <1>1, <1>2, <1>4, <1>6, <1>7, ForceRejectRow, ScreenRow, OpenMarketsRow, RerunRow

(* A batch, of what changes from item to item: F[i] holds the storages     *)
(* after the first i of them.                                              *)
LEMMA BatchMoves ==
    ASSUME NEW F, NEW o, NEW frozen, Len(o) \in Nat, NEW T \in F[0],
           \A i \in 1 .. Len(o) : \A U \in F[i - 1] : TickOne(U, o[i], frozen) \subseteq F[i]
    PROVE  Batch(T, o, frozen) \subseteq F[Len(o)]
  <1> DEFINE n == Len(o)
             h == CHOOSE f : After(f, T, o, frozen, n)
  <1>1. After(h, T, o, frozen, n)
    BY AfterExists
  <1>2. Batch(T, o, frozen) = h[n]
    BY DEF Batch, After
  <1>3. h[0] = {T} /\ \A i \in 1 .. n : h[i] = NextAfter(h[i - 1], o[i], frozen)
    <2> HIDE DEF h
    <2>1. QED
      BY <1>1, AfterParts
  <1> HIDE DEF h
  <1> DEFINE X == {i \in 0 .. n : ~(h[i] \subseteq F[i])}
  <1>4. SUFFICES ASSUME X # {} PROVE FALSE
    BY <1>2
  <1>5. X \subseteq Nat
    OBVIOUS
  <1>6. PICK i \in X : \A j \in X : ~(j < i)
    BY <1>4, <1>5, LeastNatural
  <1>7. i # 0
    BY <1>3, <1>6
  <1>8. i \in 1 .. n /\ i - 1 \in 0 .. n /\ i - 1 < i
    BY <1>7
  <1>9. h[i - 1] \subseteq F[i - 1]
    BY <1>6, <1>8
  <1>10. NextAfter(h[i - 1], o[i], frozen) \subseteq F[i]
    BY <1>8, <1>9 DEF NextAfter
  <1>11. QED
    BY <1>3, <1>6, <1>8, <1>10

(* An order takes an item once.                                            *)
LEMMA OrdersOnce ==
    ASSUME NEW B \in SUBSET Proposals, NEW S, NEW o \in Orders(S, B)
    PROVE  \A i, j \in 1 .. Len(o) : i # j => o[i] # o[j]
  <1>1. IsFiniteSet(B)
    <2>1. 1 \in Int /\ N \in Int
      BY EpochParameters
    <2>2. IsFiniteSet(Proposals)
      BY <2>1, FS_Interval DEF Proposals
    <2>3. QED
      BY <2>2, FS_Subset
  <1>2. Cardinality(B) \in Nat
    BY <1>1, FS_CardinalityType
  <1>3. /\ o \in [1 .. Cardinality(B) -> B]
        /\ \A i, j \in 1 .. Cardinality(B) : i # j => o[i] # o[j]
    BY DEF Orders, SetToSeqs
  <1>4. Len(o) = Cardinality(B)
    BY <1>2, <1>3
  <1>5. QED
    BY <1>3, <1>4

(* A proposal takes one row in a batch at most, wherever it comes in the   *)
(* order: the items before and after it let it alone.                      *)
LEMMA BatchRow ==
    ASSUME now \in 0 .. Horizon,
           NEW B \in SUBSET Proposals, NEW S, NEW o \in Orders(S, B), NEW frozen,
           NEW T, Sound(T), NEW p \in Proposals, FlagsFit(T, p), NEW U \in Batch(T, o, frozen)
    PROVE  Row(T, U, p)
  <1>1. Len(o) \in Nat /\ \A i \in 1 .. Len(o) : o[i] \in Proposals
    BY OrdersParts
  <1>2. \A i, j \in 1 .. Len(o) : i # j => o[i] # o[j]
    BY OrdersOnce
  <1> DEFINE Before == {X \in Storage(Working) :
                          Sound(X) /\ X.prop[p] = T.prop[p] /\ X.vault[p] = T.vault[p]}
             Since  == {X \in Storage(Working) : Sound(X) /\ Row(T, X, p)}
             Taken(i) == \E j \in 1 .. i : o[j] = p
             F == [i \in 0 .. Len(o) |-> IF Taken(i) THEN Since ELSE Before]
  <1>3. \A X : X \in Before <=> Sound(X) /\ X.prop[p] = T.prop[p] /\ X.vault[p] = T.vault[p]
    BY DEF Sound
  <1>4. \A X : X \in Since <=> Sound(X) /\ Row(T, X, p)
    BY DEF Sound
  <1>5. \A i \in 0 .. Len(o) : /\ Taken(i) => F[i] = Since
                               /\ ~Taken(i) => F[i] = Before
    OBVIOUS
  <1>6. 0 \in 0 .. Len(o) /\ Len(o) \in 0 .. Len(o) /\ ~Taken(0)
    BY <1>1
  <1>7. T \in F[0]
    BY <1>3, <1>5, <1>6
  <1> HIDE DEF F, Before, Since
  <1>8. ASSUME NEW i \in 1 .. Len(o), NEW X \in F[i - 1], NEW Y \in TickOne(X, o[i], frozen)
        PROVE  Y \in F[i]
    <2>1. /\ i \in 0 .. Len(o) /\ i - 1 \in 0 .. Len(o) /\ o[i] \in Proposals
          /\ \A j \in 1 .. i : j = i \/ j \in 1 .. i - 1
          /\ \A j \in 1 .. i - 1 : j \in 1 .. i /\ j # i /\ j \in 1 .. Len(o)
          /\ i \in 1 .. i
      BY <1>1
    <2>2. Sound(X)
      BY <1>3, <1>4, <1>5, <1>8, <2>1
    <2>3. Sound(Y)
      BY <1>8, <2>1, <2>2, TickOneSound
    <2>4. CASE o[i] = p
      <3>1. ~Taken(i - 1) /\ Taken(i)
        BY <1>2, <2>1, <2>4
      <3>2. X.prop[p] = T.prop[p] /\ X.vault[p] = T.vault[p]
        BY <1>3, <1>5, <1>8, <2>1, <3>1
      <3>3. FlagsFit(X, p)
        BY <3>2 DEF FlagsFit
      <3>4. Row(X, Y, p)
        BY <1>8, <2>2, <2>4, <3>3, TickOneRow
      <3>5. Row(T, Y, p)
        BY <3>2, <3>4 DEF Row, Stays, DeferredOnce
      <3>6. QED
        BY <1>4, <1>5, <2>1, <2>3, <3>1, <3>5
    <2>5. CASE o[i] # p
      <3>1. Taken(i) <=> Taken(i - 1)
        BY <2>1, <2>5
      <3>2. Spares(X, Y, p)
        BY <1>8, <2>1, <2>2, <2>5, TickOneSpares
      <3>3. Y.prop[p] = X.prop[p] /\ Y.vault[p] = X.vault[p]
        BY <3>2 DEF Spares
      <3>4. CASE Taken(i)
        <4>1. Row(T, X, p)
          BY <1>4, <1>5, <1>8, <2>1, <3>1, <3>4
        <4>2. Row(T, Y, p)
          BY <3>3, <4>1, RowAlike DEF Alike
        <4>3. QED
          BY <1>4, <1>5, <2>1, <2>3, <3>4, <4>2
      <3>5. CASE ~Taken(i)
        <4>1. X.prop[p] = T.prop[p] /\ X.vault[p] = T.vault[p]
          BY <1>3, <1>5, <1>8, <2>1, <3>1, <3>5
        <4>2. QED
          BY <1>3, <1>5, <2>1, <2>3, <3>3, <3>5, <4>1
      <3>6. QED
        BY <3>4, <3>5
    <2>6. QED
      BY <2>4, <2>5
  <1>9. \A i \in 1 .. Len(o) : \A X \in F[i - 1] : TickOne(X, o[i], frozen) \subseteq F[i]
    BY <1>8
  <1>10. U \in F[Len(o)]
    BY <1>1, <1>7, <1>9, BatchMoves
  <1>11. CASE Taken(Len(o))
    BY <1>4, <1>5, <1>6, <1>10, <1>11
  <1>12. CASE ~Taken(Len(o))
    <2>1. U.prop[p] = T.prop[p] /\ U.vault[p] = T.vault[p]
      BY <1>3, <1>5, <1>6, <1>10, <1>12
    <2>2. QED
      BY <2>1, StaysRow DEF Alike
  <1>13. QED
    BY <1>11, <1>12


(* What a call does to a proposal: a row of a batch, T1, T19 in the parts  *)
(* a settlement does it in, or what the table does not teach.              *)
Beyond(S, T, p) ==
    LET r == S.prop[p]   v == S.vault[p]
        q == T.prop[p]   w == T.vault[p]
    IN  \/ r.state = "Absent" /\ q.state = "Submitted" /\ ~q.rolled /\ w = v
        \/ r.state = "Qualified" /\ q.state = "Submitted" /\ q.rolled /\ w = v
        \/ /\ r.state = "Measuring" /\ v \in {"Accept", "Reject", "Settled"}
           /\ q.state \in Ended \union {"Measuring"} /\ w = "Settled"
        \/ /\ r.state = "Measuring" /\ v \in {"Accept", "Reject"}
           /\ q.state \in Ended /\ w = "Voided"

Turn(S, T, p) ==
    /\ FlagsKept(S.prop[p], T.prop[p])
    /\ T.prop[p].state # "Submitted" => ~T.prop[p].rolled
    /\ \/ Stays(S, T, p)
       \/ DeferredOnce(S, T, p)
       \/ Turned(S.prop[p].state, S.vault[p], T.prop[p].state, T.vault[p])
       \/ Beyond(S, T, p)

LEMMA RowTurn ==
    ASSUME NEW S, NEW T, NEW p, Row(S, T, p)
    PROVE  Turn(S, T, p)
  BY DEF Row, Turn

LEMMA TurnFits ==
    ASSUME NEW S, NEW T, NEW p, FlagsFit(S, p), Turn(S, T, p)
    PROVE  FlagsFit(T, p)
  <1>1. CASE Row(S, T, p)
    BY <1>1, RowFits
  <1>2. CASE Beyond(S, T, p)
    <2>1. T.prop[p].state \notin {"Absent", "Suspended", "Rerun"}
      BY <1>2 DEF Beyond, Ended, Terminal
    <2>2. QED
      BY <2>1 DEF Turn, FlagsFit
  <1>3. QED
    BY <1>1, <1>2 DEF Turn, Row

(* Storing shows the same of a record that is kept, and gone of the others.*)
LEMMA StoredFlags ==
    ASSUME NEW r
    PROVE  LET q == StoredRecord(r)
           IN  /\ r.state \in Terminal => q.state = "Gone" /\ ~q.rolled
               /\ r.state = "Measuring" => q.state = "Measuring" /\ ~q.rolled
               /\ r.state \notin Terminal \union {"Measuring"} => q = r
  <1>1. "Measuring" \notin Terminal
    BY DEF Terminal
  <1>2. CASE r.state \in Terminal
    <2>1. StoredRecord(r) = [Blank EXCEPT !.state = "Gone"]
      BY <1>2 DEF StoredRecord, Terminal
    <2>2. QED
      BY <2>1, <1>1, <1>2 DEF Blank
  <1>3. CASE r.state = "Measuring"
    <2>1. StoredRecord(r) = [Blank EXCEPT !.state = r.state, !.epoch = r.epoch, !.decision = r.decision]
      BY <1>3, <1>1 DEF StoredRecord
    <2>2. QED
      BY <2>1, <1>1, <1>3 DEF Blank
  <1>4. CASE r.state \notin Terminal \union {"Measuring"}
    BY <1>4 DEF StoredRecord
  <1>5. QED
    BY <1>2, <1>3, <1>4

LEMMA PersistRecord ==
    ASSUME NEW S, S \in Storage(Working), NEW T \in Persist(S), NEW p \in Proposals
    PROVE  T.prop[p] = StoredRecord(S.prop[p]) /\ T.vault[p] = S.vault[p]
  <1> DEFINE m == [e \in Epochs |-> S.cohorts[e].members]
             r == [x \in Proposals |-> StoredRecord(S.prop[x])]
             g == {x \in S.funded : S.prop[x].state = "Qualified"}
  <1>1. T = [S EXCEPT !.schedules = m, !.prop = r, !.funded = g]
    BY DEF Persist
  <1>2. r[p] = StoredRecord(S.prop[p])
    OBVIOUS
  <1> HIDE DEF m, r, g
  <1>3. T.prop = r /\ T.vault = S.vault
    BY <1>1 DEF Storage
  <1>4. QED
    BY <1>2, <1>3

LEMMA PersistTurn ==
    ASSUME NEW S, S \in Storage(States), NEW U, U \in Storage(Working), NEW p \in Proposals,
           Turn(S, U, p), NEW T \in Persist(U)
    PROVE  Turn(S, T, p)
  <1>1. T.prop[p] = StoredRecord(U.prop[p]) /\ T.vault[p] = U.vault[p]
    BY PersistRecord
  <1>2. "Gone" \in Ended /\ "Gone" \notin ForceRejectable \union {"Absent", "Submitted"}
    BY DEF Ended, ForceRejectable, InProgress, MarketBearing, Adopted
  <1>3. CASE U.prop[p].state \in Terminal
    <2>1. T.prop[p].state = "Gone" /\ ~T.prop[p].rolled
      BY <1>1, <1>3, StoredFlags
    <2>2. ~Stays(S, U, p) /\ ~DeferredOnce(S, U, p)
      <3>1. S.prop[p].state \in States
        BY RecordParts
      <3>2. Terminal \intersect States = {} /\ "Submitted" \notin Terminal
        BY DEF Terminal, States, Stored, ForceRejectable, InProgress, MarketBearing, Adopted
      <3>3. QED
        BY <3>1, <3>2, <1>3 DEF Stays, DeferredOnce
    <2>3. U.prop[p].state \in Ended
      BY <1>3 DEF Ended
    <2>4. CASE Turned(S.prop[p].state, S.vault[p], U.prop[p].state, U.vault[p])
      <3>1. Turned(S.prop[p].state, S.vault[p], "Gone", T.vault[p])
        BY <2>4, <1>1, <1>2, <1>3 DEF Turned, Terminal
      <3>2. QED
        BY <3>1, <2>1, <1>2 DEF Turn, FlagsKept
    <2>5. CASE Beyond(S, U, p)
      <3>1. Beyond(S, T, p)
        BY <2>1, <2>5, <1>1, <1>2, <1>3 DEF Beyond, Terminal
      <3>2. QED
        BY <3>1, <2>1, <1>2 DEF Turn, FlagsKept
    <2>6. QED
      BY <2>2, <2>4, <2>5 DEF Turn
  <1>4. CASE U.prop[p].state = "Measuring"
    <2>1. T.prop[p].state = "Measuring" /\ ~T.prop[p].rolled /\ ~U.prop[p].rolled
      BY <1>1, <1>4, StoredFlags DEF Turn
    <2>2. FlagsKept(S.prop[p], T.prop[p])
      BY <2>1, WorkingStates DEF FlagsKept
    <2>3. CASE Stays(S, U, p)
      <3>1. Stays(S, T, p)
        BY <2>1, <2>3, <1>1, <1>4 DEF Stays
      <3>2. QED
        BY <3>1, <2>1, <2>2 DEF Turn
    <2>4. CASE Turned(S.prop[p].state, S.vault[p], U.prop[p].state, U.vault[p])
      BY <2>1, <2>2, <2>4, <1>1, <1>4 DEF Turn
    <2>5. CASE Beyond(S, U, p)
      <3>1. Beyond(S, T, p)
        BY <2>1, <2>5, <1>1, <1>4 DEF Beyond
      <3>2. QED
        BY <3>1, <2>1, <2>2 DEF Turn
    <2>6. ~DeferredOnce(S, U, p)
      BY <1>4 DEF DeferredOnce
    <2>7. QED
      BY <2>3, <2>4, <2>5, <2>6 DEF Turn
  <1>5. CASE U.prop[p].state \notin Terminal \union {"Measuring"}
    <2>1. T.prop[p] = U.prop[p]
      BY <1>1, <1>5, StoredFlags
    <2>2. QED
      BY <2>1, <1>1 DEF Turn, Stays, DeferredOnce, Beyond
  <1>6. QED
    BY <1>3, <1>4, <1>5

LEMMA CallTurns ==
    ASSUME EpochInv, NEW p \in Proposals, NEW outcomes, Call(outcomes),
           \A U \in outcomes : U \in Storage(Working) /\ Turn(st, U, p)
    PROVE  Turn(st, st', p)
  <1>1. PICK U \in outcomes : st' \in Persist(U)
    BY DEF Call
  <1>2. st \in Storage(States)
    BY DEF EpochInv, TypeOK
  <1>3. QED
    BY <1>1, <1>2, PersistTurn

(* The slate is cut: a qualified proposal goes back to Submitted, for it   *)
(* has no rollover on record any more; it never is cancelled there.        *)
LEMMA ShrinkParts ==
    ASSUME now \in 0 .. Horizon, NEW S, Sound(S), NEW keep \in SUBSET QualifiedFor(S),
           NEW p \in Proposals, FlagsFit(S, p)
    PROVE  LET T == Shrink(S, keep)
           IN  /\ T.vault = S.vault /\ FlagsFit(T, p) /\ FlagsKept(S.prop[p], T.prop[p])
               /\ \/ T.prop[p] = S.prop[p]
                  \/ /\ S.prop[p].state = "Qualified"
                     /\ T.prop[p].state = "Submitted" /\ T.prop[p].rolled
  <1> DEFINE cut == QualifiedFor(S) \ keep
             X == Shrink(S, keep)
             r == [x \in Proposals |-> IF x \in cut
                                       THEN RolloverOrRefund(S.prop[x], S.clock.index + 1) ELSE S.prop[x]]
             l == [x \in Resources |-> IF S.locks[x] \in cut THEN Nobody ELSE S.locks[x]]
  <1>1. S \in Storage(Working)
    BY DEF Sound
  <1>2. X = [S EXCEPT !.funded = keep, !.locks = l, !.prop = r]
    BY DEF Shrink
  <1>3. r[p] = IF p \in cut THEN RolloverOrRefund(S.prop[p], S.clock.index + 1) ELSE S.prop[p]
    OBVIOUS
  <1>4. p \in cut => S.prop[p].state = "Qualified"
    BY DEF QualifiedFor
  <1> HIDE DEF X, r, l, cut
  <1>5. X.vault = S.vault /\ X.prop = r
    BY <1>1, <1>2 DEF Storage
  <1>6. CASE p \in cut
    <2> DEFINE q == RolloverOrRefund(S.prop[p], S.clock.index + 1)
    <2>1. S.prop[p].state = "Qualified" /\ ~S.prop[p].rolled
      BY <1>4, <1>6 DEF FlagsFit
    <2>2. S.prop[p] \in Records(Working)
      BY <1>1, RecordParts
    <2>3. /\ q.rerun = S.prop[p].rerun /\ q.delayed = S.prop[p].delayed
          /\ q.state = "Submitted" /\ q.rolled
      BY <2>1, <2>2, RolloverFlags
    <2>4. X.prop[p] = q
      BY <1>3, <1>5, <1>6
    <2> HIDE DEF q
    <2>5. FlagsFit(X, p) /\ FlagsKept(S.prop[p], X.prop[p])
      BY <2>3, <2>4 DEF FlagsFit, FlagsKept, Reran
    <2>6. QED
      BY <1>5, <2>1, <2>3, <2>4, <2>5 DEF X
  <1>7. CASE p \notin cut
    <2>1. X.prop[p] = S.prop[p]
      BY <1>3, <1>5, <1>7
    <2>2. FlagsFit(X, p) /\ FlagsKept(S.prop[p], X.prop[p])
      BY <2>1 DEF FlagsFit, FlagsKept
    <2>3. QED
      BY <1>5, <2>1, <2>2 DEF X
  <1>8. QED
    BY <1>6, <1>7


(* A proposal taken off the slate may still be held, or screened, by the   *)
(* batch of the same call: the call shows a demotion, T20, or nothing.     *)
LEMMA SlateTurn ==
    ASSUME NEW S, S \in Storage(Working), NEW p \in Proposals, VaultFits(S, p), FlagsFit(S, p),
           NEW T, T.vault = S.vault, FlagsKept(S.prop[p], T.prop[p]),
           \/ T.prop[p] = S.prop[p]
           \/ S.prop[p].state = "Qualified" /\ T.prop[p].state = "Submitted" /\ T.prop[p].rolled,
           NEW U, Row(T, U, p)
    PROVE  Turn(S, U, p)
  <1>1. CASE T.prop[p] = S.prop[p]
    <2>1. Row(S, U, p)
      BY <1>1 DEF Row, Stays, DeferredOnce
    <2>2. QED
      BY <2>1, RowTurn
  <1>2. CASE S.prop[p].state = "Qualified" /\ T.prop[p].state = "Submitted" /\ T.prop[p].rolled
    <2>1. S.vault[p] = "Absent" /\ T.vault[p] = "Absent" /\ ~S.prop[p].rolled
      BY <1>2, VaultOf DEF FlagsFit
    <2>2. FlagsKept(S.prop[p], U.prop[p])
      BY <1>2 DEF FlagsKept, Row, ForceRejectable
    <2>3. U.prop[p].state # "Submitted" => ~U.prop[p].rolled
      BY DEF Row
    <2>4. CASE Stays(T, U, p)
      <3>1. Beyond(S, U, p)
        BY <1>2, <2>1, <2>4 DEF Stays, Beyond
      <3>2. QED
        BY <3>1, <2>2, <2>3 DEF Turn
    <2>5. ~DeferredOnce(T, U, p)
      BY <1>2 DEF DeferredOnce
    <2>6. CASE Turned("Submitted", "Absent", U.prop[p].state, U.vault[p])
      <3>1. U.prop[p].state \in Ended \union {"Qualified"} /\ U.vault[p] = "Absent"
        BY <2>6 DEF Turned
      <3>2. CASE U.prop[p].state = "Qualified"
        <4>1. Stays(S, U, p)
          BY <1>2, <2>1, <2>3, <3>1, <3>2 DEF Stays
        <4>2. QED
          BY <4>1, <2>2, <2>3 DEF Turn
      <3>3. CASE U.prop[p].state \in Ended
        <4>1. "Qualified" \in ForceRejectable
          BY DEF ForceRejectable, InProgress
        <4>2. Turned("Qualified", "Absent", U.prop[p].state, "Absent")
          BY <3>3, <4>1 DEF Turned
        <4>3. QED
          BY <4>2, <1>2, <2>1, <2>2, <2>3, <3>1 DEF Turn
      <3>4. QED
        BY <3>1, <3>2, <3>3
    <2>7. QED
      BY <1>2, <2>1, <2>4, <2>5, <2>6 DEF Row
  <1>3. QED
    BY <1>1, <1>2

LEMMA TickTurns ==
    ASSUME EpochInv, NEW p \in Proposals, FlagsFit(st, p),
           NEW B \in SUBSET Proposals, NEW frozen, Tick(B, frozen)
    PROVE  Turn(st, st', p)
  <1> DEFINE S     == Sync(st)
             slate == IF st.clock.phase # Seed /\ S.clock.phase = Seed
                      THEN {Shrink(S, keep) : keep \in SUBSET QualifiedFor(S)} ELSE {S}
             outs  == UNION {Batch(T, o, frozen) : T \in slate, o \in Orders(S, B)}
  <1>1. now \in 0 .. Horizon /\ Sound(st) /\ st \in Storage(Working) /\ VaultFits(st, p)
    BY DEF EpochInv, TypeOK, Sound
  <1>2. Sound(S) /\ S \in Storage(Working) /\ S.vault = st.vault /\ S.prop = st.prop
    BY <1>1, SyncSound, SyncParts DEF Sound
  <1>3. Call(outs)
    BY DEF Tick
  <1> HIDE DEF S
  <1>4. FlagsFit(S, p) /\ FlagsKept(S.prop[p], S.prop[p])
    BY <1>2 DEF FlagsFit, FlagsKept
  <1>5. ASSUME NEW T \in slate
        PROVE  /\ Sound(T) /\ T.vault = S.vault /\ FlagsFit(T, p)
               /\ FlagsKept(S.prop[p], T.prop[p])
               /\ \/ T.prop[p] = S.prop[p]
                  \/ /\ S.prop[p].state = "Qualified"
                     /\ T.prop[p].state = "Submitted" /\ T.prop[p].rolled
    <2>1. CASE T = S
      BY <2>1, <1>2, <1>4
    <2>2. CASE T \in {Shrink(S, keep) : keep \in SUBSET QualifiedFor(S)}
      BY <2>2, <1>1, <1>2, <1>4, ShrinkSound, ShrinkParts
    <2>3. QED
      BY <1>5, <2>1, <2>2
  <1> HIDE DEF slate
  <1>6. ASSUME NEW T \in slate, NEW o \in Orders(S, B), NEW U \in Batch(T, o, frozen)
        PROVE  U \in Storage(Working) /\ Turn(st, U, p)
    <2>1. Sound(U)
      BY <1>1, <1>5, <1>6, TickBatchSound
    <2>2. Row(T, U, p)
      BY <1>1, <1>5, <1>6, BatchRow
    <2>3. VaultFits(S, p)
      BY <1>2 DEF Sound
    <2>4. Turn(S, U, p)
      BY <1>2, <1>4, <1>5, <2>2, <2>3, SlateTurn
    <2>5. Turn(st, U, p)
      BY <1>2, <2>4 DEF Turn, Stays, DeferredOnce, Beyond
    <2>6. QED
      BY <2>1, <2>5 DEF Sound
  <1>7. \A U \in outs : U \in Storage(Working) /\ Turn(st, U, p)
    BY <1>6
  <1> HIDE DEF outs
  <1>8. QED
    BY <1>3, <1>7, CallTurns

(* A call on one proposal, of which the others see nothing.                *)
LEMMA SparedTurn ==
    ASSUME NEW S, NEW T, NEW p, FlagsFit(S, p), Spares(S, T, p)
    PROVE  Turn(S, T, p)
  BY StaysRow, RowTurn DEF Spares, Alike

LEMMA PutTurn ==
    ASSUME EpochInv, NEW q \in Proposals, NEW r, r \in Records(Working), Call({Put(st, q, r)}),
           NEW p \in Proposals, FlagsFit(st, p),
           p = q => Turn(st, Put(st, q, r), q)
    PROVE  Turn(st, st', p)
  <1>1. st \in Storage(Working)
    BY DEF EpochInv, Sound
  <1>2. Put(st, q, r) \in Storage(Working)
    BY <1>1, PutParts
  <1>3. p # q => Turn(st, Put(st, q, r), p)
    BY <1>1, PutSpares, SparedTurn
  <1>4. QED
    BY <1>2, <1>3, CallTurns


LEMMA SubmitTurns ==
    ASSUME EpochInv, NEW q \in Proposals, NEW R \in SUBSET Resources, Submit(q, R),
           NEW p \in Proposals, FlagsFit(st, p)
    PROVE  Turn(st, st', p)
  <1> DEFINE r == [st.prop[q] EXCEPT !.state = "Submitted", !.epoch = st.clock.index, !.resources = R]
  <1>1. st \in Storage(Working) /\ st.prop[q].state = "Absent"
    BY DEF EpochInv, Sound, Submit
  <1>2. st.prop[q] \in Records(Working) /\ st.clock.index \in Epochs
    BY <1>1, RecordParts, StorageParts
  <1>3. "Submitted" \in Working
    BY WorkingStates
  <1>4. /\ r \in Records(Working) /\ r.state = "Submitted" /\ r.rolled = st.prop[q].rolled
        /\ r.rerun = st.prop[q].rerun /\ r.delayed = st.prop[q].delayed
    BY <1>2, <1>3 DEF Records
  <1>5. Call({Put(st, q, r)})
    BY DEF Submit, Put
  <1> HIDE DEF r
  <1>6. Put(st, q, r).prop[q] = r /\ Put(st, q, r).vault = st.vault
    BY <1>1, <1>4, PutParts
  <1>7. ASSUME p = q PROVE Turn(st, Put(st, q, r), q)
    <2>1. ~st.prop[q].rolled
      BY <1>1, <1>7 DEF FlagsFit
    <2>2. Beyond(st, Put(st, q, r), q)
      BY <1>1, <1>4, <1>6, <2>1 DEF Beyond
    <2>3. QED
      BY <1>4, <1>6, <2>2 DEF Turn, FlagsKept, Reran
  <1>8. QED
    BY <1>4, <1>5, <1>7, PutTurn

LEMMA WithdrawTurns ==
    ASSUME EpochInv, NEW q \in Proposals, Withdraw(q), NEW p \in Proposals, FlagsFit(st, p)
    PROVE  Turn(st, st', p)
  <1> DEFINE r == Enters(st.prop[q], "Cancelled")
  <1>1. st \in Storage(Working) /\ st.prop[q].state = "Submitted"
    BY DEF EpochInv, Sound, Withdraw, Candidates
  <1>2. st.prop[q] \in Records(Working) /\ "Cancelled" \in Working
    BY <1>1, RecordParts, WorkingStates DEF Terminal
  <1>3. r \in Records(Working)
    BY <1>2, EntersParts
  <1>4. Call({Put(st, q, r)})
    BY DEF Withdraw, Put
  <1>5. Put(st, q, r).prop[q] = r /\ Put(st, q, r).vault = st.vault
    BY <1>1, <1>3, PutParts
  <1>6. Turned(st.prop[q].state, st.vault[q], "Cancelled", st.vault[q])
    BY <1>1 DEF Turned, Ended, Terminal
  <1>7. Turn(st, Put(st, q, r), q)
    BY <1>1, <1>5, <1>6, EntersRow, RowTurn
  <1> HIDE DEF r
  <1>8. QED
    BY <1>3, <1>4, <1>7, PutTurn

(* The calls that leave a decided proposal in the market.                  *)
LEMMA StaysInMarketRow ==
    ASSUME NEW S, S \in Storage(Working), NEW p \in Proposals, FlagsFit(S, p),
           NEW r, r \in Records(Working), S.prop[p].state # "Submitted",
           r.rolled = S.prop[p].rolled, r.rerun = S.prop[p].rerun, r.delayed = S.prop[p].delayed,
           Turned(S.prop[p].state, S.vault[p], r.state, S.vault[p])
    PROVE  Row(S, Put(S, p, r), p)
  <1>1. Put(S, p, r).prop[p] = r /\ Put(S, p, r).vault = S.vault
    BY PutParts
  <1>2. FlagsKept(S.prop[p], r) /\ ~r.rolled
    BY DEF FlagsKept, Reran, FlagsFit
  <1>3. QED
    BY <1>1, <1>2 DEF Row

LEMMA DecidedTurn ==
    ASSUME now \in Nat, NEW S, Sound(S), NEW q \in Proposals, NEW frozen,
           S.prop[q].state \in {"Trading", "Extended"}, NEW U \in Decisions(S, q, frozen),
           NEW p \in Proposals, FlagsFit(S, p)
    PROVE  U \in Storage(Working) /\ Turn(S, U, p)
  <1>1. S \in Storage(Working) /\ VaultFits(S, q)
    BY DEF Sound
  <1>2. Sound(U)
    BY DecisionsSound
  <1>3. CASE U \in ForceReject(S, q)
    BY <1>1, <1>3, ForceRejectRow, ForceRejectSpares, RowTurn, SparedTurn
  <1>4. CASE U \in RejectToMeasurement(S, q)
    <2>1. BranchOf(S.prop[q].state, "Reject")
      BY DEF BranchOf
    <2>2. p = q => Turn(S, U, p)
      BY <1>1, <1>4, <2>1, RejectToMeasurementRow, RowTurn
    <2>3. p # q => Turn(S, U, p)
      BY <1>1, <1>4, RejectToMeasurementSpares, SparedTurn
    <2>4. QED
      BY <1>2, <2>2, <2>3 DEF Sound
  <1>5. CASE U \in Extend(S, q) \union Adopt(S, q)
    <2> DEFINE x == [S.prop[q] EXCEPT !.state = "Extended", !.due = S.prop[q].due + Extension]
               a == [S.prop[q] EXCEPT !.state = "Queued", !.decision = "Adopt", !.due = now + Timelock]
    <2>1. \/ S.prop[q].state = "Trading" /\ U = Put(S, q, x)
          \/ U = Put(S, q, a)
      BY <1>5 DEF Extend, Adopt, Put
    <2>2. /\ S.prop[q] \in Records(Working) /\ now + Timelock \in Nat
          /\ S.prop[q].due + Extension \in Nat /\ {"Extended", "Queued"} \subseteq Working
      <3>1. S.prop[q] \in Records(Working) /\ S.prop[q].due \in Nat
        BY <1>1, RecordParts
      <3>2. {"Extended", "Queued"} \subseteq Working
        BY DEF Working, States, Stored, ForceRejectable, InProgress, MarketBearing, Adopted
      <3>3. QED
        BY <3>1, <3>2, EpochParameters
    <2>3. /\ x \in Records(Working) /\ x.state = "Extended" /\ x.rolled = S.prop[q].rolled
          /\ x.rerun = S.prop[q].rerun /\ x.delayed = S.prop[q].delayed
          /\ a \in Records(Working) /\ a.state = "Queued" /\ a.rolled = S.prop[q].rolled
          /\ a.rerun = S.prop[q].rerun /\ a.delayed = S.prop[q].delayed
      BY <2>2 DEF Records
    <2> HIDE DEF x, a
    <2>4. p # q => Turn(S, U, p)
      <3>1. \A r \in Records(Working) : p # q => Spares(S, Put(S, q, r), p)
        BY <1>1, PutSpares
      <3>2. QED
        BY <3>1, <2>1, <2>3, SparedTurn
    <2>5. /\ Turned(S.prop[q].state, S.vault[q], a.state, S.vault[q])
          /\ S.prop[q].state = "Trading" => Turned(S.prop[q].state, S.vault[q], x.state, S.vault[q])
      BY <2>3 DEF Turned
    <2>6. p = q => Turn(S, U, p)
      BY <1>1, <2>1, <2>3, <2>5, StaysInMarketRow, RowTurn
    <2>7. QED
      BY <1>2, <2>4, <2>6 DEF Sound
  <1>6. QED
    BY <1>3, <1>4, <1>5 DEF Decisions

LEMMA DecideTurns ==
    ASSUME EpochInv, NEW q \in Proposals, NEW frozen, Decide(q, frozen),
           NEW p \in Proposals, FlagsFit(st, p)
    PROVE  Turn(st, st', p)
  <1> DEFINE S == Sync(st)
  <1>1. now \in 0 .. Horizon /\ now \in Nat /\ Sound(st) /\ st \in Storage(Working)
    BY DEF EpochInv, TypeOK, Sound
  <1>2. Sound(S) /\ S.prop = st.prop /\ S.vault = st.vault
    BY <1>1, SyncSound, SyncParts
  <1>3. Call(Decisions(S, q, frozen)) /\ S.prop[q].state \in {"Trading", "Extended"}
    BY <1>2 DEF Decide
  <1> HIDE DEF S
  <1>4. FlagsFit(S, p)
    BY <1>2 DEF FlagsFit
  <1>5. ASSUME NEW U \in Decisions(S, q, frozen)
        PROVE  U \in Storage(Working) /\ Turn(st, U, p)
    <2>1. U \in Storage(Working) /\ Turn(S, U, p)
      BY <1>1, <1>2, <1>3, <1>4, <1>5, DecidedTurn
    <2>2. QED
      BY <1>2, <2>1 DEF Turn, Stays, DeferredOnce, Beyond
  <1>6. QED
    BY <1>3, <1>5, CallTurns

(* A call that shows nothing of a proposal.                                *)
LEMMA IdleTurn ==
    ASSUME EpochInv, NEW T, T \in Storage(Working), T.prop = st.prop, T.vault = st.vault, Call({T}),
           NEW p \in Proposals, FlagsFit(st, p)
    PROVE  Turn(st, st', p)
  <1>1. Turn(st, T, p)
    BY StaysRow, RowTurn DEF Alike
  <1>2. QED
    BY <1>1, CallTurns

LEMMA DriveTurns ==
    ASSUME EpochInv, DriveOracleBoundaries, NEW p \in Proposals, FlagsFit(st, p)
    PROVE  Turn(st, st', p)
  <1>1. now \in 0 .. Horizon /\ st \in Storage(Working)
    BY DEF EpochInv, TypeOK, Sound
  <1>2. Sync(st) \in Storage(Working) /\ Sync(st).prop = st.prop /\ Sync(st).vault = st.vault
    BY <1>1, SyncParts
  <1>3. QED
    BY <1>2, IdleTurn DEF DriveOracleBoundaries

LEMMA FinalizeTurns ==
    ASSUME EpochInv, NEW e \in Epochs, FinalizeBaseline(e), NEW p \in Proposals, FlagsFit(st, p)
    PROVE  Turn(st, st', p)
  <1> DEFINE b == [st.baseline EXCEPT ![e] = IF st.baseline[e] = "Open" THEN "Neutral" ELSE st.baseline[e]]
             T == [st EXCEPT !.baseline = b]
  <1>1. st \in Storage(Working)
    BY DEF EpochInv, Sound
  <1>2. Call({T})
    BY <1>1 DEF FinalizeBaseline, Storage
  <1>3. b \in [Epochs -> {"Absent", "Open", "Settled", "Neutral"}]
    BY <1>1, StorageParts
  <1> HIDE DEF b
  <1>4. T \in Storage(Working) /\ T.prop = st.prop /\ T.vault = st.vault
    BY <1>1, <1>3 DEF Storage
  <1> HIDE DEF T
  <1>5. QED
    BY <1>2, <1>4, IdleTurn


LEMMA FailedTurns ==
    ASSUME EpochInv, NEW q \in Proposals, MarkFailed(q), NEW p \in Proposals, FlagsFit(st, p)
    PROVE  Turn(st, st', p)
  <1> DEFINE r == [st.prop[q] EXCEPT !.state = "FailedExecuted", !.due = now + RetryWindow]
  <1>1. st.prop[q].state = "Queued" /\ Call({Put(st, q, r)})
    BY DEF MarkFailed, Put
  <1>2. /\ r \in Records(Working) /\ r.state = "FailedExecuted" /\ r.rolled = st.prop[q].rolled
        /\ r.rerun = st.prop[q].rerun /\ r.delayed = st.prop[q].delayed
    BY QueuedParts DEF Records
  <1> HIDE DEF r
  <1>3. Turned(st.prop[q].state, st.vault[q], r.state, st.vault[q])
    BY <1>1, <1>2 DEF Turned
  <1>4. p = q => Turn(st, Put(st, q, r), q)
    BY <1>1, <1>2, <1>3, StaysInMarketRow, RowTurn, QueuedParts
  <1>5. QED
    BY <1>1, <1>2, <1>4, PutTurn

(* The calls that measure or reject.                                       *)
LEMMA MeasuredTurns ==
    ASSUME EpochInv, NEW q \in Proposals,
           VetoUpheld(q) \/ GuardianForceReject(q) \/ MarkExecuted(q) \/ RejectStale(q)
              \/ ExpireFailedExecution(q),
           NEW p \in Proposals, FlagsFit(st, p)
    PROVE  Turn(st, st', p)
  <1>1. Sound(st) /\ st \in Storage(Working) /\ VaultFits(st, q)
    BY DEF EpochInv, Sound
  <1>2. CASE GuardianForceReject(q)
    <2>1. ASSUME NEW U \in ForceReject(st, q) PROVE U \in Storage(Working) /\ Turn(st, U, p)
      BY <1>1, ForceRejectRow, ForceRejectSpares, RowTurn, SparedTurn
    <2>2. QED
      BY <1>2, <2>1, CallTurns DEF GuardianForceReject
  <1>3. CASE VetoUpheld(q) \/ RejectStale(q)
    <2>1. BranchOf(st.prop[q].state, "Reject") /\ Call(RejectToMeasurement(st, q))
      BY <1>3 DEF VetoUpheld, RejectStale, BranchOf
    <2>2. ASSUME NEW U \in RejectToMeasurement(st, q) PROVE U \in Storage(Working) /\ Turn(st, U, p)
      <3>1. st.prop[q].state \in MarketBearing
        BY <1>3, QueuedParts DEF VetoUpheld, RejectStale
      <3>2. Sound(U)
        BY <1>1, <3>1, RejectToMeasurementSound
      <3>3. p = q => Turn(st, U, p)
        BY <1>1, <2>1, RejectToMeasurementRow, RowTurn
      <3>4. p # q => Turn(st, U, p)
        BY <1>1, RejectToMeasurementSpares, SparedTurn
      <3>5. QED
        BY <3>2, <3>3, <3>4 DEF Sound
    <2>3. QED
      BY <2>1, <2>2, CallTurns
  <1>4. CASE MarkExecuted(q) \/ ExpireFailedExecution(q)
    <2>1. BranchOf(st.prop[q].state, "Accept") /\ Call(ToMeasurement(st, q, "Accept"))
      BY <1>4 DEF MarkExecuted, ExpireFailedExecution, Executable, BranchOf
    <2>2. ASSUME NEW U \in ToMeasurement(st, q, "Accept")
          PROVE  U \in Storage(Working) /\ Turn(st, U, p)
      <3>1. p = q => U \in Storage(Working) /\ Row(st, U, q)
        BY <1>1, <2>1, ToMeasurementRow
      <3>2. p # q => U \in Storage(Working) /\ Spares(st, U, p)
        BY <1>1, ToMeasurementSpares
      <3>3. QED
        BY <3>1, <3>2, RowTurn, SparedTurn
    <2>3. QED
      BY <2>1, <2>2, CallTurns
  <1>5. QED
    BY <1>2, <1>3, <1>4

(* A settlement, in parts or whole, is T19 of the members of the cohort.   *)
LEMMA SettleTurns ==
    ASSUME EpochInv, NEW e \in Epochs, NEW batch \in 1 .. N + 1, SettleCohort(e, batch),
           NEW p \in Proposals, FlagsFit(st, p)
    PROVE  Turn(st, st', p)
  <1> DEFINE S     == Sync(st)
             c     == st.cohorts[e]
             m     == Len(c.members)
             end   == IF c.cursor + batch < m + 1 THEN c.cursor + batch ELSE m + 1
             due   == {c.members[i] : i \in ((c.cursor + 1) .. end) \ {m + 1}}
             gone  == Range(c.members)
             done  == [S EXCEPT !.vault = [x \in Proposals |-> IF x \in due THEN "Settled" ELSE @[x]],
                                !.cohorts[e].cursor = end]
             all   == [done EXCEPT !.baseline[e] = "Settled",
                                   !.prop = [x \in Proposals |-> IF x \in gone
                                                                 THEN [@[x] EXCEPT !.state = "Settled"]
                                                                 ELSE @[x]]]
             out   == IF end < m + 1 THEN done ELSE Reap(all, e, gone, "Settled")
  <1>1. /\ Call({out})
        /\ \A x \in due : S.vault[x] \in {"Accept", "Reject"}
    <2>1. Call({out})
      BY DEF SettleCohort
    <2>2. \A x \in due : S.vault[x] \in {"Accept", "Reject"}
      BY Zenon DEF SettleCohort
    <2> HIDE DEF out, due, S
    <2>3. QED
      BY <2>1, <2>2
  <1>2. now \in 0 .. Horizon /\ Sound(st) /\ st \in Storage(Working)
    BY DEF EpochInv, TypeOK, Sound
  <1>3. Sound(S) /\ S.cohorts = st.cohorts /\ S.prop = st.prop /\ S.vault = st.vault
    BY <1>2, SyncSound, SyncParts
  <1>4. c.members \in Seq(Proposals) /\ c.cursor \in Nat /\ c.cursor <= m /\ m \in Nat
    BY <1>2, StorageParts DEF Sound, CohortFits
  <1>5. end \in Nat /\ end <= m + 1 /\ (~(end < m + 1) => end = m + 1)
    <2>1. batch \in Nat
      BY EpochParameters
    <2> HIDE DEF m, c
    <2>2. QED
      BY <1>4, <2>1
  <1>6. due = Due(S, e, end)
    BY <1>3 DEF Due
  <1>7. done = SettledPart(S, e, end)
    BY <1>6 DEF SettledPart, SettledVaults
  <1>8. all = Closed(done, e, "Settled", gone)
    BY DEF Closed, SettledRecords
  <1> HIDE DEF done, all, due, S
  <1>9. gone \subseteq Proposals /\ (p \in gone <=> Member(S, p, e))
    <2>1. gone = Range(S.cohorts[e].members)
      BY <1>3
    <2>2. gone \subseteq Proposals
      BY <1>4 DEF Range
    <2> HIDE DEF gone
    <2>3. QED
      BY <2>1, <2>2 DEF Member
  <1>9a. end <= Len(S.cohorts[e].members) + 1 /\ m = Len(S.cohorts[e].members)
    BY <1>3, <1>5
  <1>9b. c = S.cohorts[e] /\ gone = Range(S.cohorts[e].members)
    BY <1>3
  <1> HIDE DEF gone, end, m, c
  <1>10. /\ done \in Storage(Working) /\ done.prop = st.prop
         /\ done.vault[p] = IF p \in due THEN "Settled" ELSE st.vault[p]
    <2>1. done.vault = SettledVaults(S, due)
      BY <1>3, <1>5, <1>6, <1>7, SettledPartParts
    <2>2. done.vault[p] = IF p \in due THEN "Settled" ELSE S.vault[p]
      BY <2>1 DEF SettledVaults
    <2>3. done \in Storage(Working) /\ done.prop = S.prop
      BY <1>3, <1>5, <1>7, SettledPartParts
    <2>4. QED
      BY <2>2, <2>3, <1>3
  <1>11. p \in due => st.vault[p] \in {"Accept", "Reject"} /\ p \in gone
    <2>1. \A x \in Due(S, e, end) : x \in Proposals /\ Member(S, x, e)
      BY <1>3, <1>5, <1>9a, DueAreMembers
    <2>2. QED
      BY <2>1, <1>1, <1>3, <1>6, <1>9
  <1>12. p \in gone => /\ st.prop[p].state = "Measuring"
                       /\ st.vault[p] \in {"Accept", "Reject", "Settled"}
    <2>1. VaultFits(S, p) /\ (Member(S, p, e) => S.prop[p].state = "Measuring")
      BY <1>3 DEF Sound, MembersFit
    <2>2. QED
      BY <2>1, <1>3, <1>9 DEF VaultFits
  <1>13. st.prop[p].state # "Submitted" => ~st.prop[p].rolled
    BY DEF FlagsFit
  <1>14. Turn(st, done, p)
    <2>1. FlagsKept(st.prop[p], done.prop[p])
      BY <1>10 DEF FlagsKept
    <2>2. CASE p \in due
      <3>1. Beyond(st, done, p)
        BY <1>10, <1>11, <1>12, <2>2 DEF Beyond
      <3>2. QED
        BY <3>1, <2>1, <1>10, <1>13 DEF Turn
    <2>3. CASE p \notin due
      <3>1. Stays(st, done, p)
        BY <1>10, <2>3 DEF Stays
      <3>2. QED
        BY <3>1, <2>1, <1>10, <1>13 DEF Turn
    <2>4. QED
      BY <2>2, <2>3
  <1>15. CASE end < m + 1
    <2>1. out = done
      BY <1>15
    <2>2. QED
      BY <2>1, <1>1, <1>10, <1>14, CallTurns
  <1>16. CASE ~(end < m + 1)
    <2> DEFINE T == Reap(all, e, gone, "Settled")
    <2>1. out = T /\ end = m + 1
      BY <1>5, <1>16
    <2>2. /\ all \in Storage(Working) /\ all.vault = done.vault
          /\ p \in gone => all.prop[p].state = "Settled"
          /\ p \notin gone => all.prop[p] = st.prop[p]
      BY <1>8, <1>9, <1>10, ClosedParts
    <2>3. T \in Storage(Working) /\ T.prop = all.prop /\ T.vault = done.vault
      BY <1>9, <2>2, ReapParts
    <2>4. p \in gone => ~all.prop[p].rolled
      <3>1. all.prop = SettledRecords(done, gone)
        BY <1>8, <1>10 DEF Closed, Storage
      <3>2. p \in gone => all.prop[p] = [st.prop[p] EXCEPT !.state = "Settled"]
        BY <3>1, <1>10 DEF SettledRecords
      <3>3. st.prop[p] \in Records(Working)
        BY <1>2, RecordParts
      <3>4. QED
        BY <3>2, <3>3, <1>12, <1>13 DEF Records
    <2> HIDE DEF T
    <2>5. CASE p \in gone
      <3>1. T.vault[p] = "Settled"
        <4>1. \A j \in DOMAIN S.cohorts[e].members :
                S.cohorts[e].members[j] \in Due(S, e, end) <=> S.cohorts[e].cursor < j /\ j <= end
          BY <1>3, <1>5, <1>9a, DueAreMembers
        <4>2. CohortFits(S, e)
          BY <1>3 DEF Sound
        <4>3. PICK j \in DOMAIN S.cohorts[e].members : S.cohorts[e].members[j] = p
          BY <2>5, <1>9b DEF Range
        <4>4. j \in Nat /\ j <= m /\ S.cohorts[e].cursor \in Nat /\ S.cohorts[e].cursor <= m
          BY <1>4, <1>9a, <1>9b
        <4>5. j <= S.cohorts[e].cursor \/ p \in due
          BY <4>1, <4>3, <4>4, <2>1, <1>4, <1>6
        <4>6. p \notin due => st.vault[p] = "Settled"
          BY <4>2, <4>3, <4>5, <1>3 DEF CohortFits
        <4>7. QED
          BY <4>6, <2>3, <1>10
      <3>2. Beyond(st, T, p)
        BY <3>1, <2>2, <2>3, <2>5, <1>12 DEF Beyond, Ended, Terminal
      <3>3. T.prop[p].state = "Settled" /\ ~T.prop[p].rolled
        BY <2>2, <2>3, <2>4, <2>5
      <3>4. "Settled" \notin ForceRejectable \union {"Absent"}
        BY DEF ForceRejectable, InProgress, MarketBearing, Adopted
      <3>5. QED
        BY <3>2, <3>3, <3>4, <2>1, <2>3, <1>1, CallTurns DEF Turn, FlagsKept
    <2>6. CASE p \notin gone
      <3>1. T.prop[p] = st.prop[p] /\ T.vault[p] = st.vault[p]
        BY <2>2, <2>3, <2>6, <1>10, <1>11
      <3>2. Turn(st, T, p)
        BY <3>1, StaysRow, RowTurn DEF Alike
      <3>3. QED
        BY <3>2, <2>1, <2>3, <1>1, CallTurns
    <2>7. QED
      BY <2>5, <2>6
  <1>17. QED
    BY <1>15, <1>16


(* A void takes what is measured out of the taught life, and rejects what  *)
(* of the epoch is in progress by T20.                                     *)
LEMMA VoidTurns ==
    ASSUME EpochInv, NEW e \in Epochs, VoidCohort(e), NEW p \in Proposals, FlagsFit(st, p)
    PROVE  Turn(st, st', p)
  <1> DEFINE members  == Range(st.cohorts[e].members)
             affected == members \union {x \in Proposals : st.prop[x].epoch = e /\ st.prop[x].state \in InProgress}
             priced   == {x \in affected : HasMarkets(st, x)}
             b        == IF st.baseline[e] = "Open" THEN "Neutral" ELSE st.baseline[e]
             V        == [x \in Proposals |-> IF x \in priced THEN "Voided" ELSE st.vault[x]]
             P        == [x \in Proposals |-> IF x \in affected THEN [st.prop[x] EXCEPT !.state = "Settled"]
                                                               ELSE st.prop[x]]
             T        == [st EXCEPT !.vault = V, !.prop = P, !.baseline[e] = b]
             U        == Reap(T, e, affected, "Voided")
  <1>1. Call({U})
    BY DEF VoidCohort
  <1>2. \A x \in priced : st.vault[x] \in {"Open", "Accept", "Reject"}
    BY Zenon DEF VoidCohort
  <1>3. /\ st \in Storage(Working) /\ st.prop[p] \in Records(Working)
        /\ VaultFits(st, p) /\ MembersFit(st)
    BY RecordParts DEF EpochInv, Sound
  <1>4. members \subseteq Proposals /\ (p \in members <=> Member(st, p, e))
    <2>1. st.cohorts[e].members \in Seq(Proposals)
      BY <1>3, StorageParts
    <2>2. QED
      BY <2>1 DEF Member, Range
  <1> HIDE DEF members
  <1>5. /\ affected \in SUBSET Proposals
        /\ p \in affected => st.prop[p].state \in InProgress \union {"Measuring"}
    BY <1>3, <1>4 DEF MembersFit
  <1> HIDE DEF affected
  <1>6. p \in priced <=> p \in affected /\ st.prop[p].state \in MarketBearing \union {"Measuring"}
    BY DEF HasMarkets
  <1>7. /\ V[p] = IF p \in priced THEN "Voided" ELSE st.vault[p]
        /\ P[p] = IF p \in affected THEN [st.prop[p] EXCEPT !.state = "Settled"] ELSE st.prop[p]
    OBVIOUS
  <1>8. /\ T \in Storage(Working) /\ T.vault = V /\ T.prop = P
    <2>1. b \in {"Absent", "Open", "Settled", "Neutral"}
      BY <1>3, StorageParts
    <2>2. V \in [Proposals -> Vaults]
      BY <1>3, StorageParts DEF Vaults
    <2>3. P \in [Proposals -> Records(Working)]
      <3>1. st.prop \in [Proposals -> Records(Working)] /\ "Settled" \in Working
        BY <1>3, StorageParts DEF Working, Terminal
      <3>2. QED
        BY <3>1 DEF Records
    <2> HIDE DEF b, V, P
    <2>4. QED
      BY <1>3, <2>1, <2>2, <2>3 DEF Storage, Vaults
  <1> HIDE DEF V, P, T, priced
  <1>9. U \in Storage(Working) /\ U.vault = V /\ U.prop = P
    BY <1>5, <1>8, ReapParts
  <1> HIDE DEF U
  <1>10. CASE p \notin affected
    <2>1. U.prop[p] = st.prop[p] /\ U.vault[p] = st.vault[p]
      BY <1>6, <1>7, <1>9, <1>10
    <2>2. Turn(st, U, p)
      BY <2>1, StaysRow, RowTurn DEF Alike
    <2>3. QED
      BY <2>2, <1>1, <1>9, CallTurns
  <1>11. CASE p \in affected
    <2>1. st.prop[p].state # "Submitted" /\ ~st.prop[p].rolled
      BY <1>5, <1>11 DEF FlagsFit, InProgress, MarketBearing, Adopted
    <2>2. U.prop[p].state = "Settled" /\ ~U.prop[p].rolled
      BY <1>3, <1>7, <1>9, <1>11, <2>1 DEF Records
    <2>3. FlagsKept(st.prop[p], U.prop[p]) /\ "Settled" \in Ended
      BY <2>2 DEF FlagsKept, Ended, Terminal, ForceRejectable, InProgress, MarketBearing, Adopted
    <2>4. CASE st.prop[p].state = "Measuring"
      <3>1. st.vault[p] \in {"Accept", "Reject"} /\ U.vault[p] = "Voided"
        BY <1>2, <1>3, <1>6, <1>7, <1>9, <1>11, <2>4 DEF VaultFits
      <3>2. Beyond(st, U, p)
        BY <3>1, <2>2, <2>3, <2>4 DEF Beyond
      <3>3. QED
        BY <3>2, <2>2, <2>3, <1>1, <1>9, CallTurns DEF Turn
    <2>5. CASE st.prop[p].state \in InProgress
      <3>1. /\ st.vault[p] \in {"Absent", "Open"}
            /\ U.vault[p] = IF st.vault[p] = "Open" THEN "Voided" ELSE st.vault[p]
        <4>1. CASE st.prop[p].state \in MarketBearing
          BY <4>1, <1>3, <1>6, <1>7, <1>9, <1>11 DEF VaultFits
        <4>2. CASE st.prop[p].state = "Qualified"
          <5>1. st.prop[p].state \notin MarketBearing \union {"Measuring"} /\ st.vault[p] = "Absent"
            BY <4>2, <1>3, VaultOf DEF MarketBearing, Adopted
          <5>2. QED
            BY <5>1, <1>6, <1>7, <1>9
        <4>3. QED
          BY <2>5, <4>1, <4>2 DEF InProgress
      <3>2. st.prop[p].state \in ForceRejectable
        BY <2>5 DEF ForceRejectable
      <3>3. Turned(st.prop[p].state, st.vault[p], U.prop[p].state, U.vault[p])
        BY <3>1, <3>2, <2>2, <2>3 DEF Turned
      <3>4. QED
        BY <3>3, <2>2, <2>3, <1>1, <1>9, CallTurns DEF Turn
    <2>6. QED
      BY <1>5, <1>11, <2>4, <2>5
  <1>12. QED
    BY <1>10, <1>11

(* Every call but the guardian's two.                                      *)
LEMMA EpochCallsTurn ==
    ASSUME EpochInv, EpochCalls, NEW p \in Proposals, FlagsFit(st, p)
    PROVE  Turn(st, st', p)
  <1>1. CASE Advance
    <2>1. st' = st
      BY <1>1 DEF Advance
    <2>2. Row(st, st', p)
      BY <2>1, StaysRow DEF Alike
    <2>3. QED
      BY <2>2, RowTurn
  <1>2. CASE \E B \in SUBSET Proposals, frozen \in BOOLEAN : Tick(B, frozen)
    BY <1>2, TickTurns
  <1>3. CASE \E q \in Proposals, R \in SUBSET Resources : Submit(q, R)
    BY <1>3, SubmitTurns
  <1>4. CASE \E q \in Proposals : Withdraw(q)
    BY <1>4, WithdrawTurns
  <1>5. CASE \E q \in Proposals, frozen \in BOOLEAN : Decide(q, frozen)
    BY <1>5, DecideTurns
  <1>6. CASE DriveOracleBoundaries
    BY <1>6, DriveTurns
  <1>7. CASE \E q \in Proposals : MarkFailed(q)
    BY <1>7, FailedTurns
  <1>8. CASE \E q \in Proposals : VetoUpheld(q) \/ GuardianForceReject(q) \/ MarkExecuted(q)
                                    \/ RejectStale(q) \/ ExpireFailedExecution(q)
    BY <1>8, MeasuredTurns
  <1>9. CASE \E e \in Epochs, batch \in 1 .. N + 1 : SettleCohort(e, batch)
    BY <1>9, SettleTurns
  <1>10. CASE \E e \in Epochs : VoidCohort(e)
    BY <1>10, VoidTurns
  <1>11. CASE \E e \in Epochs : FinalizeBaseline(e)
    BY <1>11, FinalizeTurns
  <1>12. QED
    BY <1>1, <1>2, <1>3, <1>4, <1>5, <1>6, <1>7, <1>8, <1>9, <1>10, <1>11 DEF EpochCalls


(* The two powers of the guardian: T11 and T25.                            *)
HeldOnce(S, T, p) ==
    LET r == S.prop[p]   q == T.prop[p]
    IN  /\ T.vault[p] = S.vault[p] /\ ~q.rolled /\ Reran(q)
        /\ \/ r.state = "Queued" /\ q.state = "Suspended" /\ q.delayed
           \/ r.state \in {"Trading", "Extended", "Queued"} /\ q.state = "Extended"

LEMMA HeldRecord ==
    ASSUME EpochInv, NEW q \in Proposals, NEW r, r \in Records(Working), Call({Put(st, q, r)}),
           r.state \in {"Suspended", "Extended"}, ~r.rolled, Reran(r),
           \/ st.prop[q].state = "Queued" /\ r.state = "Suspended" /\ r.delayed
           \/ st.prop[q].state \in {"Trading", "Extended", "Queued"} /\ r.state = "Extended"
    PROVE  HeldOnce(st, st', q)
  <1>1. st \in Storage(Working)
    BY DEF EpochInv, Sound
  <1>2. /\ Put(st, q, r) \in Storage(Working)
        /\ Put(st, q, r).prop[q] = r /\ Put(st, q, r).vault = st.vault
    BY <1>1, PutParts
  <1>3. st' \in Persist(Put(st, q, r))
    BY DEF Call
  <1>4. st'.prop[q] = StoredRecord(r) /\ st'.vault[q] = st.vault[q]
    BY <1>2, <1>3, PersistRecord
  <1>5. st'.prop[q] = r
    <2>1. r.state \notin Terminal \union {"Measuring"}
      BY DEF Terminal
    <2>2. QED
      BY <2>1, <1>4, StoredFlags
  <1>6. QED
    BY <1>4, <1>5 DEF HeldOnce

LEMMA HoldTurns ==
    ASSUME EpochInv, NEW q \in Proposals, GuardianHold(q), FlagsFit(st, q)
    PROVE  /\ HeldOnce(st, st', q)
           /\ \A p \in Proposals \ {q} : FlagsFit(st, p) => Turn(st, st', p)
  <1> DEFINE d == [st.prop[q] EXCEPT !.state = "Suspended", !.delayed = TRUE, !.due = st.clock.index + 1]
             f == [st.prop[q] EXCEPT !.state = "Extended", !.rerun = TRUE,
                                     !.decision = "None", !.due = now + Extension]
  <1>1. \/ st.prop[q].state = "Queued" /\ Call({Put(st, q, d)})
        \/ st.prop[q].state \in {"Trading", "Extended", "Queued"} /\ Call({Put(st, q, f)})
    BY DEF GuardianHold, DelayOnce, ForceRerun, MayRerun, Put
  <1>2. /\ d \in Records(Working) /\ d.state = "Suspended" /\ d.rolled = st.prop[q].rolled /\ d.delayed
        /\ f \in Records(Working) /\ f.state = "Extended" /\ f.rolled = st.prop[q].rolled /\ f.rerun
    BY QueuedParts DEF Records
  <1>3. ~st.prop[q].rolled
    BY <1>1 DEF FlagsFit
  <1> HIDE DEF d, f
  <1>4. HeldOnce(st, st', q)
    BY <1>1, <1>2, <1>3, HeldRecord DEF Reran
  <1>5. ASSUME NEW p \in Proposals \ {q}, FlagsFit(st, p)
        PROVE  Turn(st, st', p)
    BY <1>1, <1>2, <1>5, PutTurn
  <1>6. QED
    BY <1>4, <1>5

----------------------------------------------------------------------------
(* From what a call shows of the storage to the rows of the taught life.   *)

LEMMA TurnedTaught ==
    ASSUME NEW p \in Proposals, UNCHANGED Life(p)!Allowances, st'.prop[p].state \in States,
           Turned(st.prop[p].state, st.vault[p], st'.prop[p].state, st'.vault[p])
    PROVE  Life(p)!Next
  <1> DEFINE s == st.prop[p].state    v == st.vault[p]
             t == st'.prop[p].state   w == st'.vault[p]
  <1>1. t \in Ended => t = "Gone"
    BY StatesInHand
  <1>2. CASE s = "Submitted" /\ t \in Ended \union {"Qualified"} /\ w = v
    <2>1. Life(p)!Cancel \/ Life(p)!Qualify
      BY <1>1, <1>2 DEF Life!Cancel, Life!Qualify, Life!Rest, Life!Allowances
    <2>2. QED
      BY <2>1 DEF Life!Next
  <1>3. CASE s = "Qualified" /\ v = "Absent" /\ t = "Trading" /\ w = "Open"
    <2>1. Life(p)!OpenMarkets
      BY <1>3 DEF Life!OpenMarkets, Life!Allowances
    <2>2. QED
      BY <2>1 DEF Life!Next
  <1>4. CASE s = "Trading" /\ t = "Extended" /\ w = v
    <2>1. Life(p)!Extend
      BY <1>4 DEF Life!Extend, Life!Rest, Life!Allowances
    <2>2. QED
      BY <2>1 DEF Life!Next
  <1>5. CASE s \in {"Trading", "Extended"} /\ t = "Queued" /\ w = v
    <2>1. Life(p)!Adopt
      BY <1>5 DEF Life!Adopt, Life!Deciding, Life!Rest, Life!Allowances
    <2>2. QED
      BY <2>1 DEF Life!Next
  <1>6. CASE s = "Queued" /\ t = "FailedExecuted" /\ w = v
    <2>1. Life(p)!Fail
      BY <1>6 DEF Life!Fail, Life!Rest, Life!Allowances
    <2>2. QED
      BY <2>1 DEF Life!Next
  <1>7. CASE s = "Suspended" /\ t = "Rerun" /\ w = v
    <2>1. Life(p)!ScheduleRerun
      BY <1>7 DEF Life!ScheduleRerun, Life!Rest, Life!Allowances
    <2>2. QED
      BY <2>1 DEF Life!Next
  <1>8. CASE s = "Rerun" /\ t = "Extended" /\ w = v
    <2>1. Life(p)!OpenRerun
      BY <1>8 DEF Life!OpenRerun, Life!Rest, Life!Allowances
    <2>2. QED
      BY <2>1 DEF Life!Next
  <1>9. CASE /\ s \in {"Trading", "Extended", "Queued", "Suspended"} /\ v = "Open"
             /\ t = "Measuring" /\ w = "Reject"
    <2>1. Life(p)!Reject
      BY <1>9 DEF Life!Reject, Life!Deciding, Life!Allowances
    <2>2. QED
      BY <2>1 DEF Life!Next
  <1>10. CASE s \in {"Queued", "FailedExecuted"} /\ v = "Open" /\ t = "Measuring" /\ w = "Accept"
    <2>1. Life(p)!Execute
      BY <1>10 DEF Life!Execute, Life!Allowances
    <2>2. QED
      BY <2>1 DEF Life!Next
  <1>11. CASE /\ s \in ForceRejectable /\ v \in {"Absent", "Open"}
              /\ t \in Ended /\ w = IF v = "Open" THEN "Voided" ELSE v
    <2>1. s \in Life(p)!Running \union {"Submitted", "Qualified"}
      BY <1>11 DEF Life!Running, Life!Deciding, Life!Decided,
                   ForceRejectable, InProgress, MarketBearing, Adopted
    <2>2. Life(p)!ForceReject
      BY <1>1, <1>11, <2>1 DEF Life!ForceReject, Life!Allowances
    <2>3. QED
      BY <2>2 DEF Life!Next
  <1>12. QED
    BY <1>2, <1>3, <1>4, <1>5, <1>6, <1>7, <1>8, <1>9, <1>10, <1>11 DEF Turned


(* LedgersAgree, of one proposal, of given ledgers.                        *)
Ledgers(r, reran, once) ==
    /\ r.state \in ForceRejectable => (reran <=> Reran(r))
    /\ r.state = "Submitted" => (once <=> r.rolled)
    /\ r.state = "Absent" => ~reran /\ ~once

LEMMA LedgersParts ==
    ASSUME \A p \in Proposals : FlagsFit(st, p)
    PROVE  LedgersAgree <=> \A p \in Proposals : Ledgers(st.prop[p], p \in rerunUsed, p \in deferred)
  BY DEF LedgersAgree, Ledgers, FlagsFit, Reran

(* The history of the deferrals, as a step keeps it.                       *)
Defers(p) == p \in deferred' <=> p \in deferred \/ (~st.prop[p].rolled /\ st'.prop[p].rolled)

Lives(p) ==
    \/ Life(p)!Next \/ UNCHANGED Life(p)!vars
    \/ Demoted(p) \/ DemotedAgain(p) \/ MeasurementVoided(p)

(* A call that leaves the guardian's ledger alone.                         *)
LEMMA TurnTaught ==
    ASSUME NEW p \in Proposals, FlagsFit(st, p), Turn(st, st', p), st'.prop[p].state \in States,
           Ledgers(st.prop[p], p \in rerunUsed, p \in deferred),
           p \in rerunUsed' <=> p \in rerunUsed, Defers(p)
    PROVE  Lives(p) /\ Ledgers(st'.prop[p], p \in rerunUsed', p \in deferred')
  <1> DEFINE s == st.prop[p].state    t == st'.prop[p].state
  <1>1. "Submitted" \notin Ended /\ "Absent" \notin Ended
    BY DEF Ended, Terminal
  <1>2. (t = "Gone" \/ t \notin Ended) /\ "Gone" \notin ForceRejectable \union {"Submitted", "Absent"}
    BY StatesInHand DEF ForceRejectable, InProgress, MarketBearing, Adopted
  <1>3. /\ FlagsKept(st.prop[p], st'.prop[p])
        /\ t # "Submitted" => ~st'.prop[p].rolled
        /\ s # "Submitted" => ~st.prop[p].rolled
    BY DEF Turn, FlagsFit
  <1>4. CASE Stays(st, st', p)
    <2>1. (p \in deferred' <=> p \in deferred) /\ t = s /\ (st'.prop[p].rolled <=> st.prop[p].rolled)
      BY <1>4 DEF Stays, Defers
    <2>2. UNCHANGED Life(p)!vars
      BY <1>4, <2>1 DEF Stays, Life!vars
    <2>3. Ledgers(st'.prop[p], p \in rerunUsed', p \in deferred')
      BY <2>1, <1>3 DEF Ledgers, FlagsKept
    <2>4. QED
      BY <2>2, <2>3 DEF Lives
  <1>5. CASE DeferredOnce(st, st', p)
    <2>1. p \notin deferred /\ p \in deferred' /\ s = "Submitted" /\ t = "Submitted"
      BY <1>5 DEF DeferredOnce, Defers, Ledgers
    <2>2. Life(p)!Defer
      BY <1>5, <2>1 DEF DeferredOnce, Life!Defer
    <2>3. Life(p)!Next
      BY <2>2 DEF Life!Next
    <2>4. Ledgers(st'.prop[p], p \in rerunUsed', p \in deferred')
      BY <1>3, <1>5, <2>1 DEF Ledgers, FlagsKept, ForceRejectable, DeferredOnce
    <2>5. QED
      BY <2>3, <2>4 DEF Lives
  <1>6. CASE Turned(s, st.vault[p], t, st'.vault[p])
    <2>1. t \notin {"Submitted", "Absent"} /\ s \in ForceRejectable
      BY <1>1, <1>6 DEF Turned, ForceRejectable, InProgress, MarketBearing, Adopted
    <2>2. p \in deferred' <=> p \in deferred
      BY <1>3, <2>1 DEF Defers
    <2>3. UNCHANGED Life(p)!Allowances
      BY <2>2 DEF Life!Allowances
    <2>4. Life(p)!Next
      BY <1>6, <2>3, TurnedTaught
    <2>5. Ledgers(st'.prop[p], p \in rerunUsed', p \in deferred')
      BY <1>3, <2>1, <2>2 DEF Ledgers, FlagsKept
    <2>6. QED
      BY <2>4, <2>5 DEF Lives
  <1>7. CASE Beyond(st, st', p)
    <2>1. CASE s = "Absent" /\ t = "Submitted" /\ ~st'.prop[p].rolled /\ st'.vault[p] = st.vault[p]
      <3>1. p \notin deferred /\ p \notin deferred' /\ p \notin rerunUsed /\ ~Reran(st.prop[p])
        BY <2>1 DEF Defers, Ledgers, FlagsFit
      <3>2. Life(p)!Submit
        BY <2>1, <3>1 DEF Life!Submit, Life!Rest
      <3>3. Life(p)!Next
        BY <3>2 DEF Life!Next
      <3>4. Ledgers(st'.prop[p], p \in rerunUsed', p \in deferred')
        BY <1>3, <2>1, <3>1 DEF Ledgers, FlagsKept, ForceRejectable
      <3>5. QED
        BY <3>3, <3>4 DEF Lives
    <2>2. CASE s = "Qualified" /\ t = "Submitted" /\ st'.prop[p].rolled /\ st'.vault[p] = st.vault[p]
      <3>1. p \in deferred' /\ s \in ForceRejectable
        BY <1>3, <2>2 DEF Defers, ForceRejectable, InProgress
      <3>2. Demoted(p) \/ DemotedAgain(p)
        BY <2>2, <3>1 DEF Demoted, DemotedAgain
      <3>3. Ledgers(st'.prop[p], p \in rerunUsed', p \in deferred')
        BY <1>3, <2>2, <3>1 DEF Ledgers, FlagsKept, ForceRejectable
      <3>4. QED
        BY <3>2, <3>3 DEF Lives
    <2>3. CASE s = "Measuring" /\ t \in Ended \union {"Measuring"}
      <3>1. t \in {"Gone", "Measuring"} /\ t \notin ForceRejectable \union {"Submitted", "Absent"}
        <4>1. "Measuring" \notin ForceRejectable \union {"Submitted", "Absent"}
          BY DEF ForceRejectable, InProgress, MarketBearing, Adopted
        <4>2. QED
          BY <1>2, <2>3, <4>1
      <3>2. p \in deferred' <=> p \in deferred
        BY <1>3, <3>1 DEF Defers
      <3>3. UNCHANGED Life(p)!Allowances
        BY <3>2 DEF Life!Allowances
      <3>4. ASSUME st.vault[p] \in {"Accept", "Reject", "Settled"}, st'.vault[p] = "Settled"
            PROVE  Life(p)!Next
        <4>1. Life(p)!Settle
          BY <2>3, <3>1, <3>3, <3>4 DEF Life!Settle
        <4>2. QED
          BY <4>1 DEF Life!Next
      <3>5. ASSUME st.vault[p] \in {"Accept", "Reject"}, st'.vault[p] = "Voided", t \in Ended
            PROVE  MeasurementVoided(p)
        BY <1>2, <2>3, <3>3, <3>5 DEF MeasurementVoided
      <3>6. Life(p)!Next \/ MeasurementVoided(p)
        BY <1>7, <2>3, <3>4, <3>5 DEF Beyond
      <3>7. Ledgers(st'.prop[p], p \in rerunUsed', p \in deferred')
        BY <3>1 DEF Ledgers
      <3>8. QED
        BY <3>6, <3>7 DEF Lives
    <2>4. QED
      BY <1>7, <2>1, <2>2, <2>3 DEF Beyond
  <1>8. QED
    BY <1>4, <1>5, <1>6, <1>7 DEF Turn

(* The guardian's call itself: it is admitted once, so T11 and T25 exclude *)
(* each other for good.                                                    *)
LEMMA HoldTaught ==
    ASSUME NEW q \in Proposals, FlagsFit(st, q), HeldOnce(st, st', q),
           GuardianAdmits(q), rerunUsed' = rerunUsed \union {q}, Defers(q)
    PROVE  /\ Lives(q) /\ FlagsFit(st', q)
           /\ Ledgers(st'.prop[q], q \in rerunUsed', q \in deferred')
  <1> DEFINE s == st.prop[q].state    t == st'.prop[q].state
  <1>1. q \notin rerunUsed /\ q \in rerunUsed'
    BY DEF GuardianAdmits
  <1>2. (q \in deferred' <=> q \in deferred) /\ st'.vault[q] = st.vault[q]
    BY DEF Defers, HeldOnce
  <1>3. CASE s = "Queued" /\ t = "Suspended"
    <2>1. Life(q)!DelayOnce
      BY <1>1, <1>2, <1>3 DEF Life!DelayOnce
    <2>2. QED
      BY <2>1, <1>1, <1>3 DEF Life!Next, Lives, FlagsFit, Ledgers, HeldOnce
  <1>4. CASE s \in {"Trading", "Extended", "Queued"} /\ t = "Extended"
    <2>1. Life(q)!ForceRerun
      BY <1>1, <1>2, <1>4 DEF Life!ForceRerun, Life!Deciding
    <2>2. QED
      BY <2>1, <1>1, <1>4 DEF Life!Next, Lives, FlagsFit, Ledgers, HeldOnce
  <1>5. QED
    BY <1>3, <1>4 DEF HeldOnce

(* The inductive invariant of the lives.                                   *)
LivesInv == EpochInv /\ LedgersAgree /\ \A p \in Proposals : FlagsFit(st, p)

LEMMA LivesInit ==
    ASSUME GuardedInit
    PROVE  LivesInv
  <1>1. EpochInv
    BY InitKeeps DEF GuardedInit
  <1>2. \A p \in Proposals : st.prop[p] = Blank
    BY DEF GuardedInit, Init
  <1>3. \A p \in Proposals : FlagsFit(st, p)
    BY <1>2 DEF FlagsFit, Blank, Reran
  <1>4. LedgersAgree
    BY <1>2 DEF LedgersAgree, Blank, GuardedInit, ForceRejectable, InProgress, MarketBearing, Adopted
  <1>5. QED
    BY <1>1, <1>3, <1>4 DEF LivesInv

LEMMA LivesStep ==
    ASSUME LivesInv, [GuardedNext]_lives
    PROVE  LivesInv' /\ \A p \in Proposals : Lives(p)
  <1>1. /\ EpochInv /\ \A p \in Proposals : FlagsFit(st, p)
        /\ \A p \in Proposals : Ledgers(st.prop[p], p \in rerunUsed, p \in deferred)
    BY LedgersParts DEF LivesInv
  <1>2. [Next]_vars
    BY DEF GuardedNext, Next, lives
  <1>3. EpochInv'
    BY <1>1, <1>2, NextKeeps
  <1>4. \A p \in Proposals : st'.prop[p].state \in States
    <2>1. st' \in Storage(States)
      BY <1>3 DEF EpochInv, TypeOK
    <2>2. QED
      BY <2>1, RecordParts
  <1>5. ASSUME NEW p \in Proposals
        PROVE  /\ Lives(p) /\ FlagsFit(st', p)
               /\ Ledgers(st'.prop[p], p \in rerunUsed', p \in deferred')
    <2>1. FlagsFit(st, p) /\ Ledgers(st.prop[p], p \in rerunUsed, p \in deferred)
      BY <1>1
    <2>2. ASSUME Turn(st, st', p), p \in rerunUsed' <=> p \in rerunUsed, Defers(p)
          PROVE  /\ Lives(p) /\ FlagsFit(st', p)
                 /\ Ledgers(st'.prop[p], p \in rerunUsed', p \in deferred')
      BY <1>4, <2>1, <2>2, TurnTaught, TurnFits
    <2>3. CASE UNCHANGED lives
      <3>1. Turn(st, st', p)
        BY <2>1, <2>3, StaysRow, RowTurn DEF lives, vars, Alike
      <3>2. Defers(p) /\ rerunUsed' = rerunUsed
        BY <2>3 DEF lives, vars, Defers
      <3>3. QED
        BY <2>2, <3>1, <3>2
    <2>4. CASE EpochCalls /\ GuardedNext /\ UNCHANGED rerunUsed
      <3>1. Turn(st, st', p)
        BY <1>1, <2>1, <2>4, EpochCallsTurn
      <3>2. Defers(p)
        BY <2>4 DEF GuardedNext, Defers
      <3>3. QED
        BY <2>2, <2>4, <3>1, <3>2
    <2>5. ASSUME NEW q \in Proposals, GuardianAdmits(q), GuardianHold(q),
                 rerunUsed' = rerunUsed \union {q}, GuardedNext
          PROVE  /\ Lives(p) /\ FlagsFit(st', p)
                 /\ Ledgers(st'.prop[p], p \in rerunUsed', p \in deferred')
      <3>1. Defers(p)
        BY <2>5 DEF GuardedNext, Defers
      <3>2. CASE p = q
        <4>1. HeldOnce(st, st', q)
          BY <1>1, <2>5, HoldTurns
        <4>2. QED
          BY <4>1, <2>1, <2>5, <3>1, <3>2, HoldTaught
      <3>3. CASE p # q
        <4>1. Turn(st, st', p)
          BY <1>1, <2>1, <2>5, <3>3, HoldTurns
        <4>2. p \in rerunUsed' <=> p \in rerunUsed
          BY <2>5, <3>3
        <4>3. QED
          BY <4>1, <4>2, <1>4, <2>1, <3>1, TurnTaught, TurnFits
      <3>4. QED
        BY <3>2, <3>3
    <2>6. QED
      BY <2>3, <2>4, <2>5 DEF GuardedNext
  <1>6. LedgersAgree'
    <2>1. \A p \in Proposals : FlagsFit(st', p)
      BY <1>5
    <2>2. QED
      BY <1>5, <2>1 DEF LedgersAgree, Ledgers, FlagsFit, Reran
  <1>7. QED
    BY <1>3, <1>5, <1>6 DEF LivesInv

THEOREM LivesInvariant == GuardedSpec => []LivesInv
  <1>1. GuardedInit => LivesInv
    BY LivesInit
  <1>2. LivesInv /\ [GuardedNext]_lives => LivesInv'
    BY LivesStep
  <1>3. QED
    BY <1>1, <1>2, PTL DEF GuardedSpec

(* Under the guardian that spends a rerun once, its ledger and the flags   *)
(* of the engine agree on every proposal that may still be rejected, and   *)
(* the rollover counter is that of a proposal deferred once, wherever it   *)
(* is asked for (RerunUsed of the guardian; rerun_flag, delay_used and     *)
(* rollovers of the engine).                                               *)
THEOREM LedgersAlwaysAgree == GuardedSpec => []LedgersAgree
  <1>1. LivesInv => LedgersAgree
    BY DEF LivesInv
  <1>2. QED
    BY <1>1, LivesInvariant, PTL

(* For any number of proposals, resources and epochs: every call takes     *)
(* every proposal one row of the taught table T1 to T26 further, or leaves *)
(* its life as it was, but for a demotion by the budget, once or again,    *)
(* and the void of a measurement (TRANSITIONS of the explainer, against    *)
(* Engine::tick and the calls of the epoch pallet).                        *)
THEOREM EpochFollowsTaught == GuardedSpec => FollowsTaught
  <1> DEFINE A == \A p \in Proposals :
                    \/ Life(p)!Next
                    \/ UNCHANGED Life(p)!vars
                    \/ Demoted(p)
                    \/ DemotedAgain(p)
                    \/ MeasurementVoided(p)
  <1>1. LivesInv /\ [GuardedNext]_lives => A
    BY LivesStep DEF Lives
  <1>2. LivesInv /\ [GuardedNext]_lives => [A]_lives
    BY <1>1
  <1>3. FollowsTaught <=> [][A]_lives
    BY DEF FollowsTaught
  <1> HIDE DEF A
  <1>4. GuardedSpec => [][A]_lives
    BY <1>2, LivesInvariant, PTL DEF GuardedSpec
  <1>5. QED
    BY <1>3, <1>4

============================================================================
