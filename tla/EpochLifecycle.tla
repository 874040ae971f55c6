--------------------------- MODULE EpochLifecycle ---------------------------
(***************************************************************************)
(* The epoch engine and its pallet: the phase clock, the proposals from    *)
(* submission to archive, the cohorts that measure them, and the calls the *)
(* engine makes on the ledger (the proposal vaults) and on welfare (the    *)
(* Baseline of an epoch).                                                  *)
(*                                                                         *)
(* The chain has no hook that moves the clock.  `now` is the block number  *)
(* and st.clock what the last synchronizing call stored of it; every call  *)
(* that does not synchronize works on the stored phase.                    *)
(*                                                                         *)
(* st is the pallet's storage.  A call loads it, runs the engine on it and *)
(* persists it, or fails and leaves it untouched; so an operation is an    *)
(* operator that returns the SET of states it may leave, empty when it     *)
(* fails.  Data that only chooses between outcomes (prices, grades, static *)
(* checks, budgets) is that choice, and so is whether PB-LEDGER-FREEZE is  *)
(* in effect when a call asks (frozen): it may come and go between calls.  *)
(*                                                                         *)
(* Proposals are numbered by their rank: bond descending, then id.  All    *)
(* epochs have one length and the dead-man switch is not armed.            *)
(***************************************************************************)
EXTENDS Integers, Sequences, FiniteSets, SequencesExt

CONSTANTS
    N,              \* number of proposals
    Resources,      \* what proposals lock
    Length,         \* epoch.length
    Start,          \* phase_offsets: the first block of each phase in its epoch
                    \* (a phase of no length is passed over)
    K,              \* horizon_k
    Slots,          \* epoch_slots
    MaxCohorts,     \* MAX_NON_TERMINAL_COHORTS
    MaxMembers,     \* MAX_ACTIVE_PER_EPOCH
    Timelock,       \* the timelock of the class
    Grace,          \* the grace of the class
    Extension,      \* DECISION_EXTENSION
    RetryWindow,    \* RETRY_WINDOW
    StaleBound,     \* STALE_EPOCH_BOUND
    Intakes,        \* bound: the number of epochs proposals are submitted in
    Horizon         \* bound on the block number

Proposals == 1 .. N
Nobody    == 0
Epochs    == 0 .. (Horizon \div Length) + 1

Intake == 0  Qualify == 1  Seed == 2  Trade == 3  DecidePhase == 4  Housekeeping == 5
Phases == Intake .. Housekeeping

ASSUME EpochParameters ==
    /\ N \in Nat /\ Length \in Nat \ {0} /\ Intakes \in Nat /\ Horizon \in Nat
    /\ Start \in [Phases -> 0 .. Length - 1]
    /\ Start[Intake] = 0
    /\ \A f, g \in Phases : f < g => Start[f] <= Start[g]
    /\ K \in Nat \ {0} /\ Slots \in Nat /\ MaxCohorts \in Nat /\ MaxMembers \in Nat \ {0}
    /\ Timelock \in Nat /\ Grace \in Nat /\ Extension \in Nat
    /\ RetryWindow \in Nat /\ StaleBound \in Nat

VARIABLES
    now,        \* the block number
    st          \* the storage

vars == <<now, st>>

-----------------------------------------------------------------------------
(* Proposals, cohorts, clock.                                              *)

Undecided     == {"Qualified", "Trading", "Extended"}
Adopted       == {"Queued", "Suspended", "FailedExecuted"}
MarketBearing == {"Trading", "Extended", "Rerun"} \union Adopted
InProgress    == MarketBearing \union {"Qualified"}

(* is_force_rejectable_state *)
ForceRejectable == InProgress \union {"Submitted"}

(* is_terminal_state: such a record is not stored back.                    *)
Terminal  == {"Cancelled", "Rejected", "Settled"}
Stored    == ForceRejectable \union {"Measuring"}
States    == Stored \union {"Absent", "Gone"}

(* Each state waits for one time at most, its `due`: decide_at while the   *)
(* books trade, the maturity in the queue, the end of the retry window     *)
(* after a failure, the epoch that closes the review while suspended.  The *)
(* flag `extended` is TRUE exactly in the state Extended when it is read.  *)
Blank == [state |-> "Absent", epoch |-> 0, resources |-> {}, rolled |-> FALSE,
          rerun |-> FALSE, delayed |-> FALSE, due |-> 0, decision |-> "None"]

NoCohort == [members |-> <<>>, cursor |-> 0]

(* phase_at: the last phase of the epoch that has begun.                   *)
PhaseAt(d) == Cardinality({f \in Phases : Start[f] <= d}) - 1
ClockAt(t) == [index |-> t \div Length, phase |-> PhaseAt(t % Length)]

NextBoundary(c) == c.index * Length + (IF c.phase = Housekeeping THEN Length ELSE Start[c.phase + 1])

(* A record, and the storage, when the states of proposals are among given *)
(* ones: a call also has terminal records in hand, until it stores.        *)
Records(states) ==
    [state : states, epoch : Epochs, resources : SUBSET Resources, rolled : BOOLEAN,
     rerun : BOOLEAN, delayed : BOOLEAN, due : Nat, decision : {"None", "Adopt", "Reject"}]

Storage(states) ==
    [clock     : [index : Epochs, phase : Phases],
     prop      : [Proposals -> Records(states)],
     vault     : [Proposals -> {"Absent", "Open", "Accept", "Reject", "Voided", "Settled"}],
     locks     : [Resources -> Proposals \union {Nobody}],
     cohorts   : [Epochs -> [members : Seq(Proposals), cursor : Nat]],
     schedules : [Epochs -> Seq(Proposals)],
     recent    : [Epochs -> {"None", "Settled", "Voided"}],
     baseline  : [Epochs -> {"Absent", "Open", "Settled", "Neutral"}],
     funded    : SUBSET Proposals,
     stale     : SUBSET Proposals]

TypeOK ==
    /\ now \in 0 .. Horizon
    /\ st \in Storage(States)
    /\ \A e \in Epochs : st.cohorts[e].cursor <= Len(st.cohorts[e].members)

Init ==
    /\ now = 0
    /\ st = [clock     |-> ClockAt(0),
             prop      |-> [p \in Proposals |-> Blank],
             vault     |-> [p \in Proposals |-> "Absent"],
             locks     |-> [r \in Resources |-> Nobody],
             cohorts   |-> [e \in Epochs |-> NoCohort],
             schedules |-> [e \in Epochs |-> <<>>],
             recent    |-> [e \in Epochs |-> "None"],
             baseline  |-> [e \in Epochs |-> "Absent"],
             funded    |-> {},
             stale     |-> {}]

-----------------------------------------------------------------------------
(* What the engine is built from.                                          *)

HasMarkets(S, p) == S.prop[p].state \in MarketBearing \union {"Measuring"}
Voided(S, e)     == S.recent[e] = "Voided"
Live(S)          == {e \in Epochs : S.cohorts[e] # NoCohort}

(* A faulty Enters, for mutation: the rollover counter is kept.            *)
EntersCounted(r, s) == [r EXCEPT !.state = s]

(* A new state that leaves the rollover counters (rollovers.retain).       *)
Enters(r, s) == [r EXCEPT !.state = s, !.rolled = FALSE]

Release(S, p) == [S EXCEPT !.locks = [r \in Resources |-> IF @[r] = p THEN Nobody ELSE @[r]]]

(* maybe_clear_stale_epoch *)
MaybeClearStale(S) ==
    IF \E p \in S.stale : S.prop[p].state \in ForceRejectable THEN S ELSE [S EXCEPT !.stale = {}]

(* sync_phase, with latch_stale_epoch: an overdue stored boundary marks    *)
(* every proposal submitted so far.                                        *)
Sync(S) ==
    LET overdue == S.stale = {} /\ now > NextBoundary(S.clock) + StaleBound
        latched == IF overdue THEN {p \in Proposals : S.prop[p].state # "Absent"} ELSE S.stale
    IN  [MaybeClearStale([S EXCEPT !.stale = latched]) EXCEPT !.clock = ClockAt(now)]

(* The ledger's side of a vault.                                           *)
VoidVault(S, p) ==
    IF S.vault[p] \in {"Open", "Accept", "Reject"} THEN {[S EXCEPT !.vault[p] = "Voided"]} ELSE {}

ResolveVault(S, p, b) == IF S.vault[p] = "Open" THEN {[S EXCEPT !.vault[p] = b]} ELSE {}

(* A faulty ForceReject, for mutation: only undecided vaults are voided.   *)
HalfForceReject(S, p) ==
    IF S.prop[p].state \notin ForceRejectable THEN {S}
    ELSE {MaybeClearStale(Release([T EXCEPT !.prop[p] = Enters(@, "Rejected")], p)) :
            T \in IF S.prop[p].state \in Undecided \ {"Qualified"} THEN VoidVault(S, p) ELSE {S}}

(* force_reject_process_hold *)
ForceReject(S, p) ==
    IF S.prop[p].state \notin ForceRejectable THEN {S}
    ELSE {MaybeClearStale(Release([T EXCEPT !.prop[p] = Enters(@, "Rejected")], p)) :
            T \in IF HasMarkets(S, p) THEN VoidVault(S, p) ELSE {S}}

(* A faulty Measure, for mutation: the cohort of the current epoch.        *)
ClockMeasure(S, p) ==
    LET e == S.clock.index
    IN  {[S EXCEPT !.cohorts[e].members = Append(@, p),
                   !.prop[p] = Enters(@, "Measuring")]}

(* start_measurement, behind ensure_can_start_measurement.                 *)
Measure(S, p) ==
    LET e == S.prop[p].epoch
        c == S.cohorts[e]
    IN  IF IF c = NoCohort THEN Cardinality(Live(S)) >= MaxCohorts ELSE Len(c.members) >= MaxMembers
        THEN {}
        ELSE {[S EXCEPT !.cohorts[e].members = Append(@, p),
                        !.prop[p] = Enters(@, "Measuring")]}

(* The vault is resolved for branch b and the proposal measured, unless    *)
(* the cohort of its epoch was voided (force_reject_if_cohort_void).       *)
ToMeasurement(S, p, b) ==
    IF Voided(S, S.prop[p].epoch) THEN ForceReject(S, p)
    ELSE UNION {Measure(T, p) : T \in ResolveVault(S, p, b)}

RejectToMeasurement(S, p) ==
    {Release([T EXCEPT !.prop[p] = [@ EXCEPT !.decision = "Reject"]], p) : T \in ToMeasurement(S, p, "Reject")}

(* rollover_or_refund *)
RolloverOrRefund(r, next) ==
    IF r.rolled THEN Enters(r, "Cancelled")
                ELSE [r EXCEPT !.state = "Submitted", !.rolled = TRUE, !.epoch = next]

-----------------------------------------------------------------------------
(* persist: the member list of a cohort is frozen in its schedule when the *)
(* cohort is first stored and compared at every later store; terminal      *)
(* records are not stored back.  What no later step reads is not kept.     *)
Frozen(S, e) == S.schedules[e] \in {<<>>, S.cohorts[e].members}

(* A faulty StoredRecord, for mutation: a cancelled record is stored back. *)
KeptRecord(r) ==
    CASE r.state \in Terminal \ {"Cancelled"} -> [Blank EXCEPT !.state = "Gone"]
      [] r.state = "Measuring"  -> [Blank EXCEPT !.state = r.state, !.epoch = r.epoch, !.decision = r.decision]
      [] OTHER                  -> r

StoredRecord(r) ==
    CASE r.state \in Terminal   -> [Blank EXCEPT !.state = "Gone"]
      [] r.state = "Measuring"  -> [Blank EXCEPT !.state = r.state, !.epoch = r.epoch, !.decision = r.decision]
      [] OTHER                  -> r

Persist(S) ==
    IF \E e \in Live(S) : ~Frozen(S, e) THEN {}
    ELSE {[S EXCEPT !.schedules = [e \in Epochs |-> S.cohorts[e].members],
                    !.prop      = [p \in Proposals |-> StoredRecord(@[p])],
                    !.funded    = {p \in @ : S.prop[p].state = "Qualified"}]}

(* A call: the storage becomes one of the outcomes, if there is one.       *)
Call(outcomes) ==
    /\ st' \in UNION {Persist(S) : S \in outcomes}
    /\ UNCHANGED now

-----------------------------------------------------------------------------
(* tick: what one item of the batch does.                                  *)

(* A T20 hold: the status quo wins and a vault is voided at par.           *)
Held(S, p, frozen) == frozen \/ p \in S.stale \/ Voided(S, S.prop[p].epoch)

Takes(S, p) == [S EXCEPT !.locks = [r \in Resources |-> IF r \in S.prop[p].resources THEN p ELSE @[r]]]

Active(S) == {q \in Proposals : /\ S.prop[q].epoch = S.clock.index
                                /\ S.prop[q].state \in InProgress \ {"FailedExecuted"}}

Candidates(S) == {q \in Proposals : S.prop[q].state = "Submitted" /\ S.prop[q].epoch = S.clock.index}

QualifiedFor(S) == {q \in Proposals : S.prop[q].state = "Qualified" /\ S.prop[q].epoch = S.clock.index}

(* A faulty Screen, for mutation: locks of others are taken over.          *)
GreedyScreen(S, p) ==
    LET at == S.clock.index * Length + Start[DecidePhase]
    IN  IF \E q \in Candidates(S) : q < p THEN {}
        ELSE {[S EXCEPT !.prop[p] = Enters(@, "Cancelled")],
              IF Cardinality(Active(S)) < Slots
              THEN Takes([S EXCEPT !.prop[p] = [Enters(@, "Qualified") EXCEPT !.due = at]], p)
              ELSE [S EXCEPT !.prop[p] = RolloverOrRefund(@, S.clock.index + 1)]}

(* Screening, in the order of the ranks: cancelled, qualified with its     *)
(* locks, or deferred when no slot or a resource is taken.                 *)
Screen(S, p) ==
    LET fits == /\ Cardinality(Active(S)) < Slots
                /\ \A r \in S.prop[p].resources : S.locks[r] = Nobody
        at   == S.clock.index * Length + Start[DecidePhase]
    IN  IF \E q \in Candidates(S) : q < p THEN {}
        ELSE {[S EXCEPT !.prop[p] = Enters(@, "Cancelled")],
              IF fits
              THEN Takes([S EXCEPT !.prop[p] = [Enters(@, "Qualified") EXCEPT !.due = at]], p)
              ELSE [S EXCEPT !.prop[p] = RolloverOrRefund(@, S.clock.index + 1)]}

(* Only what the slate of the epoch funded opens; the first book of an     *)
(* epoch brings its Baseline along.                                        *)
OpenMarkets(S, p) ==
    IF p \notin S.funded \/ S.vault[p] # "Absent" THEN {}
    ELSE {[S EXCEPT !.vault[p] = "Open", !.prop[p] = [@ EXCEPT !.state = "Trading"],
                    !.baseline[S.prop[p].epoch] = IF @ = "Absent" THEN "Open" ELSE @]}

ScheduleRerun(S, p) == {[S EXCEPT !.prop[p] = [@ EXCEPT !.state = "Rerun", !.due = 0,
                                                         !.decision = "None"]]}

OpenRerun(S, p) == {[S EXCEPT !.prop[p] = [@ EXCEPT !.state = "Extended", !.rerun = TRUE,
                                                     !.due = now + Extension]]}

(* Whether the guard has a reason to reject a queued proposal (a changed   *)
(* runtime, no ratification, a lost attestation) is left open.             *)
FromQueue(S, p) ==
    RejectToMeasurement(S, p) \union
    IF now > S.prop[p].due + Grace THEN ToMeasurement(S, p, "Reject") ELSE {S}

TickOne(S, p, frozen) ==
    LET r == S.prop[p]
        c == S.clock
    IN  IF r.state \in ForceRejectable /\ Held(S, p, frozen) THEN ForceReject(S, p)
        ELSE IF p \in Candidates(S) /\ c.phase = Qualify THEN Screen(S, p)
        ELSE IF r.state = "Qualified" /\ c.phase = Seed THEN OpenMarkets(S, p)
        ELSE IF r.state = "Suspended" /\ c.phase = Seed /\ c.index >= r.due THEN ScheduleRerun(S, p)
        ELSE IF r.state = "Rerun" /\ c.phase = Seed THEN OpenRerun(S, p)
        ELSE IF r.state = "Queued" THEN FromQueue(S, p)
        ELSE IF r.state = "FailedExecuted" /\ now > r.due THEN ToMeasurement(S, p, "Accept")
        ELSE {S}

(* shrink_qualified_slots: at the entry into Seed the slate is cut to what *)
(* the budget covers and the funded set recorded.                          *)
Shrink(S, keep) ==
    [S EXCEPT !.funded = keep,
              !.locks  = [r \in Resources |-> IF @[r] \in QualifiedFor(S) \ keep THEN Nobody ELSE @[r]],
              !.prop   = [p \in Proposals |-> IF p \in QualifiedFor(S) \ keep
                                              THEN RolloverOrRefund(@[p], S.clock.index + 1) ELSE @[p]]]

-----------------------------------------------------------------------------
(* The calls of keepers and holders.                                       *)

(* An order of the batch: those to screen by rank, then the others, by id. *)
Orders(S, B) ==
    LET first == IF S.clock.phase = Qualify THEN B \intersect Candidates(S) ELSE {}
    IN  {o \in SetToSeqs(B) : \A i, j \in DOMAIN o :
                                 i < j /\ o[j] \in first => o[i] \in first /\ o[i] < o[j]}

(* The storages the items of the batch may leave, taken in the order o.    *)
Batch(T, o, frozen) ==
    LET after[i \in 0 .. Len(o)] ==
          IF i = 0 THEN {T} ELSE UNION {TickOne(U, o[i], frozen) : U \in after[i - 1]}
    IN  after[Len(o)]

Tick(B, frozen) ==
    LET S     == Sync(st)
        slate == IF st.clock.phase # Seed /\ S.clock.phase = Seed THEN {Shrink(S, keep) : keep \in SUBSET QualifiedFor(S)} ELSE {S}
    IN  /\ \A p \in B : st.prop[p].state \in Stored
        /\ Call(UNION {Batch(T, o, frozen) : T \in slate, o \in Orders(S, B)})

Submit(p, R) ==
    /\ st.prop[p].state = "Absent"
    /\ st.clock.phase = Intake /\ st.clock.index < Intakes
    /\ Call({[st EXCEPT !.prop[p] = [@ EXCEPT !.state = "Submitted", !.epoch = st.clock.index,
                                              !.resources = R]]})

Withdraw(p) ==
    /\ st.clock.phase = Intake
    /\ p \in Candidates(st)
    /\ Call({[st EXCEPT !.prop[p] = Enters(@, "Cancelled")]})

Extend(S, p) == IF S.prop[p].state = "Extended" THEN {}
                ELSE {[S EXCEPT !.prop[p] = [@ EXCEPT !.state = "Extended",
                                                        !.due = S.prop[p].due + Extension]]}

Adopt(S, p) ==
    IF \E r \in S.prop[p].resources : S.locks[r] # p THEN {}
    ELSE {[S EXCEPT !.prop[p] = [@ EXCEPT !.state = "Queued", !.decision = "Adopt",
                                           !.due = now + Timelock]]}

(* A faulty Decisions, for mutation: a freeze rejects like a market does.  *)
HoldRejectsDecisions(S, p, frozen) ==
    IF Held(S, p, FALSE) THEN ForceReject(S, p)
    ELSE IF frozen THEN RejectToMeasurement(S, p)
    ELSE Extend(S, p) \union Adopt(S, p) \union RejectToMeasurement(S, p)

(* What decide may leave.  The books, the grades, the holds: the outcome.  *)
Decisions(S, p, frozen) ==
    IF Held(S, p, frozen) THEN ForceReject(S, p)
    ELSE Extend(S, p) \union Adopt(S, p) \union RejectToMeasurement(S, p)

(* The windows of all books are sealed first, which needs decide_at.       *)
Decide(p, frozen) ==
    /\ st.prop[p].state \in {"Trading", "Extended"}
    /\ now >= st.prop[p].due
    /\ Call(Decisions(Sync(st), p, frozen))

(* Of the oracle's boundaries only the clock is kept.                      *)
DriveOracleBoundaries == Call({Sync(st)})

-----------------------------------------------------------------------------
(* The calls of the guardian and of the execution guard; none of them      *)
(* synchronizes the clock.                                                 *)

DelayOnce(p) ==
    /\ st.prop[p].state = "Queued" /\ ~st.prop[p].delayed
    /\ Call({[st EXCEPT !.prop[p] = [@ EXCEPT !.state = "Suspended", !.delayed = TRUE,
                                              !.due = st.clock.index + 1]]})

MayRerun(r) == r.state \in {"Trading", "Extended", "Queued"} /\ ~r.rerun /\ ~r.delayed

(* A faulty ForceRerun, for mutation: the voided decision stays.           *)
StickyForceRerun(p) ==
    /\ MayRerun(st.prop[p])
    /\ Call({[st EXCEPT !.prop[p] = [@ EXCEPT !.state = "Extended", !.rerun = TRUE,
                                              !.due = now + Extension]]})

ForceRerun(p) ==
    /\ MayRerun(st.prop[p])
    /\ Call({[st EXCEPT !.prop[p] = [@ EXCEPT !.state = "Extended", !.rerun = TRUE,
                                              !.decision = "None", !.due = now + Extension]]})

VetoUpheld(p) ==
    /\ st.prop[p].state = "Suspended"
    /\ Call(RejectToMeasurement(st, p))

GuardianForceReject(p) ==
    /\ st.prop[p].state \in Stored
    /\ Call(ForceReject(st, p))

(* execute, mature and in its grace or retry window; the other checks of   *)
(* the guard, the freeze among them, may refuse it at any time.            *)
Executable(p) ==
    LET r == st.prop[p]
    IN  \/ r.state = "Queued" /\ r.due <= now /\ now <= r.due + Grace
        \/ r.state = "FailedExecuted" /\ now <= r.due

MarkExecuted(p) == Executable(p) /\ Call(ToMeasurement(st, p, "Accept"))

(* A reverted payload; a retry that fails changes nothing.                 *)
MarkFailed(p) ==
    /\ Executable(p) /\ st.prop[p].state = "Queued"
    /\ Call({[st EXCEPT !.prop[p] = [@ EXCEPT !.state = "FailedExecuted",
                                              !.due = now + RetryWindow]]})

RejectStale(p) ==
    /\ st.prop[p].state = "Queued"
    /\ Call(RejectToMeasurement(st, p))

ExpireFailedExecution(p) ==
    /\ st.prop[p].state = "FailedExecuted" /\ now > st.prop[p].due
    /\ Call(ToMeasurement(st, p, "Accept"))

-----------------------------------------------------------------------------
(* The end of a cohort and of a Baseline.                                  *)

(* Removes a cohort and those of its epoch, and archives the outcome.      *)
Reap(S, e, gone, outcome) ==
    [S EXCEPT !.cohorts[e] = NoCohort, !.recent[e] = outcome,
              !.locks = [r \in Resources |-> IF @[r] \in gone THEN Nobody ELSE @[r]]]

(* settle_cohort: the members, then the Baseline, batch items at a time;   *)
(* with the last one the cohort is archived.                               *)
SettleCohort(e, batch) ==
    LET S     == Sync(st)
        c     == st.cohorts[e]
        m     == Len(c.members)
        end   == IF c.cursor + batch < m + 1 THEN c.cursor + batch ELSE m + 1
        items == (c.cursor + 1) .. end
        due   == {c.members[i] : i \in items \ {m + 1}}
        done  == [S EXCEPT !.vault = [p \in Proposals |-> IF p \in due THEN "Settled" ELSE @[p]],
                           !.cohorts[e].cursor = end]
        all   == [done EXCEPT !.baseline[e] = "Settled",
                              !.prop = [p \in Proposals |-> IF p \in Range(c.members)
                                                            THEN [@[p] EXCEPT !.state = "Settled"]
                                                            ELSE @[p]]]
    IN  /\ c # NoCohort
        /\ S.clock.phase = Housekeeping
        /\ c.cursor = 0 => S.clock.index >= e + K + 1
        /\ \A p \in due : S.vault[p] \in {"Accept", "Reject"}
        /\ end = m + 1 => S.baseline[e] = "Open"
        /\ Call({IF end < m + 1 THEN done ELSE Reap(all, e, Range(c.members), "Settled")})

(* void_cohort: members and the epoch's unfinished proposals; refused      *)
(* once the settlement has begun.                                          *)
VoidCohort(e) ==
    LET c        == st.cohorts[e]
        members  == Range(c.members)
        affected == members \union {p \in Proposals : st.prop[p].epoch = e /\ st.prop[p].state \in InProgress}
        priced   == {p \in affected : HasMarkets(st, p)}
    IN  /\ c # NoCohort /\ c.cursor = 0
        /\ Cardinality(affected) <= MaxMembers
        /\ \A p \in priced : st.vault[p] \in {"Open", "Accept", "Reject"}
        /\ Call({Reap([st EXCEPT !.vault = [p \in Proposals |-> IF p \in priced THEN "Voided" ELSE @[p]],
                                 !.prop  = [p \in Proposals |-> IF p \in affected
                                                                THEN [@[p] EXCEPT !.state = "Settled"]
                                                                ELSE @[p]],
                                 !.baseline[e] = IF @ = "Open" THEN "Neutral" ELSE @],
                      e, affected, "Voided")})

(* A faulty Orphaned, for mutation: pending proposals are not looked at.   *)
HastyOrphaned(e) ==
    /\ e < st.clock.index
    /\ st.cohorts[e] = NoCohort /\ st.recent[e] = "None"

(* The epoch is past, no cohort of it stands or is archived, and nothing   *)
(* of it is left that could still form one.                                *)
Orphaned(e) ==
    /\ e < st.clock.index
    /\ st.cohorts[e] = NoCohort /\ st.recent[e] = "None"
    /\ ~ \E p \in Proposals : st.prop[p].epoch = e /\ st.prop[p].state \in Stored

FinalizeBaseline(e) ==
    /\ Orphaned(e)
    /\ Call({[st EXCEPT !.baseline[e] = IF @ = "Open" THEN "Neutral" ELSE @]})

-----------------------------------------------------------------------------
(* The environment and the specification.                                  *)

Advance ==
    /\ now < Horizon
    /\ now' = now + 1
    /\ UNCHANGED st

(* Every call but the guardian's two reruns, which it has an allowance for.*)
EpochCalls ==
    \/ \E B \in SUBSET Proposals, frozen \in BOOLEAN : Tick(B, frozen)
    \/ \E p \in Proposals, R \in SUBSET Resources : Submit(p, R)
    \/ \E p \in Proposals : Withdraw(p)
    \/ \E p \in Proposals, frozen \in BOOLEAN : Decide(p, frozen)
    \/ DriveOracleBoundaries
    \/ \E p \in Proposals : VetoUpheld(p)
    \/ \E p \in Proposals : GuardianForceReject(p)
    \/ \E p \in Proposals : MarkExecuted(p)
    \/ \E p \in Proposals : MarkFailed(p)
    \/ \E p \in Proposals : RejectStale(p)
    \/ \E p \in Proposals : ExpireFailedExecution(p)
    \/ \E e \in Epochs, batch \in 1 .. N + 1 : SettleCohort(e, batch)
    \/ \E e \in Epochs : VoidCohort(e)
    \/ \E e \in Epochs : FinalizeBaseline(e)
    \/ Advance

GuardianHold(p) == DelayOnce(p) \/ ForceRerun(p)

Next == EpochCalls \/ \E p \in Proposals : GuardianHold(p)

Spec == Init /\ [][Next]_vars

-----------------------------------------------------------------------------
(* Safety.                                                                 *)

(* A vault is open exactly while its proposal may still be decided or      *)
(* executed, resolved exactly while it is measured, and a proposal that is *)
(* gone left no claims behind that can never be redeemed: every path out,  *)
(* rejections, voids and settlements, takes the vault along.               *)
VaultsFollow ==
    \A p \in Proposals :
        LET s == st.prop[p].state
            v == st.vault[p]
        IN  /\ v = "Open" <=> s \in MarketBearing
            /\ v \in {"Accept", "Reject"} => s = "Measuring"
            /\ s = "Measuring" => v \in {"Accept", "Reject", "Settled"}
            /\ v \in {"Voided", "Settled"} => s \in {"Gone", "Measuring"}

(* A proposal is measured exactly when it is a member of the cohort of its *)
(* own epoch, once; the frozen schedule names the members; and the cursor  *)
(* of a settlement in batches separates the settled vaults from the others.*)
CohortsSound ==
    /\ \A p \in Proposals :
         {e \in Epochs : p \in Range(st.cohorts[e].members)} =
             IF st.prop[p].state = "Measuring" THEN {st.prop[p].epoch} ELSE {}
    /\ \A e \in Epochs :
         LET c == st.cohorts[e]
         IN  /\ IsInjective(c.members)
             /\ st.schedules[e] = c.members
             /\ \A i \in DOMAIN c.members : st.vault[c.members[i]] = "Settled" <=> i <= c.cursor

(* A Baseline is settled at the neutral value only when nothing of its     *)
(* epoch can ask for its score any more (finalize_epoch_baseline,          *)
(* void_cohort).                                                           *)
NeutralIsFinal ==
    \A e \in Epochs : st.baseline[e] = "Neutral" =>
        /\ st.cohorts[e] = NoCohort
        /\ \A p \in Proposals : st.prop[p].epoch = e => st.prop[p].state \notin InProgress \union {"Measuring"}

(* From qualification to dispatch a proposal holds every resource it       *)
(* declared, through rollovers, reruns and delays, and only a proposal     *)
(* that is still in the machine holds one.                                 *)
LocksHeld ==
    /\ \A p \in Proposals : st.prop[p].state \in InProgress =>
         \A r \in st.prop[p].resources : st.locks[r] = p
    /\ \A r \in Resources : st.locks[r] # Nobody =>
         st.prop[st.locks[r]].state \in InProgress \union {"Measuring"}

(* The recorded decision is the one in force: none while the books trade   *)
(* (also again, after a rerun), Adopt for whatever waits for execution or  *)
(* is measured on the ACCEPT branch.                                       *)
DecisionMatchesBranch ==
    \A p \in Proposals :
        LET r == st.prop[p]
        IN  /\ r.state \in {"Trading", "Extended", "Rerun"} => r.decision = "None"
            /\ r.state \in Adopted => r.decision = "Adopt"
            /\ r.state = "Measuring" /\ st.vault[p] = "Accept" => r.decision = "Adopt"

(* Under a freeze, a stale epoch or a voided cohort a keeper cannot choose *)
(* the outcome by choosing the crank or the batch: neither tick nor decide *)
(* resolves a held vault to a branch.                                      *)
SweepsAgree ==
    [][\A p \in Proposals :
         st.vault[p] = "Open" /\ st'.vault[p] \in {"Accept", "Reject"} =>
             \A frozen \in BOOLEAN :
                 \/ ~Held(Sync(st), p, frozen)
                 \/ /\ ~Decide(p, frozen)
                    /\ \A B \in SUBSET Proposals : p \in B => ~Tick(B, frozen)]_vars

-----------------------------------------------------------------------------
(* What the documents and checks of the repository say, and the code does  *)
(* not keep.                                                               *)

(* A proposal whose decision time has come can be rejected into the cohort *)
(* of its epoch while that cohort is measuring and has room.               *)
MembersJoin ==
    \A p \in Proposals :
        LET c == st.cohorts[st.prop[p].epoch]
        IN  (/\ st.prop[p].state \in {"Trading", "Extended"} /\ now >= st.prop[p].due
             /\ ~Held(Sync(st), p, FALSE)
             /\ c # NoCohort /\ c.cursor = 0 /\ Len(c.members) < MaxMembers)
            => UNION {Persist(S) : S \in RejectToMeasurement(Sync(st), p)} # {}

(* In Seed, every qualified proposal of the epoch is in the funded slate.  *)
FundedInSeed == st.clock.phase = Seed => QualifiedFor(st) \subseteq st.funded

=============================================================================
