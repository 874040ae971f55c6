-------------------------- MODULE TaughtLifecycle --------------------------
(***************************************************************************)
(* The life of one proposal as the explainer teaches it, the transition    *)
(* table T1 to T26 of protocol/lifecycle.ts with the fate of its vault.    *)
(* It knows no clock, no batches and no other proposal.                    *)
(*                                                                         *)
(* What a row enters and leaves in the same block is passed through: the   *)
(* screening (T3), an execution (T17), and a rejection or an expiry while  *)
(* the vault is open (T21).  A proposal is "Absent" before T1 and "Gone"   *)
(* where the life stops: cancelled, settled, or rejected with no vault or  *)
(* a voided one.                                                           *)
(***************************************************************************)

VARIABLES
    state,      \* Proposal state
    vault,      \* "Absent", "Open", the branch it resolved to, "Voided", "Settled"
    deferred,   \* the proposal took T6 already
    rerun       \* the guardian's one rerun of it, of either kind, is spent

vars == <<state, vault, deferred, rerun>>

Deciding == {"Trading", "Extended"}
Decided  == {"Queued", "Suspended", "FailedExecuted"}
Running  == Deciding \union Decided \union {"Rerun"}

Allowances == <<deferred, rerun>>
Rest       == <<vault, deferred, rerun>>

Init == state = "Absent" /\ vault = "Absent" /\ ~deferred /\ ~rerun

-----------------------------------------------------------------------------
(* Intake and screening.                                                   *)

Submit == state = "Absent" /\ state' = "Submitted" /\ UNCHANGED Rest  \* T1

Cancel == state = "Submitted" /\ state' = "Gone" /\ UNCHANGED Rest  \* T2, T4, T26

Qualify == state = "Submitted" /\ state' = "Qualified" /\ UNCHANGED Rest  \* T5

(* T26 is evaluated in place of T6, and no proposal takes T6 twice.        *)
Defer ==                                                        \* T6
    /\ state = "Submitted" /\ ~deferred
    /\ deferred' = TRUE
    /\ UNCHANGED <<state, vault, rerun>>

-----------------------------------------------------------------------------
(* The market, and what it decides.                                        *)

OpenMarkets ==                                                  \* T7
    /\ state = "Qualified" /\ vault = "Absent"
    /\ state' = "Trading" /\ vault' = "Open" /\ UNCHANGED Allowances

Extend == state = "Trading" /\ state' = "Extended" /\ UNCHANGED Rest  \* T8

Adopt == state \in Deciding /\ state' = "Queued" /\ UNCHANGED Rest  \* T9

(* Rejected by the market, expired, stale or vetoed: what was rejected     *)
(* with its vault open is measured.                                        *)
Reject ==                                                       \* T10, T15, T16, T24; T21
    /\ state \in Deciding \union {"Queued", "Suspended"} /\ vault = "Open"
    /\ state' = "Measuring" /\ vault' = "Reject" /\ UNCHANGED Allowances

(* The status quo wins: there is no measurement of a voided vault.         *)
ForceReject ==                                                  \* T20
    /\ state \in Running \union {"Submitted", "Qualified"}
    /\ vault \in {"Absent", "Open"}
    /\ state' = "Gone"
    /\ vault' = IF vault = "Open" THEN "Voided" ELSE vault
    /\ UNCHANGED Allowances

-----------------------------------------------------------------------------
(* The guardian, and the execution.                                        *)

DelayOnce ==                                                    \* T11
    /\ state = "Queued" /\ ~rerun
    /\ state' = "Suspended" /\ rerun' = TRUE
    /\ UNCHANGED <<vault, deferred>>

ScheduleRerun == state = "Suspended" /\ state' = "Rerun" /\ UNCHANGED Rest  \* T12

OpenRerun == state = "Rerun" /\ state' = "Extended" /\ UNCHANGED Rest  \* T13

ForceRerun ==                                                   \* T25
    /\ state \in Deciding \union {"Queued"} /\ ~rerun
    /\ state' = "Extended" /\ rerun' = TRUE
    /\ UNCHANGED <<vault, deferred>>

Fail == state = "Queued" /\ state' = "FailedExecuted" /\ UNCHANGED Rest  \* T18

(* Dispatched, at once or by a retry, or failed for good: the adopted      *)
(* world is measured.                                                      *)
Execute ==                                                      \* T14, T23; T17; T22
    /\ state \in {"Queued", "FailedExecuted"} /\ vault = "Open"
    /\ state' = "Measuring" /\ vault' = "Accept" /\ UNCHANGED Allowances

(* A settlement in batches has settled the vault before the cohort is done.*)
Settle ==                                                       \* T19
    /\ state = "Measuring" /\ vault \in {"Accept", "Reject", "Settled"}
    /\ vault' = "Settled" /\ state' \in {"Measuring", "Gone"} /\ UNCHANGED Allowances

Next ==
    \/ Submit \/ Cancel \/ Qualify \/ Defer
    \/ OpenMarkets \/ Extend \/ Adopt \/ Reject \/ ForceReject
    \/ DelayOnce \/ ScheduleRerun \/ OpenRerun \/ ForceRerun
    \/ Fail \/ Execute \/ Settle

=============================================================================
