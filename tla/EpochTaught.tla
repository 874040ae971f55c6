---------------------------- MODULE EpochTaught ----------------------------
(***************************************************************************)
(* Every proposal of the epoch engine lives the life the explainer         *)
(* teaches, under the guardian that dispatches the two reruns.  What the   *)
(* guardian keeps is its ledger of the reruns spent; the two flags of the  *)
(* engine's records are a second one, and the engine asks only for its own *)
(* flag of the kind when it delays.                                        *)
(***************************************************************************)
EXTENDS EpochLifecycle

VARIABLES
    rerunUsed,    \* RerunUsed, of the guardian: the proposals it reran, never reaped
    deferred      \* history: the proposals a call has left deferred

lives == <<vars, rerunUsed, deferred>>

-----------------------------------------------------------------------------
(* The guardian.                                                           *)

(* in_rerun, as the runtime reads it off the epoch pallet.                 *)
InRerun(r) == r.rerun \/ r.delayed \/ r.state \in {"Suspended", "Rerun"}

(* A faulty GuardianAdmits, for mutation: one rerun of each kind.          *)
PerKindAdmits(p) == ~st.prop[p].delayed

(* What dispatch asks before either power.  The allowances of an epoch and *)
(* the cap on the ledger (MAX_RERUN_USED) may refuse it at any time; the   *)
(* fifth approval, the ledger and the effect are one transaction.          *)
GuardianAdmits(p) == p \notin rerunUsed /\ ~InRerun(st.prop[p])

GuardedInit == Init /\ rerunUsed = {} /\ deferred = {}

GuardedNext ==
    /\ \/ EpochCalls /\ UNCHANGED rerunUsed
       \/ \E p \in Proposals : /\ GuardianAdmits(p)
                               /\ GuardianHold(p)
                               /\ rerunUsed' = rerunUsed \union {p}
    /\ deferred' = deferred \union {p \in Proposals : ~st.prop[p].rolled /\ st'.prop[p].rolled}

GuardedSpec == GuardedInit /\ [][GuardedNext]_lives

-----------------------------------------------------------------------------
(* The two ledgers of the guardian's reruns agree while it matters, and so *)
(* do the rollover counter and what was deferred: the counter is dropped   *)
(* wherever a proposal leaves Submitted, and a proposal comes back there   *)
(* only with its allowance spent.                                          *)
LedgersAgree ==
    \A p \in Proposals :
        LET r == st.prop[p]
        IN  /\ r.state \in ForceRejectable => (p \in rerunUsed <=> r.rerun \/ r.delayed)
            /\ r.state = "Submitted" => (p \in deferred <=> r.rolled)
            /\ r.state # "Submitted" => ~r.rolled
            /\ r.state = "Absent" => p \notin rerunUsed \union deferred

-----------------------------------------------------------------------------
(* The life of a proposal.                                                 *)

Life(p) == INSTANCE TaughtLifecycle WITH
             state <- st.prop[p].state, vault <- st.vault[p],
             deferred <- p \in deferred, rerun <- p \in rerunUsed

(* What the table does not teach: the budget takes a qualified proposal    *)
(* off the slate, back to Submitted, which spends its deferral.            *)
Demoted(p) ==
    /\ st.prop[p].state = "Qualified" /\ st'.prop[p].state = "Submitted"
    /\ st'.vault[p] = st.vault[p]
    /\ p \notin deferred /\ p \in deferred'
    /\ p \in rerunUsed' <=> p \in rerunUsed

(* It does so again with one that had spent it: qualify drops the rollover *)
(* that the rule asks for.  The documents say that such a proposal cancels *)
(* (DemotedOnlyOnce, which the code violates).                             *)
DemotedAgain(p) ==
    /\ st.prop[p].state = "Qualified" /\ st'.prop[p].state = "Submitted"
    /\ st'.vault[p] = st.vault[p]
    /\ p \in deferred /\ p \in deferred'
    /\ p \in rerunUsed' <=> p \in rerunUsed

(* The void of a cohort moves the vaults of what it measures and not the   *)
(* proposals, which are archived with the cohort as they stand: the table  *)
(* has no row for it on purpose.                                           *)
MeasurementVoided(p) ==
    /\ st.prop[p].state = "Measuring" /\ st'.prop[p].state = "Gone"
    /\ st.vault[p] \in {"Accept", "Reject"} /\ st'.vault[p] = "Voided"
    /\ UNCHANGED Life(p)!Allowances

(* In every call each proposal takes one row of the table at most, and no  *)
(* other way but those three: whatever the batch and its order, nothing it *)
(* declares terminal is left again, no vault is resolved or voided twice   *)
(* or for another proposal, and it is rerun once, whichever power the      *)
(* guardian uses.  Screening defers it once; the budget is not so bounded. *)
FollowsTaught ==
    [][\A p \in Proposals :
         \/ Life(p)!Next
         \/ UNCHANGED Life(p)!vars
         \/ Demoted(p)
         \/ DemotedAgain(p)
         \/ MeasurementVoided(p)]_lives

(* The one deferral of a proposal is for every cause: one that was         *)
(* deferred before and is then taken off the slate by the budget cancels   *)
(* (qualify drops the rollover and shrink_qualified_slots defers again).   *)
DemotedOnlyOnce ==
    [][\A p \in deferred :
         ~(st.prop[p].state = "Qualified" /\ st'.prop[p].state = "Submitted")]_lives

=============================================================================
