--------------------------- MODULE FreezePlaybook ---------------------------
(***************************************************************************)
(* PB-LEDGER-FREEZE across the pallets it touches.  The guardian pallet    *)
(* keeps the authorization (at most one ActivePlaybook record); the effect *)
(* lives in three other places, each with a lifetime of its own: the       *)
(* FrozenUntil window of the ledger, that of the market, and bit 5 of the  *)
(* constitution's phase flags.  The trigger is the LedgerDrifted latch     *)
(* that only the reconcile crank moves.                                    *)
(*                                                                         *)
(* Time is relative: a deadline is the number of blocks left before it, so *)
(* "now < until" is "left > 0".  The five approvals behind an activation   *)
(* are one action, taken when the fifth arrives.                           *)
(***************************************************************************)
EXTENDS Integers

CONSTANTS
    Window,     \* HOLD_MAX_BLOCKS = PLAYBOOK_FREEZE_WINDOW_BLOCKS
    Renewals,   \* LEDGER_FREEZE_RENEWALS
    RollsBack   \* whether the maintenance layer may fail and roll back

ASSUME FreezeParameters == Window \in Nat \ {0} /\ Renewals \in Nat /\ RollsBack \in BOOLEAN

VARIABLES
    short,      \* the liability exceeds the custody (the world)
    drifted,    \* LedgerDrifted
    playbook,   \* ActivePlaybooks restricted to LedgerFreeze: active, left, renewals
    effect,     \* FrozenUntil and FreezeRenewed of both pallets, and bit 5
    streak      \* history: the blocks in a row that ended frozen, up to Ceiling + 1

vars == <<short, drifted, playbook, effect, streak>>

Pallets  == {"Ledger", "Market"}
Gates    == [left : 0 .. Window, renewed : BOOLEAN]
Ceiling  == 2 * Window
Inactive == [active |-> FALSE, left |-> 0, renewals |-> 0]

TypeOK ==
    /\ short \in BOOLEAN
    /\ drifted \in BOOLEAN
    /\ playbook \in [active : BOOLEAN, left : 0 .. Window, renewals : 0 .. Renewals]
    /\ effect \in [gate : [Pallets -> Gates], bit5 : BOOLEAN]
    /\ streak \in 0 .. Ceiling + 1

Init ==
    /\ short = FALSE
    /\ drifted = FALSE
    /\ playbook = Inactive
    /\ effect = [gate |-> [p \in Pallets |-> [left |-> 0, renewed |-> FALSE]], bit5 |-> FALSE]
    /\ streak = 0

-----------------------------------------------------------------------------
(* The effect endpoints.                                                   *)

Closed(g) == g.left > 0
Frozen    == Closed(effect.gate["Ledger"])

(* A faulty SetFrozen, for mutation: the renewal flag survives.            *)
StickySetFrozen(g, applied) == [g EXCEPT !.left = IF applied THEN Window ELSE 0]

(* set_frozen of either pallet: a full window, with its renewal unused.    *)
SetFrozen(g, applied) == [left |-> IF applied THEN Window ELSE 0, renewed |-> FALSE]

(* set_live_conditioned_playbook: only a pallet that is on the wrong side  *)
(* is called, and a window that is already open is not restarted.          *)
SetLive(e, applied) ==
    [gate |-> [p \in Pallets |-> IF Closed(e.gate[p]) # applied THEN SetFrozen(e.gate[p], applied)
                                                               ELSE e.gate[p]],
     bit5 |-> applied]

Matches(e, applied) == /\ \A p \in Pallets : Closed(e.gate[p]) = applied
                       /\ e.bit5 = applied

(* extend_freeze_once of both pallets, in one storage layer.               *)
Extendable(e) == \A p \in Pallets : Closed(e.gate[p]) /\ ~e.gate[p].renewed

(* A faulty Extend, for mutation: the market is left out.                  *)
LedgerOnlyExtend(e) == [e EXCEPT !.gate["Ledger"] = [left |-> Window, renewed |-> TRUE]]

Extend(e) == [e EXCEPT !.gate = [p \in Pallets |-> [left |-> Window, renewed |-> TRUE]]]

-----------------------------------------------------------------------------
(* The world, and the permissionless reconciliation crank.                 *)

Shift(s) ==
    /\ short # s
    /\ short' = s
    /\ UNCHANGED <<drifted, playbook, effect, streak>>

(* A faulty Reconcile, for mutation: the latch never clears.               *)
LatchedReconcile ==
    /\ drifted' = (drifted \/ short)
    /\ UNCHANGED <<short, playbook, effect, streak>>

Reconcile ==
    /\ drifted' = short
    /\ UNCHANGED <<short, playbook, effect, streak>>

-----------------------------------------------------------------------------
(* The guardian pallet.                                                    *)

(* The approval that dispatches ActivatePlaybook(LedgerFreeze): refused    *)
(* while a record stands, and without the live trigger.  The expiry is the *)
(* proposer's, at most a window away when the call dispatches.             *)
Activate(left) ==
    /\ ~playbook.active
    /\ drifted
    /\ playbook' = [active |-> TRUE, left |-> left, renewals |-> 0]
    /\ effect' = SetLive(effect, TRUE)
    /\ UNCHANGED <<short, drifted, streak>>

(* A faulty Renew, for mutation: the trigger is not read again.            *)
BlindRenew ==
    /\ playbook.active
    /\ playbook.renewals < Renewals
    /\ playbook' = [playbook EXCEPT !.left = Window, !.renewals = @ + 1]
    /\ \/ ~Matches(effect, TRUE) /\ effect' = SetLive(effect, TRUE)
       \/ Matches(effect, TRUE) /\ Extendable(effect) /\ effect' = Extend(effect)
    /\ UNCHANGED <<short, drifted, streak>>

(* A faulty Renew, for mutation: the record is extended, the gates are not.*)
RecordOnlyRenew ==
    /\ playbook.active
    /\ playbook.renewals < Renewals
    /\ playbook' = [playbook EXCEPT !.left = Window, !.renewals = @ + 1]
    /\ effect' = IF drifted THEN SetLive(effect, TRUE) ELSE SetLive(effect, FALSE)
    /\ UNCHANGED <<short, drifted, streak>>

(* renew_playbook: the record gets a fresh window, and so do both gates,   *)
(* if the drift still holds and they are closed; if one is open they are   *)
(* closed, and if the drift is gone they are opened.                       *)
Renew ==
    /\ playbook.active
    /\ playbook.renewals < Renewals
    /\ playbook' = [playbook EXCEPT !.left = Window, !.renewals = @ + 1]
    /\ \/ ~drifted /\ effect' = SetLive(effect, FALSE)
       \/ drifted /\ ~Matches(effect, TRUE) /\ effect' = SetLive(effect, TRUE)
       \/ drifted /\ Matches(effect, TRUE) /\ Extendable(effect) /\ effect' = Extend(effect)
    /\ UNCHANGED <<short, drifted, streak>>

Elapse(left) == IF left > 0 THEN left - 1 ELSE 0

Aged(e) == [e EXCEPT !.gate = [p \in Pallets |-> [e.gate[p] EXCEPT !.left = Elapse(@)]]]

(* A faulty Maintained, for mutation: the record goes, its effect stays.   *)
UnsyncedMaintained(pb, e) ==
    [playbook |-> IF pb.active /\ pb.left = 0 THEN Inactive ELSE pb,
     effect   |-> e]

(* The last layer of run_maintenance: sync_live_conditioned_playbooks,     *)
(* expire_playbooks, and the revert that drain_events makes for a record   *)
(* that expired.                                                           *)
Maintained(pb, e) ==
    LET should  == pb.active /\ pb.left > 0 /\ drifted
        synced  == IF Matches(e, should) THEN e ELSE SetLive(e, should)
        expired == pb.active /\ pb.left = 0
    IN  [playbook |-> IF expired THEN Inactive ELSE pb,
         effect   |-> IF expired THEN SetLive(synced, FALSE) ELSE synced]

(* A block passes and the next one runs on_initialize.  That layer also    *)
(* releases bonds, and an error there rolls all of it back until the next  *)
(* block: the deadlines then pass with nobody acting on them.              *)
NextBlock ==
    LET older == [playbook |-> [playbook EXCEPT !.left = Elapse(@)], effect |-> Aged(effect)]
    IN  /\ streak' = IF ~Frozen THEN 0 ELSE IF streak > Ceiling THEN streak ELSE streak + 1
        /\ \E after \in {Maintained(older.playbook, older.effect)}
                          \cup (IF RollsBack THEN {older} ELSE {}) :
             playbook' = after.playbook /\ effect' = after.effect
        /\ UNCHANGED <<short, drifted>>

Next ==
    \/ \E s \in BOOLEAN : Shift(s)
    \/ Reconcile
    \/ \E left \in 0 .. Window : Activate(left)
    \/ Renew
    \/ NextBlock

(* Blocks keep coming, and some keeper keeps running reconcile (the crank  *)
(* is open to anyone, and the bundled keeper plans it on every pass).      *)
Fairness == WF_vars(NextBlock) /\ WF_vars(Reconcile)

Spec == Init /\ [][Next]_vars /\ Fairness

-----------------------------------------------------------------------------
(* Properties.                                                             *)

(* The ledger and the market never disagree on the freeze: same deadline,  *)
(* same renewal flag, and whoever is frozen shows it in bit 5.             *)
GatesAgree ==
    /\ effect.gate["Ledger"] = effect.gate["Market"]
    /\ Frozen => effect.bit5

(* Nothing is frozen without a record: while the gates are closed the      *)
(* guardian record stands, so it can still be renewed, reviewed or expired.*)
NoOrphanFreeze == Frozen => playbook.active

(* The gates do not lapse before the authorization: a freeze in force      *)
(* lasts at least as long as the record says, with no gap at a renewal.    *)
NoLapse == Frozen => effect.gate["Ledger"].left >= playbook.left

(* The renewal a referendum carried is never refused by a flag an earlier  *)
(* freeze left behind.                                                     *)
RenewalUsable ==
    playbook.active /\ playbook.renewals = 0 /\ Frozen => Extendable(effect)

(* A gate is closed anew, or its deadline moved out, only while the drift  *)
(* latch is set and a record authorizes it.                                *)
FreezeOnlyOnDrift ==
    [][\A p \in Pallets : effect'.gate[p].left > effect.gate[p].left =>
                             drifted /\ playbook'.active]_vars

(* Once the custody is whole for good, the freeze ends for good, whatever  *)
(* the guardians and the referenda do, even if no maintenance ever works.  *)
ThawsOnceWhole == <>[]~short => <>[]~Frozen

(* What the architecture says of the playbook: one renewal only, so that   *)
(* the freeze lasts two windows at most (06 6.3).                          *)
TwoWindowsAtMost == streak <= Ceiling

=============================================================================
