----------------------- MODULE FreezePlaybookProofs -----------------------
(***************************************************************************)
(* What FreezePlaybook guarantees for every window length and every number *)
(* of renewals, with a maintenance layer that may fail at any block.       *)
(***************************************************************************)
EXTENDS FreezePlaybook, TLAPS

(* Each conjunct leans on the others: a second activation resets the       *)
(* renewal flags only because nothing is frozen without a record.          *)
FreezeInv == TypeOK /\ GatesAgree /\ NoOrphanFreeze /\ NoLapse /\ RenewalUsable

-----------------------------------------------------------------------------
(* The endpoints.                                                          *)

(* A set_live call leaves both gates well formed, on the side asked for,   *)
(* and keeps the gates that were already there.                            *)
LEMMA SetLiveEffect ==
    ASSUME NEW e \in [gate : [Pallets -> Gates], bit5 : BOOLEAN], NEW applied \in BOOLEAN
    PROVE  /\ SetLive(e, applied) \in [gate : [Pallets -> Gates], bit5 : BOOLEAN]
           /\ SetLive(e, applied).bit5 = applied
           /\ \A p \in Pallets :
                /\ Closed(e.gate[p]) = applied => SetLive(e, applied).gate[p] = e.gate[p]
                /\ Closed(e.gate[p]) # applied =>
                     SetLive(e, applied).gate[p]
                       = [left |-> IF applied THEN Window ELSE 0, renewed |-> FALSE]
                /\ Closed(SetLive(e, applied).gate[p]) = applied
<1> DEFINE s == SetLive(e, applied)
<1>1. \A p \in Pallets : e.gate[p] \in Gates
  OBVIOUS
<1>2. ASSUME NEW p \in Pallets
      PROVE  /\ Closed(e.gate[p]) = applied => s.gate[p] = e.gate[p]
             /\ Closed(e.gate[p]) # applied =>
                  s.gate[p] = [left |-> IF applied THEN Window ELSE 0, renewed |-> FALSE]
             /\ s.gate[p] \in Gates
             /\ Closed(s.gate[p]) = applied
  <2>1. [left |-> IF applied THEN Window ELSE 0, renewed |-> FALSE] \in Gates
    BY FreezeParameters DEF Gates
  <2>2. s.gate[p] = IF Closed(e.gate[p]) # applied
                    THEN [left |-> IF applied THEN Window ELSE 0, renewed |-> FALSE]
                    ELSE e.gate[p]
    BY DEF SetLive, SetFrozen
  <2>3. Closed([left |-> IF applied THEN Window ELSE 0, renewed |-> FALSE]) = applied
    BY FreezeParameters DEF Closed
  <2> QED  BY <1>1, <2>1, <2>2, <2>3
<1>3. s.bit5 = applied /\ s = [gate |-> s.gate, bit5 |-> applied] /\ DOMAIN s.gate = Pallets
  BY DEF SetLive
<1>4. s.gate = [p \in Pallets |-> s.gate[p]]
  BY DEF SetLive
<1> QED  BY <1>2, <1>3, <1>4

(* Extending is well formed too, and leaves the two gates alike.           *)
LEMMA ExtendEffect ==
    ASSUME NEW e \in [gate : [Pallets -> Gates], bit5 : BOOLEAN]
    PROVE  /\ Extend(e) \in [gate : [Pallets -> Gates], bit5 : BOOLEAN]
           /\ Extend(e).bit5 = e.bit5
           /\ \A p \in Pallets : Extend(e).gate[p] = [left |-> Window, renewed |-> TRUE]
<1>1. [left |-> Window, renewed |-> TRUE] \in Gates
  BY FreezeParameters DEF Gates
<1> QED  BY <1>1 DEF Extend

(* Time passing shortens each gate by at most a block and changes nothing  *)
(* else.                                                                   *)
LEMMA AgedEffect ==
    ASSUME NEW e \in [gate : [Pallets -> Gates], bit5 : BOOLEAN]
    PROVE  /\ Aged(e) \in [gate : [Pallets -> Gates], bit5 : BOOLEAN]
           /\ Aged(e).bit5 = e.bit5
           /\ \A p \in Pallets : /\ Aged(e).gate[p].left = Elapse(e.gate[p].left)
                                 /\ Aged(e).gate[p].renewed = e.gate[p].renewed
<1>1. ASSUME NEW g \in Gates
      PROVE  [g EXCEPT !.left = Elapse(@)] \in Gates
  <2>1. Elapse(g.left) \in 0 .. Window
    BY FreezeParameters DEF Elapse, Gates
  <2> QED  BY <2>1 DEF Gates
<1>2. \A p \in Pallets : Aged(e).gate[p] = [e.gate[p] EXCEPT !.left = Elapse(@)]
  BY DEF Aged
<1>3. \A p \in Pallets : e.gate[p] \in Gates
  OBVIOUS
<1>4. Aged(e) \in [gate : [Pallets -> Gates], bit5 : BOOLEAN] /\ Aged(e).bit5 = e.bit5
  BY <1>1, <1>3 DEF Aged
<1> QED  BY <1>2, <1>3, <1>4 DEF Gates

-----------------------------------------------------------------------------
(* The invariant as a relation between a record and an effect, so that it  *)
(* can be carried through the two halves of a block.                       *)

Records == [active : BOOLEAN, left : 0 .. Window, renewals : 0 .. Renewals]
Effects == [gate : [Pallets -> Gates], bit5 : BOOLEAN]

Consistent(pb, e) ==
    /\ pb \in Records /\ e \in Effects
    /\ e.gate["Ledger"] = e.gate["Market"]
    /\ Closed(e.gate["Ledger"]) => /\ e.bit5
                                   /\ pb.active
                                   /\ e.gate["Ledger"].left >= pb.left
                                   /\ pb.renewals = 0 => ~e.gate["Ledger"].renewed

(* Switching the effect off is consistent with any record.                 *)
LEMMA OffIsConsistent ==
    ASSUME NEW pb \in Records, NEW e \in Effects, e.gate["Ledger"] = e.gate["Market"]
    PROVE  Consistent(pb, SetLive(e, FALSE)) /\ ~Closed(SetLive(e, FALSE).gate["Ledger"])
<1> DEFINE s == SetLive(e, FALSE)
<1>1. s \in Effects
  BY SetLiveEffect DEF Effects
<1>2. \A p \in Pallets : ~Closed(s.gate[p])
  BY SetLiveEffect DEF Effects
<1>3. s.gate["Ledger"] = s.gate["Market"]
  BY DEF SetLive, SetFrozen, Pallets
<1>4. ~Closed(s.gate["Ledger"])
  BY <1>2 DEF Pallets
<1>5. Consistent(pb, s)
  <2> HIDE DEF s
  <2> QED  BY <1>1, <1>3, <1>4 DEF Consistent
<1> QED  BY <1>4, <1>5

(* Switching it on is consistent with any record that stands, when what is *)
(* already closed is: a gate that opens lasts a whole window.              *)
LEMMA OnIsConsistent ==
    ASSUME NEW pb \in Records, NEW e \in Effects, Consistent(pb, e), pb.active
    PROVE  Consistent(pb, SetLive(e, TRUE))
<1> DEFINE s == SetLive(e, TRUE)
<1>1. s \in Effects /\ s.bit5
  BY SetLiveEffect DEF Effects
<1>2. CASE Closed(e.gate["Ledger"])
  <2>1. s.gate["Ledger"] = e.gate["Ledger"] /\ s.gate["Market"] = e.gate["Market"]
    BY <1>2, SetLiveEffect DEF Effects, Pallets, Consistent
  <2> QED  BY <1>1, <2>1 DEF Consistent
<1>3. CASE ~Closed(e.gate["Ledger"])
  <2>1. ASSUME NEW p \in Pallets
        PROVE  s.gate[p] = [left |-> Window, renewed |-> FALSE]
    <3>1. ~Closed(e.gate[p])
      BY <1>3 DEF Consistent, Pallets
    <3> QED  BY <3>1, SetLiveEffect DEF Effects, Closed
  <2>2. s.gate["Ledger"] = [left |-> Window, renewed |-> FALSE] /\ s.gate["Market"] = s.gate["Ledger"]
    BY <2>1 DEF Pallets
  <2>3. pb.left <= Window
    BY FreezeParameters DEF Records
  <2>4. s.gate["Ledger"].left = Window /\ ~s.gate["Ledger"].renewed
    <3> HIDE DEF s
    <3> QED  BY <2>2
  <2>5. s.gate["Ledger"].left >= pb.left
    BY <2>3, <2>4
  <2>6. Consistent(pb, s)
    <3> HIDE DEF s
    <3> QED  BY <1>1, <2>2, <2>4, <2>5 DEF Consistent
  <2> QED  BY <2>6
<1> QED  BY <1>2, <1>3

(* A block that passes shortens record and gates together.                 *)
LEMMA AgingIsConsistent ==
    ASSUME NEW pb \in Records, NEW e \in Effects, Consistent(pb, e)
    PROVE  Consistent([pb EXCEPT !.left = Elapse(@)], Aged(e))
<1> DEFINE p1 == [pb EXCEPT !.left = Elapse(@)]
           a  == Aged(e)
<1>1. Elapse(pb.left) \in 0 .. Window
  BY FreezeParameters DEF Elapse, Records
<1>2. p1 \in Records /\ p1.left = Elapse(pb.left) /\ p1.active = pb.active /\ p1.renewals = pb.renewals
  BY <1>1 DEF Records
<1>3. a \in Effects /\ a.bit5 = e.bit5
  BY AgedEffect DEF Effects
<1>4. \A p \in Pallets : a.gate[p].left = Elapse(e.gate[p].left) /\ a.gate[p].renewed = e.gate[p].renewed
  BY AgedEffect DEF Effects
<1>5. \A p \in Pallets : a.gate[p] \in Gates
  BY <1>3 DEF Effects
<1>6. a.gate["Ledger"] = a.gate["Market"]
  BY <1>4, <1>5 DEF Consistent, Pallets, Gates
<1>7. e.gate["Ledger"].left \in 0 .. Window /\ pb.left \in 0 .. Window
  BY DEF Effects, Records, Gates, Pallets
<1>8. Closed(a.gate["Ledger"]) => Closed(e.gate["Ledger"])
  BY <1>4, <1>7, FreezeParameters DEF Closed, Elapse, Pallets
<1>9. Closed(a.gate["Ledger"]) => a.gate["Ledger"].left >= p1.left
  BY <1>2, <1>4, <1>7, <1>8, FreezeParameters DEF Consistent, Elapse, Closed, Pallets
<1> QED  BY <1>2, <1>3, <1>4, <1>6, <1>8, <1>9 DEF Consistent, Pallets

(* What the maintenance layer leaves is consistent, whatever it finds.     *)
LEMMA MaintenanceIsConsistent ==
    ASSUME NEW pb \in Records, NEW e \in Effects, Consistent(pb, e), drifted \in BOOLEAN
    PROVE  Consistent(Maintained(pb, e).playbook, Maintained(pb, e).effect)
<1> DEFINE should  == pb.active /\ pb.left > 0 /\ drifted
           synced  == IF Matches(e, should) THEN e ELSE SetLive(e, should)
           expired == pb.active /\ pb.left = 0
<1>1. Consistent(pb, synced)
  <2>1. CASE Matches(e, should)
    BY <2>1
  <2>2. CASE ~Matches(e, should) /\ should
    <3>1. synced = SetLive(e, TRUE)
      BY <2>2
    <3> QED  BY <2>2, <3>1, OnIsConsistent
  <2>3. CASE ~Matches(e, should) /\ ~should
    <3>1. synced = SetLive(e, FALSE)
      BY <2>3
    <3> QED  BY <3>1, OffIsConsistent DEF Consistent
  <2> QED  BY <2>1, <2>2, <2>3
<1>2. synced \in Effects /\ synced.gate["Ledger"] = synced.gate["Market"]
  BY <1>1 DEF Consistent
<1>3. CASE expired
  <2>1. Inactive \in Records
    BY FreezeParameters DEF Inactive, Records
  <2>2. Maintained(pb, e) = [playbook |-> Inactive, effect |-> SetLive(synced, FALSE)]
    BY <1>3 DEF Maintained
  <2> HIDE DEF synced
  <2>3. Consistent(Inactive, SetLive(synced, FALSE))
    BY <1>2, <2>1, OffIsConsistent
  <2>4. Maintained(pb, e).playbook = Inactive /\ Maintained(pb, e).effect = SetLive(synced, FALSE)
    BY <2>2
  <2> QED  BY <2>3, <2>4
<1>4. CASE ~expired
  <2>1. Maintained(pb, e) = [playbook |-> pb, effect |-> synced]
    BY <1>4 DEF Maintained
  <2> QED  BY <1>1, <2>1
<1> QED  BY <1>3, <1>4

-----------------------------------------------------------------------------
(* The actions.                                                            *)

(* The invariant in the form the actions are checked against.              *)
PairInv == Consistent(playbook, effect) /\ drifted \in BOOLEAN /\ short \in BOOLEAN
                                        /\ streak \in 0 .. Ceiling + 1

(* A fifth approval meets no freeze, since no record stands.               *)
LEMMA ActivateStep ==
    ASSUME PairInv, NEW left \in 0 .. Window, Activate(left)
    PROVE  Consistent(playbook', effect')
<1> DEFINE s == SetLive(effect, TRUE)
<1>1. playbook' \in Records /\ playbook'.active /\ playbook'.renewals = 0 /\ playbook'.left = left
  BY FreezeParameters DEF Activate, Records
<1>2. effect \in Effects /\ ~Closed(effect.gate["Ledger"]) /\ effect' = s
  BY DEF PairInv, Consistent, Activate
<1>3. Consistent(playbook', effect)
  BY <1>1, <1>2 DEF PairInv, Consistent
<1>4. Consistent(playbook', s)
  BY <1>1, <1>2, <1>3, OnIsConsistent
<1> QED  BY <1>2, <1>4

(* A renewal moves the record and both gates to the same new deadline, or  *)
(* leaves the gates open.                                                  *)
LEMMA RenewStep ==
    ASSUME PairInv, Renew
    PROVE  Consistent(playbook', effect')
<1>1. /\ playbook' \in Records /\ playbook'.active
      /\ playbook'.left = Window /\ playbook'.renewals # 0
  <2>1. /\ playbook \in [active : BOOLEAN, left : 0 .. Window, renewals : 0 .. Renewals]
        /\ playbook.active /\ playbook.renewals < Renewals
        /\ playbook' = [playbook EXCEPT !.left = Window, !.renewals = playbook.renewals + 1]
    BY DEF PairInv, Consistent, Renew, Records
  <2>2. playbook.renewals + 1 \in 0 .. Renewals /\ playbook.renewals + 1 # 0
    BY <2>1, FreezeParameters
  <2>3. Window \in 0 .. Window
    BY FreezeParameters
  <2> QED  BY <2>1, <2>2, <2>3 DEF Records
<1>2. effect \in Effects /\ effect.gate["Ledger"] = effect.gate["Market"]
  BY DEF PairInv, Consistent
<1>3. CASE ~drifted /\ effect' = SetLive(effect, FALSE)
  BY <1>1, <1>2, <1>3, OffIsConsistent
<1>4. CASE drifted /\ ~Matches(effect, TRUE) /\ effect' = SetLive(effect, TRUE)
  <2> DEFINE s == SetLive(effect, TRUE)
  <2>1. CASE Closed(effect.gate["Ledger"])
    <3>1. Closed(effect.gate["Market"]) /\ effect.bit5
      BY <1>2, <2>1 DEF PairInv, Consistent
    <3>2. Matches(effect, TRUE)
      BY <1>2, <2>1, <3>1 DEF Matches, Pallets, Closed, Effects
    <3> QED  BY <1>4, <3>2
  <2>2. CASE ~Closed(effect.gate["Ledger"])
    <3>1. Consistent(playbook', effect)
      BY <1>1, <1>2, <2>2 DEF Consistent
    <3>2. Consistent(playbook', s)
      BY <1>1, <1>2, <3>1, OnIsConsistent
    <3> QED  BY <1>4, <3>2
  <2> QED  BY <2>1, <2>2
<1>5. CASE drifted /\ Matches(effect, TRUE) /\ effect' = Extend(effect)
  <2>1. effect' \in Effects /\ effect'.bit5 = effect.bit5
    BY <1>2, <1>5, ExtendEffect DEF Effects
  <2>2. /\ effect'.gate["Ledger"] = [left |-> Window, renewed |-> TRUE]
        /\ effect'.gate["Market"] = [left |-> Window, renewed |-> TRUE]
    BY <1>2, <1>5, ExtendEffect DEF Effects, Pallets
  <2>3. effect'.bit5
    BY <1>5, <2>1 DEF Matches
  <2>4. effect'.gate["Ledger"].left = Window
    BY <2>2
  <2> QED  BY <1>1, <2>1, <2>2, <2>3, <2>4, FreezeParameters DEF Consistent
<1> QED  BY <1>3, <1>4, <1>5 DEF Renew

(* A block: the aged pair is consistent, with the maintenance or without.  *)
LEMMA BlockStep ==
    ASSUME PairInv, NextBlock
    PROVE  Consistent(playbook', effect') /\ streak' \in 0 .. Ceiling + 1
<1> DEFINE p1 == [playbook EXCEPT !.left = Elapse(@)]
           a  == Aged(effect)
           m  == Maintained(p1, a)
<1>1. Consistent(p1, a)
  BY AgingIsConsistent DEF PairInv, Consistent
<1>2. p1 \in Records /\ a \in Effects
  BY <1>1 DEF Consistent
<1>3. Consistent(m.playbook, m.effect)
  <2> HIDE DEF p1, a
  <2> QED  BY <1>1, <1>2, MaintenanceIsConsistent DEF PairInv
<1>4. \/ playbook' = p1 /\ effect' = a
      \/ playbook' = m.playbook /\ effect' = m.effect
  BY DEF NextBlock
<1>5. streak' \in 0 .. Ceiling + 1
  BY FreezeParameters DEF NextBlock, PairInv, Ceiling
<1>6. Consistent(playbook', effect')
  <2> HIDE DEF p1, a, m
  <2> QED  BY <1>1, <1>3, <1>4
<1> QED  BY <1>5, <1>6

LEMMA PairInvStep == PairInv /\ [Next]_vars => PairInv'
<1> SUFFICES ASSUME PairInv, [Next]_vars
             PROVE  PairInv'
  OBVIOUS
<1>1. ASSUME NEW s \in BOOLEAN, Shift(s)
      PROVE  PairInv'
  BY <1>1 DEF Shift, PairInv, Consistent, Records, Effects
<1>2. CASE Reconcile
  BY <1>2 DEF Reconcile, PairInv, Consistent, Records, Effects
<1>3. ASSUME NEW left \in 0 .. Window, Activate(left)
      PROVE  PairInv'
  <2>1. Consistent(playbook', effect')
    BY <1>3, ActivateStep
  <2>2. UNCHANGED <<short, drifted, streak>>
    BY <1>3 DEF Activate
  <2> QED  BY <2>1, <2>2 DEF PairInv, Ceiling, Consistent, Records, Effects, Gates
<1>4. CASE Renew
  <2>1. Consistent(playbook', effect')
    BY <1>4, RenewStep
  <2>2. UNCHANGED <<short, drifted, streak>>
    BY <1>4 DEF Renew
  <2> QED  BY <2>1, <2>2 DEF PairInv, Ceiling, Consistent, Records, Effects, Gates
<1>5. CASE NextBlock
  <2>1. Consistent(playbook', effect') /\ streak' \in 0 .. Ceiling + 1
    BY <1>5, BlockStep
  <2>2. UNCHANGED <<short, drifted>>
    BY <1>5 DEF NextBlock
  <2> QED  BY <2>1, <2>2 DEF PairInv, Ceiling, Consistent, Records, Effects, Gates
<1>6. CASE UNCHANGED vars
  BY <1>6 DEF vars, PairInv, Consistent, Records, Effects
<1> QED  BY <1>1, <1>2, <1>3, <1>4, <1>5, <1>6 DEF Next

-----------------------------------------------------------------------------
(* The theorems.                                                           *)

LEMMA PairInvInit == Init => PairInv
<1> SUFFICES ASSUME Init
             PROVE  PairInv
  OBVIOUS
<1>1. Inactive \in Records
  BY FreezeParameters DEF Inactive, Records
<1>2. [left |-> 0, renewed |-> FALSE] \in Gates
  BY FreezeParameters DEF Gates
<1>3. effect \in Effects
  BY <1>2 DEF Init, Effects
<1>4. /\ effect.gate["Ledger"] = [left |-> 0, renewed |-> FALSE]
      /\ effect.gate["Market"] = [left |-> 0, renewed |-> FALSE]
  BY DEF Init, Pallets
<1>5. ~Closed(effect.gate["Ledger"])
  BY <1>4 DEF Closed
<1>6. 0 \in 0 .. Ceiling + 1
  BY FreezeParameters DEF Ceiling
<1> QED  BY <1>1, <1>3, <1>4, <1>5, <1>6 DEF PairInv, Consistent, Init

LEMMA PairInvAlways == Spec => []PairInv
BY PairInvInit, PairInvStep, PTL DEF Spec

(* What the pair invariant says in the words of the properties.            *)
LEMMA PairInvMeans == PairInv => FreezeInv
<1> SUFFICES ASSUME PairInv
             PROVE  FreezeInv
  OBVIOUS
<1>1. /\ playbook \in Records /\ effect \in Effects
      /\ effect.gate["Ledger"] = effect.gate["Market"]
  BY DEF PairInv, Consistent
<1>2. TypeOK
  BY <1>1 DEF PairInv, TypeOK, Records, Effects
<1>3. GatesAgree
  BY <1>1 DEF PairInv, Consistent, GatesAgree, Frozen
<1>4. NoOrphanFreeze /\ NoLapse
  BY DEF PairInv, Consistent, NoOrphanFreeze, NoLapse, Frozen
<1>5. RenewalUsable
  <2> SUFFICES ASSUME playbook.active, playbook.renewals = 0, Frozen
               PROVE  Extendable(effect)
    BY DEF RenewalUsable
  <2>1. Closed(effect.gate["Ledger"]) /\ ~effect.gate["Ledger"].renewed
    BY DEF PairInv, Consistent, Frozen
  <2> QED  BY <1>1, <2>1 DEF Extendable, Pallets
<1> QED  BY <1>2, <1>3, <1>4, <1>5 DEF FreezeInv

(* Switching off, or leaving a gate, never moves a deadline out.           *)
LEMMA OffShortens ==
    ASSUME NEW e \in Effects, NEW p \in Pallets
    PROVE  /\ SetLive(e, FALSE).gate[p].left \in 0 .. Window
           /\ e.gate[p].left \in 0 .. Window
           /\ SetLive(e, FALSE).gate[p].left <= e.gate[p].left
<1> DEFINE s == SetLive(e, FALSE)
<1>1. e.gate[p] \in Gates
  BY DEF Effects
<1>2. e.gate[p].left \in 0 .. Window
  BY <1>1 DEF Gates
<1>3. s.gate[p] = IF e.gate[p].left > 0 THEN [left |-> 0, renewed |-> FALSE] ELSE e.gate[p]
  <2>1. s.gate[p] = IF Closed(e.gate[p]) # FALSE THEN SetFrozen(e.gate[p], FALSE) ELSE e.gate[p]
    BY DEF SetLive
  <2>2. SetFrozen(e.gate[p], FALSE) = [left |-> 0, renewed |-> FALSE]
    BY DEF SetFrozen
  <2> HIDE DEF s
  <2>4. CASE e.gate[p].left > 0
    BY <2>1, <2>2, <2>4 DEF Closed
  <2>5. CASE ~(e.gate[p].left > 0)
    <3>1. Closed(e.gate[p]) = FALSE
      BY <2>5 DEF Closed
    <3>2. s.gate[p] = e.gate[p]
      BY <2>1, <3>1
    <3> QED  BY <2>5, <3>2
  <2> QED  BY <2>4, <2>5
<1>4. s.gate[p].left = IF e.gate[p].left > 0 THEN 0 ELSE e.gate[p].left
  <2> HIDE DEF s
  <2> QED  BY <1>3
<1> HIDE DEF s
<1>5. s.gate[p].left \in 0 .. Window /\ s.gate[p].left <= e.gate[p].left
  BY <1>2, <1>4, FreezeParameters
<1> QED  BY <1>2, <1>5 DEF s

(* A block moves a deadline out only when the maintenance finds the record *)
(* standing and the latch set.                                             *)
LEMMA BlockOnDrift ==
    ASSUME PairInv, NextBlock, NEW p \in Pallets,
           effect'.gate[p].left > effect.gate[p].left
    PROVE  drifted /\ playbook'.active
<1> DEFINE p1      == [playbook EXCEPT !.left = Elapse(@)]
           a       == Aged(effect)
           should  == p1.active /\ p1.left > 0 /\ drifted
           synced  == IF Matches(a, should) THEN a ELSE SetLive(a, should)
           expired == p1.active /\ p1.left = 0
           m       == Maintained(p1, a)
<1>1. Consistent(p1, a)
  BY AgingIsConsistent DEF PairInv, Consistent
<1>2. a \in Effects /\ effect \in Effects
  BY <1>1 DEF PairInv, Consistent
<1>3. a.gate[p].left <= effect.gate[p].left
  <2>1. a.gate[p].left = Elapse(effect.gate[p].left)
    BY <1>2, AgedEffect DEF Effects
  <2>2. effect.gate[p].left \in 0 .. Window
    BY <1>2 DEF Effects, Gates
  <2> QED  BY <2>1, <2>2, FreezeParameters DEF Elapse
<1>4. /\ a.gate[p].left \in 0 .. Window /\ effect.gate[p].left \in 0 .. Window
      /\ SetLive(a, FALSE).gate[p].left <= a.gate[p].left
  BY <1>2, OffShortens DEF Effects, Gates
<1>5. effect' # a
  BY <1>3, <1>4, FreezeParameters
<1>6. playbook' = m.playbook /\ effect' = m.effect
  <2>1. \/ playbook' = p1 /\ effect' = a
        \/ playbook' = m.playbook /\ effect' = m.effect
    BY DEF NextBlock
  <2> HIDE DEF p1, a, m
  <2> QED  BY <1>5, <2>1
<1>7. m = [playbook |-> IF expired THEN Inactive ELSE p1,
           effect   |-> IF expired THEN SetLive(synced, FALSE) ELSE synced]
  BY DEF Maintained
<1> HIDE DEF p1, a, m
<1>8. CASE should
  <2>1. ~expired
    BY <1>8
  <2>2. m.playbook = p1
    BY <1>7, <2>1
  <2> QED  BY <1>6, <1>8, <2>2
<1>9. CASE ~should
  <2>1. synced \in {a, SetLive(a, FALSE)}
    BY <1>9
  <2>2. SetLive(a, FALSE) \in Effects
    BY <1>2, SetLiveEffect DEF Effects
  <2>3. synced \in Effects /\ synced.gate[p].left <= a.gate[p].left
    <3> HIDE DEF synced
    <3>1. CASE synced = a
      BY <1>2, <1>4, <3>1, FreezeParameters
    <3>2. CASE synced = SetLive(a, FALSE)
      BY <1>4, <2>2, <3>2
    <3> QED  BY <2>1, <3>1, <3>2
  <2>4. /\ synced.gate[p].left \in 0 .. Window
        /\ SetLive(synced, FALSE) \in Effects
        /\ SetLive(synced, FALSE).gate[p].left <= synced.gate[p].left
    <3> HIDE DEF synced
    <3> QED  BY <2>3, OffShortens, SetLiveEffect DEF Effects, Gates
  <2>5. SetLive(synced, FALSE).gate[p].left \in 0 .. Window
    <3> HIDE DEF synced
    <3> QED  BY <2>4 DEF Effects, Gates
  <2>6. effect' \in {synced, SetLive(synced, FALSE)}
    <3>1. m.effect \in {synced, SetLive(synced, FALSE)}
      <4> HIDE DEF synced
      <4> QED  BY <1>7
    <3> QED  BY <1>6, <3>1
  <2>7. effect'.gate[p].left <= a.gate[p].left
    <3> HIDE DEF synced
    <3>1. CASE effect' = synced
      BY <2>3, <3>1
    <3>2. CASE effect' = SetLive(synced, FALSE)
      <4>1. SetLive(synced, FALSE).gate[p].left <= a.gate[p].left
        <5>1. \A i, j, k \in 0 .. Window : i <= j /\ j <= k => i <= k
          BY FreezeParameters
        <5> QED  BY <1>4, <2>3, <2>4, <2>5, <5>1
      <4> QED  BY <3>2, <4>1
    <3> QED  BY <2>6, <3>1, <3>2
  <2>8. effect'.gate[p].left \in 0 .. Window
    <3> HIDE DEF synced
    <3> QED  BY <2>4, <2>5, <2>6
  <2> QED  BY <1>3, <1>4, <2>7, <2>8, FreezeParameters
<1> QED  BY <1>8, <1>9

(* Every reachable state is of its type: the renewals of a record never    *)
(* pass the limit, and no deadline is further away than a window.          *)
THEOREM FreezeTypeCorrect == Spec => []TypeOK
BY PairInvAlways, PairInvMeans, PTL DEF FreezeInv

(* The ledger and the market are frozen together and until the same block, *)
(* and bit 5 shows it, whether or not the maintenance layer works.         *)
THEOREM GatesAlwaysAgree == Spec => []GatesAgree
BY PairInvAlways, PairInvMeans, PTL DEF FreezeInv

(* A freeze never outlives its record, nor a record its freeze: what is    *)
(* frozen is authorized, and stays frozen for as long as it is.            *)
THEOREM NeverOrphaned == Spec => []NoOrphanFreeze
BY PairInvAlways, PairInvMeans, PTL DEF FreezeInv

(* No gap opens between the two windows of a renewed freeze.               *)
THEOREM NeverLapses == Spec => []NoLapse
BY PairInvAlways, PairInvMeans, PTL DEF FreezeInv

(* A record that was not renewed can be: no flag left by an earlier freeze *)
(* makes extend_freeze_once refuse what the guardian core granted.         *)
THEOREM RenewalAlwaysUsable == Spec => []RenewalUsable
BY PairInvAlways, PairInvMeans, PTL DEF FreezeInv

(* No step closes a gate anew, or moves its deadline out, unless the drift *)
(* latch is set and a record authorizes it.                                *)
THEOREM FrozenOnlyOnDrift == Spec => FreezeOnlyOnDrift
<1> DEFINE Out(p) == effect'.gate[p].left > effect.gate[p].left
           A == \A p \in Pallets : Out(p) => drifted /\ playbook'.active
<1>1. PairInv /\ [Next]_vars => [A]_vars
  <2> SUFFICES ASSUME PairInv, [Next]_vars, ~UNCHANGED vars,
                      NEW p \in Pallets, Out(p)
               PROVE  drifted /\ playbook'.active
    OBVIOUS
  <2>1. effect.gate[p].left \in 0 .. Window /\ effect \in Effects
    BY DEF PairInv, Consistent, Effects, Gates
  <2>2. effect' # effect
    BY <2>1, FreezeParameters
  <2>3. ASSUME NEW left \in 0 .. Window, Activate(left)
        PROVE  drifted /\ playbook'.active
    BY <2>3 DEF Activate
  <2>4. CASE Renew
    <3>1. effect' # SetLive(effect, FALSE)
      <4> SUFFICES ASSUME effect' = SetLive(effect, FALSE)
                   PROVE  FALSE
        OBVIOUS
      <4>1. /\ SetLive(effect, FALSE).gate[p].left <= effect.gate[p].left
            /\ SetLive(effect, FALSE) \in Effects
        BY <2>1, OffShortens, SetLiveEffect DEF Effects
      <4>2. SetLive(effect, FALSE).gate[p].left \in 0 .. Window
        BY <4>1 DEF Effects, Gates
      <4>3. effect'.gate[p].left <= effect.gate[p].left /\ effect'.gate[p].left \in 0 .. Window
        BY <4>1, <4>2
      <4>4. effect'.gate[p].left > effect.gate[p].left
        OBVIOUS
      <4>5. \A i, j \in 0 .. Window : i <= j => ~(i > j)
        BY FreezeParameters
      <4> QED  BY <2>1, <4>3, <4>4, <4>5
    <3>2. playbook'.active
      BY <2>4 DEF Renew, PairInv, Consistent, Records
    <3> QED  BY <2>4, <3>1, <3>2 DEF Renew
  <2>5. CASE NextBlock
    BY <2>5, BlockOnDrift
  <2>6. ~Reconcile /\ \A s \in BOOLEAN : ~Shift(s)
    BY <2>2 DEF Reconcile, Shift
  <2> QED  BY <2>3, <2>4, <2>5, <2>6 DEF Next
<1>2. [][Next]_vars /\ []PairInv => FreezeOnlyOnDrift
  BY <1>1, PTL DEF FreezeOnlyOnDrift
<1> QED  BY <1>2, PairInvAlways, PTL DEF Spec

=============================================================================
