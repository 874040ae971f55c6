---- MODULE LocalIndexProofs ----
(***************************************************************************)
(* What the local index guarantees for any number of tabs, blocks, header  *)
(* sources, corruptions and boots.                                         *)
(***************************************************************************)
EXTENDS LocalIndex, Sums

USE BlocksAssumption, WatchedAssumption, SelfAssumption, NobodyAssumption,
    EarlierAssumption, ChartedAssumption, BoundsAssumption

----------------------------------------------------------------------------
(* The algebra of ranges.                                                  *)

(* A block ingested behind src, as the range AddRange is given.            *)
LEMMA SingleRange ==
    ASSUME NEW src \in Sources, NEW n \in Blocks, NEW edge \in Edges
    PROVE  /\ RangeForSource(src, n, edge) \in CoverageRange
           /\ RangeForSource(src, n, edge).from = n
           /\ RangeForSource(src, n, edge).to = n
           /\ RangeForSource(src, n, edge).src = src
           /\ RangeForSource(src, n, edge).edge = edge
  BY DEF RangeForSource, CoverageRange

(* What AddRange makes of a block: one range, from the lowest to the       *)
(* highest end of those it joins, all of which touch the block.            *)
LEMMA AddRangeShape ==
    ASSUME NEW cov \in SUBSET CoverageRange, IsCanonical(cov),
           NEW r \in CoverageRange, r.from = r.to
    PROVE  \E low \in cov \cup {r}, top \in cov \cup {r}, new \in CoverageRange :
              /\ AddRange(cov, r) = {a \in cov : ~Touch(a, r)} \cup {new}
              /\ low = r \/ Touch(low, r)
              /\ top = r \/ Touch(top, r)
              /\ \A b \in cov : Touch(b, r) => low.from <= b.from /\ b.to <= top.to
              /\ low.from <= r.from /\ r.to <= top.to
              /\ new.from = low.from /\ new.to = top.to
              /\ new.src = r.src /\ new.edge = top.edge
<1> DEFINE J == {a \in cov : Touch(a, r)}
           K == J \cup {r}
           IsLow(a) == \A b \in K : a.from <= b.from
           IsTop(a) == (\A b \in K : b.to <= a.to) /\ (a.to = r.to => a = r)
           low == CHOOSE a \in K : IsLow(a)
           top == CHOOSE a \in K : IsTop(a)
           new == [from |-> low.from, to |-> top.to, src |-> r.src, edge |-> top.edge]
<1>0. \A a \in K : /\ a \in CoverageRange /\ a.from \in Int /\ a.to \in Int
                   /\ a.from \in Blocks /\ a.to \in Blocks
                   /\ a.from <= a.to /\ a.src = r.src /\ a.edge \in Edges
                   /\ a.from <= r.from + 1 /\ a.to >= r.to - 1
  <2>1. \A a \in K : a \in CoverageRange
    OBVIOUS
  <2>2. \A a \in CoverageRange : /\ a.from \in Blocks /\ a.to \in Blocks
                                 /\ a.from \in Int /\ a.to \in Int
                                 /\ a.from <= a.to /\ a.edge \in Edges
    BY DEF CoverageRange
  <2>3. \A a \in J : a.src = r.src /\ a.from <= r.from + 1 /\ a.to >= r.to - 1
    BY <2>1, <2>2 DEF Touch
  <2>4. r.from <= r.from + 1 /\ r.to >= r.to - 1
    BY <2>2
  <2> QED  BY <2>1, <2>2, <2>3, <2>4
<1>1. \E a \in K : IsLow(a)
  <2>1. CASE \E a \in J : a.from < r.from
    <3>1. PICK a \in J : a.from < r.from
      BY <2>1
    <3>2. ASSUME NEW b \in K, b.from < a.from PROVE FALSE
      <4>1. b \in J
        BY <3>1, <3>2, <1>0
      <4>2. Touch(a, b)
        BY <4>1, <3>1, <3>2, <1>0 DEF Touch
      <4> QED  BY <4>1, <4>2, <3>2, <1>0 DEF IsCanonical
    <3> QED  BY <3>2, <1>0
  <2>2. CASE \A a \in J : ~(a.from < r.from)
    <3>1. IsLow(r)
      BY <2>2, <1>0
    <3> QED  BY <3>1
  <2> QED  BY <2>1, <2>2
<1>2. \E a \in K : IsTop(a)
  <2>1. CASE \E a \in J : a.to > r.to
    <3>1. PICK a \in J : a.to > r.to
      BY <2>1
    <3>2. ASSUME NEW b \in K, b.to > a.to PROVE FALSE
      <4>1. b \in J
        BY <3>1, <3>2, <1>0
      <4>2. Touch(a, b)
        BY <4>1, <3>1, <3>2, <1>0 DEF Touch
      <4> QED  BY <4>1, <4>2, <3>2, <1>0 DEF IsCanonical
    <3>3. IsTop(a)
      BY <3>1, <3>2, <1>0
    <3> QED  BY <3>3
  <2>2. CASE \A a \in J : ~(a.to > r.to)
    <3>1. IsTop(r)
      BY <2>2, <1>0
    <3> QED  BY <3>1
  <2> QED  BY <2>1, <2>2
<1>3. low \in K /\ IsLow(low)
  BY <1>1
<1>4. top \in K /\ IsTop(top)
  BY <1>2
<1>5. AddRange(cov, r) = (cov \ J) \cup {new}
  BY DEF AddRange
<1> HIDE DEF low, top
<1>6. /\ new \in CoverageRange
      /\ new.from = low.from /\ new.to = top.to /\ new.src = r.src /\ new.edge = top.edge
      /\ low.from <= r.from /\ r.to <= top.to
  BY <1>0, <1>3, <1>4 DEF CoverageRange
<1>7. cov \ J = {a \in cov : ~Touch(a, r)}
  OBVIOUS
<1>8. \A b \in cov : Touch(b, r) => low.from <= b.from /\ b.to <= top.to
  BY <1>3, <1>4
<1>9. low \in cov \cup {r} /\ top \in cov \cup {r}
  BY <1>3, <1>4
<1>10. (low = r \/ Touch(low, r)) /\ (top = r \/ Touch(top, r))
  BY <1>3, <1>4
<1> QED  BY <1>5, <1>6, <1>7, <1>8, <1>9, <1>10

(* Adding a block to a canonical set gives a canonical set that claims what *)
(* the set claimed, and the block, and nothing else.                        *)
LEMMA AddRangeSound ==
    ASSUME NEW cov \in SUBSET CoverageRange, IsCanonical(cov),
           NEW src \in Sources, NEW n \in Blocks, NEW edge \in Edges
    PROVE  LET sum == AddRange(cov, RangeForSource(src, n, edge))
           IN  /\ sum \subseteq CoverageRange
               /\ IsCanonical(sum)
               /\ Claims(sum) = Claims(cov) \cup {<<n, src>>}
<1> DEFINE r == RangeForSource(src, n, edge)
           sum == AddRange(cov, r)
           rest == {a \in cov : ~Touch(a, r)}
<1>r. r \in CoverageRange /\ r.from = n /\ r.to = n /\ r.src = src
  BY SingleRange
<1> HIDE DEF r
<1>1. PICK low \in cov \cup {r}, top \in cov \cup {r}, new \in CoverageRange :
              /\ sum = rest \cup {new}
              /\ low = r \/ Touch(low, r)
              /\ top = r \/ Touch(top, r)
              /\ \A b \in cov : Touch(b, r) => low.from <= b.from /\ b.to <= top.to
              /\ low.from <= n /\ n <= top.to
              /\ new.from = low.from /\ new.to = top.to
              /\ new.src = src
  BY <1>r, AddRangeShape
<1> HIDE DEF sum
<1>2. \A a \in cov \cup {r, new} :
         /\ a \in CoverageRange /\ a.from \in Int /\ a.to \in Int
         /\ a.from \in Blocks /\ a.to \in Blocks /\ a.from <= a.to /\ a.src \in Sources
  BY <1>r DEF CoverageRange
<1>3. low.src = src /\ low.to >= n - 1 /\ top.src = src /\ top.from <= n + 1
  BY <1>1, <1>r, <1>2 DEF Touch
<1>4. ASSUME NEW b \in rest PROVE ~Touch(b, new) /\ ~Touch(new, b)
  <2>1. SUFFICES ASSUME b.src = src, b.to >= low.from - 1, top.to >= b.from - 1
                 PROVE  FALSE
    BY <1>1, <1>2 DEF Touch
  <2>2. b.to < n - 1 \/ b.from > n + 1
    BY <2>1, <1>r, <1>2 DEF Touch
  <2>3. CASE b.to < n - 1
    <3>1. low # r
      BY <2>1, <2>3, <1>r, <1>2
    <3>2. Touch(b, low)
      BY <2>1, <2>3, <1>2, <1>3 DEF Touch
    <3>3. b = low
      BY <3>1, <3>2 DEF IsCanonical
    <3> QED  BY <3>1, <3>3, <1>1
  <2>4. CASE b.from > n + 1
    <3>1. top # r
      BY <2>1, <2>4, <1>r, <1>2
    <3>2. Touch(b, top)
      BY <2>1, <2>4, <1>2, <1>3 DEF Touch
    <3>3. b = top
      BY <3>1, <3>2 DEF IsCanonical
    <3> QED  BY <3>1, <3>3, <1>1
  <2> QED  BY <2>2, <2>3, <2>4
<1>5. IsCanonical(sum)
  <2>1. ASSUME NEW a \in sum, NEW b \in sum, Touch(a, b) PROVE a = b
    <3>0. (a \in rest \/ a = new) /\ (b \in rest \/ b = new)
      BY <1>1
    <3>1. CASE a \in rest /\ b \in rest
      BY <3>1, <2>1 DEF IsCanonical
    <3>2. CASE a \in rest /\ b = new
      BY <3>2, <2>1, <1>4
    <3>3. CASE a = new /\ b \in rest
      BY <3>3, <2>1, <1>4
    <3> QED  BY <3>0, <3>1, <3>2, <3>3
  <2> QED  BY <2>1 DEF IsCanonical
<1>6. ASSUME NEW c \in Claims(sum) PROVE c \in Claims(cov) \cup {<<n, src>>}
  <2>0. c \in Blocks \X Sources /\ c[1] \in Int
    BY <1>6 DEF Claims
  <2>1. PICK a \in sum : a.src = c[2] /\ a.from <= c[1] /\ c[1] <= a.to
    BY <1>6 DEF Claims
  <2>2. CASE a \in rest
    BY <2>2, <2>1, <2>0 DEF Claims
  <2>3. CASE a = new
    <3>1. CASE c[1] = n
      <4>1. c[2] = src
        BY <2>1, <2>3, <1>1
      <4> QED  BY <3>1, <4>1, <2>0
    <3>2. CASE c[1] < n
      <4>1. low # r
        BY <3>2, <2>1, <2>3, <1>1, <1>r, <2>0
      <4>2. low.from <= c[1] /\ c[1] <= low.to /\ low.src = c[2]
        BY <3>2, <2>0, <2>1, <2>3, <1>1, <1>2, <1>3
      <4> QED  BY <4>1, <4>2, <2>0 DEF Claims
    <3>3. CASE c[1] > n
      <4>1. top # r
        BY <3>3, <2>1, <2>3, <1>1, <1>r, <2>0
      <4>2. top.from <= c[1] /\ c[1] <= top.to /\ top.src = c[2]
        BY <3>3, <2>0, <2>1, <2>3, <1>1, <1>2, <1>3
      <4> QED  BY <4>1, <4>2, <2>0 DEF Claims
    <3> QED  BY <3>1, <3>2, <3>3, <2>0
  <2> QED  BY <2>1, <2>2, <2>3, <1>1
<1>7. ASSUME NEW c \in Claims(cov) PROVE c \in Claims(sum)
  <2>0. c \in Blocks \X Sources /\ c[1] \in Int
    BY <1>7 DEF Claims
  <2>1. PICK a \in cov : a.src = c[2] /\ a.from <= c[1] /\ c[1] <= a.to
    BY <1>7 DEF Claims
  <2>2. CASE Touch(a, r)
    <3>1. new.src = c[2] /\ new.from <= c[1] /\ c[1] <= new.to
      BY <2>0, <2>1, <2>2, <1>1, <1>2, <1>r DEF Touch
    <3> QED  BY <3>1, <2>0, <1>1 DEF Claims
  <2>3. CASE ~Touch(a, r)
    BY <2>3, <2>0, <2>1, <1>1 DEF Claims
  <2> QED  BY <2>2, <2>3
<1>8. <<n, src>> \in Claims(sum)
  BY <1>1 DEF Claims
<1>9. sum \subseteq CoverageRange
  BY <1>1
<1> QED  BY <1>5, <1>6, <1>7, <1>8, <1>9 DEF r, sum

(* A subset claims no more.                                                *)
LEMMA ClaimsMonotone ==
    ASSUME NEW small, NEW big, small \subseteq big
    PROVE  /\ Claims(small) \subseteq Claims(big)
           /\ ClaimedBlocks(small) \subseteq ClaimedBlocks(big)
           /\ IsCanonical(big) => IsCanonical(small)
  BY DEF Claims, ClaimedBlocks, IsCanonical

(* A block is claimed exactly when some source claims it.                  *)
LEMMA ClaimedBySource ==
    ASSUME NEW cov \in SUBSET CoverageRange
    PROVE  \A n \in Blocks :
              n \in ClaimedBlocks(cov) <=> \E src \in Sources : <<n, src>> \in Claims(cov)
  BY DEF Claims, ClaimedBlocks, CoverageRange

(* A range that no longer reads as one is still the range it was.          *)
LEMMA MarkedRange ==
    ASSUME NEW cov \in SUBSET CoverageRange, NEW r \in cov
    PROVE  LET marked == (cov \ {r}) \cup {[r EXCEPT !.edge = "malformed"]}
           IN  /\ marked \subseteq CoverageRange
               /\ IsCanonical(cov) => IsCanonical(marked)
               /\ Claims(marked) = Claims(cov)
<1> DEFINE bad == [r EXCEPT !.edge = "malformed"]
           marked == (cov \ {r}) \cup {bad}
<1>1. /\ bad \in CoverageRange
      /\ bad.from = r.from /\ bad.to = r.to /\ bad.src = r.src
  BY DEF CoverageRange, Edges
<1> HIDE DEF bad
<1>2. marked \subseteq CoverageRange
  BY <1>1
<1>3. ASSUME IsCanonical(cov), NEW a \in marked, NEW b \in marked, Touch(a, b)
      PROVE  a = b
  <2>1. CASE a = bad /\ b # bad
    BY <2>1, <1>1, <1>3 DEF Touch, IsCanonical
  <2>2. CASE b = bad /\ a # bad
    BY <2>2, <1>1, <1>3 DEF Touch, IsCanonical
  <2> QED  BY <2>1, <2>2, <1>3 DEF IsCanonical
<1>4. Claims(marked) = Claims(cov)
  BY <1>1 DEF Claims
<1> QED  BY <1>2, <1>3, <1>4 DEF IsCanonical, bad

----------------------------------------------------------------------------
(* The steps, sorted by what they do to the coverage sets.                 *)

(* What the loop writes when it commits a block.                           *)
Commit(t, n, src, edge, decoded) ==
    /\ pc[t] = "ingesting"
    /\ writes < MaxWrites
    /\ events' = IF NeedsBodyFetch(n, decoded) THEN [events EXCEPT ![n] = src] ELSE events
    /\ txs' = IF NeedsBodyFetch(n, decoded) THEN [txs EXCEPT ![n] = src] ELSE txs
    /\ raw' = IF decoded THEN raw \ {n} ELSE raw \cup {n}
    /\ coverage' = AddRange(mem[t], RangeForSource(src, n, edge))
    /\ mem' = [mem EXCEPT ![t] = coverage']
    /\ seen' = seen \cup {<<n, src>>}
    /\ writes' = writes + 1
    /\ UNCHANGED <<rawEvicted, archived, chart, holder, pc, pass, raced, faults>>

(* Every commit is one of these.                                           *)
LEMMA WriteBlockCommits ==
    ASSUME NEW t \in Tabs, NEW n \in Blocks, NEW src \in Sources, WriteBlock(t, n, src)
    PROVE  \E edge \in Edges, decoded \in BOOLEAN : Commit(t, n, src, edge, decoded)
<1>1. PICK decoded \in BOOLEAN, edge \in ServedEdges(src) :
          /\ events' = IF NeedsBodyFetch(n, decoded) THEN [events EXCEPT ![n] = src] ELSE events
          /\ txs' = IF NeedsBodyFetch(n, decoded) THEN [txs EXCEPT ![n] = src] ELSE txs
          /\ raw' = IF decoded THEN raw \ {n} ELSE raw \cup {n}
          /\ coverage' = AddRange(mem[t], RangeForSource(src, n, edge))
  BY DEF WriteBlock
<1>2. edge \in Edges
  BY DEF ServedEdges, Edges
<1>3. Commit(t, n, src, edge, decoded)
  BY <1>1 DEF WriteBlock, Commit
<1> QED  BY <1>2, <1>3

(* A step that changes no coverage set but to a part of one that was held. *)
Quiet == \A cov \in Held' : \E old \in Held : cov \subseteq old

(* A boot's read and a run's start leave parts of the stored set in memory. *)
LEMMA ReadsAreQuiet ==
    ASSUME TypeOK, NEW t \in Tabs, BootRead(t) \/ IngestStart(t)
    PROVE  Quiet
<1>1. coverage' = coverage
  BY DEF BootRead, IngestStart
<1>2. \E kept \in SUBSET coverage : mem' = mem \/ mem' = [mem EXCEPT ![t] = kept]
  <2>1. CASE BootRead(t)
    <3>1. PICK asked : LET kept == VerifyRanges(Sanitize(coverage), asked)
                       IN  mem' = mem \/ mem' = [mem EXCEPT ![t] = kept]
      BY <2>1 DEF BootRead
    <3>2. VerifyRanges(Sanitize(coverage), asked) \in SUBSET coverage
      BY DEF VerifyRanges, Sanitize
    <3> QED  BY <3>1, <3>2
  <2>2. CASE IngestStart(t)
    <3>1. PICK asked : mem' = [mem EXCEPT ![t] = VerifyRanges(Sanitize(coverage), asked)]
      BY <2>2 DEF IngestStart
    <3>2. VerifyRanges(Sanitize(coverage), asked) \in SUBSET coverage
      BY DEF VerifyRanges, Sanitize
    <3> QED  BY <3>1, <3>2
  <2> QED  BY <2>1, <2>2
<1>3. PICK kept \in SUBSET coverage : mem' = mem \/ mem' = [mem EXCEPT ![t] = kept]
  BY <1>2
<1>4. \A u \in Tabs : mem'[u] = mem[u] \/ mem'[u] = kept
  BY <1>3 DEF TypeOK
<1> QED  BY <1>1, <1>4 DEF Quiet, Held

(* The end of a run, a crash and a boot's write-back move sets or drop them. *)
LEMMA ReleasesAreQuiet ==
    ASSUME TypeOK, NEW t \in Tabs, BootWrite(t) \/ IngestEnd(t) \/ Close(t)
    PROVE  Quiet
<1>1. mem' = [mem EXCEPT ![t] = {}]
  BY DEF BootWrite, IngestEnd, Close
<1>2. \A u \in Tabs : mem'[u] = mem[u] \/ mem'[u] = {}
  BY <1>1 DEF TypeOK
<1>3. coverage' = coverage \/ coverage' \subseteq mem[t]
  BY DEF BootWrite, IngestEnd, Close, Sanitize
<1> QED  BY <1>2, <1>3 DEF Quiet, Held

(* Everything but a commit and a corruption is quiet.                      *)
LEMMA CoverageSteps ==
    ASSUME TypeOK, [Next]_vars
    PROVE  \/ Quiet
           \/ \E r \in coverage : Corrupt(r)
           \/ \E t \in Tabs, n \in Blocks, src \in Sources, edge \in Edges, decoded \in BOOLEAN :
                 Commit(t, n, src, edge, decoded)
<1>1. CASE UNCHANGED vars
  BY <1>1 DEF vars, Quiet, Held
<1>2. CASE \E r \in coverage : Corrupt(r)
  BY <1>2
<1>3. ASSUME NEW t \in Tabs, NEW n \in Blocks, NEW src \in Sources, WriteBlock(t, n, src)
      PROVE  \E edge \in Edges, decoded \in BOOLEAN : Commit(t, n, src, edge, decoded)
  BY <1>3, WriteBlockCommits
<1>4. ASSUME NEW t \in Tabs, BootRead(t) \/ IngestStart(t) PROVE Quiet
  BY <1>4, ReadsAreQuiet
<1>5. ASSUME NEW t \in Tabs, BootWrite(t) \/ IngestEnd(t) \/ Close(t) PROVE Quiet
  BY <1>5, ReleasesAreQuiet
<1>6. ASSUME NEW t \in Tabs,
             \/ QuotaStart(t) \/ NextRung(t) \/ EvictPendingRaw(t)
             \/ \E n \in Charted : Degrade(t, n) \/ DegradeRefused(t, n)
             \/ \E p \in Settled : CompactSettledEvents(t, p)
      PROVE  Quiet
  <2>1. UNCHANGED <<coverage, mem>>
    BY <1>6 DEF QuotaStart, NextRung, EvictPendingRaw, Degrade, DegradeRefused,
                CompactSettledEvents
  <2> QED  BY <2>1 DEF Quiet, Held
<1> QED  BY <1>1, <1>2, <1>3, <1>4, <1>5, <1>6 DEF Next

----------------------------------------------------------------------------
(* Types, and canonical sets.  The two go together: what AddRange returns  *)
(* is a set of ranges because what it is given is canonical.               *)

(* The empty run of blocks: an earlier session left ranges that do not touch. *)
LEMMA InitialCoverage ==
    ASSUME Init
    PROVE  /\ coverage \subseteq CoverageRange /\ IsCanonical(coverage)
           /\ Claims(coverage) \subseteq seen
           /\ \A n \in ClaimedBlocks(coverage) : n \in Earlier
           /\ \A cov \in Held : cov \subseteq coverage
<1> DEFINE r(n) == RangeForSource(Self, n, "chain")
<1>1. \A n \in Earlier : /\ r(n) \in CoverageRange /\ n \in Int
                         /\ r(n).from = n /\ r(n).to = n /\ r(n).src = Self
  BY SingleRange DEF Edges
<1> HIDE DEF r
<1>2. coverage = {r(n) : n \in Earlier}
  BY DEF Init, r
<1>3. ASSUME NEW m \in Earlier, NEW n \in Earlier, Touch(r(m), r(n)) PROVE m = n
  BY <1>1, <1>3 DEF Touch
<1>4. IsCanonical(coverage)
  BY <1>2, <1>3 DEF IsCanonical
<1>5. ASSUME NEW n \in Blocks, NEW a \in coverage, a.from <= n, n <= a.to
      PROVE  n \in Earlier /\ a.src = Self
  BY <1>1, <1>2, <1>5
<1>6. ASSUME NEW c \in Claims(coverage) PROVE c \in seen
  <2>1. c \in Blocks \X Sources
    BY DEF Claims
  <2>2. c[1] \in Earlier /\ c[2] = Self
    BY <2>1, <1>5 DEF Claims
  <2> QED  BY <2>1, <2>2 DEF Init
<1>7. \A n \in ClaimedBlocks(coverage) : n \in Earlier
  BY <1>5 DEF ClaimedBlocks
<1>8. \A cov \in Held : cov \subseteq coverage
  BY DEF Held, Init
<1> QED  BY <1>1, <1>2, <1>4, <1>6, <1>7, <1>8

LEMMA InitTypes == Init => TypeOK /\ Canonical
<1> SUFFICES ASSUME Init PROVE TypeOK /\ Canonical
  OBVIOUS
<1>1. Canonical
  BY InitialCoverage, ClaimsMonotone DEF Canonical
<1>2. coverage \subseteq CoverageRange /\ mem \in [Tabs -> SUBSET CoverageRange]
  BY InitialCoverage DEF Init
<1>3. events \in [Blocks -> Sources \cup {Nobody}] /\ txs \in [Blocks -> Sources \cup {Nobody}]
  BY DEF Init
<1>4. tier \in [Charted -> Tiers] /\ labels \in [Charted -> Tiers] /\ acc \in [Charted -> Tiers]
  BY DEF Init, Unlabelled, Tiers
<1>a. seen \subseteq Blocks \X Sources
  BY DEF Init
<1>b. pc \in [Tabs -> {"closed", "repairing", "ready", "ingesting", "budgeting"}]
  BY DEF Init
<1>5. /\ raw \subseteq Blocks /\ rawEvicted \subseteq Blocks /\ archived \subseteq Blocks
      /\ holder \in Tabs \cup {Nobody} /\ raced \in BOOLEAN
  BY DEF Init
<1>6. rung \in Rungs /\ writes \in 0..MaxWrites /\ faults \in 0..MaxFaults
  <2>1. rung = 0 /\ writes = 0 /\ faults = 0
    BY DEF Init
  <2> QED  BY <2>1 DEF Rungs
<1> QED  BY <1>1, <1>2, <1>3, <1>4, <1>5, <1>6, <1>a, <1>b DEF TypeOK

(* No step makes a set touch itself.                                       *)
LEMMA CanonicalStep ==
    ASSUME TypeOK, Canonical, [Next]_vars
    PROVE  /\ Canonical'
           /\ coverage' \subseteq CoverageRange
           /\ mem' \in [Tabs -> SUBSET CoverageRange]
<1>0. \A cov \in Held : cov \subseteq CoverageRange /\ IsCanonical(cov)
  BY DEF Canonical, Held, TypeOK
<1>1. \A cov \in Held' : cov \subseteq CoverageRange /\ IsCanonical(cov)
  <2>1. CASE Quiet
    BY <2>1, <1>0, ClaimsMonotone DEF Quiet
  <2>2. CASE \E r \in coverage : Corrupt(r)
    <3>1. PICK r \in coverage : Corrupt(r)
      BY <2>2
    <3>2. coverage' \subseteq CoverageRange /\ IsCanonical(coverage') /\ mem' = mem
      BY <3>1, <1>0, MarkedRange DEF Corrupt, Held
    <3> QED  BY <3>2, <1>0 DEF Held
  <2>3. ASSUME NEW t \in Tabs, NEW n \in Blocks, NEW src \in Sources, NEW edge \in Edges,
               NEW decoded \in BOOLEAN, Commit(t, n, src, edge, decoded)
        PROVE  \A cov \in Held' : cov \subseteq CoverageRange /\ IsCanonical(cov)
    <3>1. coverage' \subseteq CoverageRange /\ IsCanonical(coverage')
      BY <2>3, <1>0, AddRangeSound DEF Commit, Held
    <3>2. \A u \in Tabs : mem'[u] = mem[u] \/ mem'[u] = coverage'
      BY <2>3 DEF Commit, TypeOK
    <3> QED  BY <3>1, <3>2, <1>0 DEF Held
  <2> QED  BY <2>1, <2>2, <2>3, CoverageSteps
<1>2. DOMAIN mem' = Tabs /\ mem' = [t \in Tabs |-> mem'[t]]
  BY DEF Next, vars, TypeOK, BootRead, BootWrite, IngestStart, WriteBlock, IngestEnd,
         QuotaStart, NextRung, Degrade, DegradeRefused, CompactSettledEvents,
         EvictPendingRaw, Close, Corrupt
<1> QED  BY <1>1, <1>2 DEF Canonical, Held

(* What the rest of the state keeps, action by action.                     *)
RestTyped ==
    /\ events \in [Blocks -> Sources \cup {Nobody}]
    /\ txs \in [Blocks -> Sources \cup {Nobody}]
    /\ raw \subseteq Blocks /\ rawEvicted \subseteq Blocks /\ archived \subseteq Blocks
    /\ tier \in [Charted -> Tiers] /\ labels \in [Charted -> Tiers] /\ acc \in [Charted -> Tiers]
    /\ holder \in Tabs \cup {Nobody}
    /\ pc \in [Tabs -> {"closed", "repairing", "ready", "ingesting", "budgeting"}]
    /\ rung \in Rungs
    /\ seen \subseteq Blocks \X Sources
    /\ raced \in BOOLEAN
    /\ writes \in 0..MaxWrites /\ faults \in 0..MaxFaults

LEMMA RestTypedStep == ASSUME TypeOK, [Next]_vars PROVE RestTyped'
<1>0. RestTyped
  BY DEF TypeOK, RestTyped
<1> USE <1>0
<1>1. CASE UNCHANGED vars
  BY <1>1 DEF vars, store, chart, pass, RestTyped
<1>2. ASSUME NEW r \in coverage, Corrupt(r) PROVE RestTyped'
  BY <1>2 DEF Corrupt, store, chart, pass, RestTyped
<1>3. ASSUME NEW t \in Tabs, BootRead(t) PROVE RestTyped'
  <2>1. /\ pc' \in [Tabs -> {"closed", "repairing", "ready", "ingesting", "budgeting"}]
        /\ faults' \in 0..MaxFaults
    BY <1>3 DEF BootRead, RestTyped
  <2> QED  BY <1>3, <2>1 DEF BootRead, store, chart, pass, RestTyped
<1>4. ASSUME NEW t \in Tabs, BootWrite(t) \/ IngestStart(t) \/ IngestEnd(t) PROVE RestTyped'
  BY <1>4 DEF BootWrite, IngestStart, IngestEnd, store, chart, pass, RestTyped
<1>5. ASSUME NEW t \in Tabs, NEW n \in Blocks, NEW src \in Sources, WriteBlock(t, n, src)
      PROVE  RestTyped'
  <2>1. PICK edge \in Edges, decoded \in BOOLEAN : Commit(t, n, src, edge, decoded)
    BY <1>5, WriteBlockCommits
  <2>2. /\ events' \in [Blocks -> Sources \cup {Nobody}]
        /\ txs' \in [Blocks -> Sources \cup {Nobody}]
    BY <2>1 DEF Commit, RestTyped
  <2>3. raw' \subseteq Blocks /\ seen' \subseteq Blocks \X Sources /\ writes' \in 0..MaxWrites
    BY <2>1 DEF Commit, RestTyped
  <2> QED  BY <2>1, <2>2, <2>3 DEF Commit, chart, pass, RestTyped
<1>6. ASSUME NEW t \in Tabs, QuotaStart(t) \/ NextRung(t) PROVE RestTyped'
  <2>1. CASE QuotaStart(t)
    <3>1. pc' \in [Tabs -> {"closed", "repairing", "ready", "ingesting", "budgeting"}]
      BY <2>1 DEF QuotaStart, RestTyped
    <3>2. rung' \in Rungs
      BY <2>1 DEF QuotaStart, Rungs
    <3> QED  BY <2>1, <3>1, <3>2 DEF QuotaStart, store, chart, RestTyped
  <2>2. CASE NextRung(t)
    <3>1. rung' \in Rungs
      BY <2>2 DEF NextRung, Rungs
    <3> QED  BY <2>2, <3>1 DEF NextRung, store, chart, RestTyped
  <2> QED  BY <1>6, <2>1, <2>2
<1>7. ASSUME NEW t \in Tabs, NEW n \in Charted, Degrade(t, n) \/ DegradeRefused(t, n)
      PROVE  RestTyped'
  <2>1. rung \in {0, 1} /\ rung + 1 \in Tiers /\ rung + 1 \in Rungs
    BY <1>7 DEF Degrade, DegradeRefused, Tiers, Rungs
  <2>2. MergeDownsampled(acc, n, rung + 1) \in [Charted -> Tiers]
    BY <2>1 DEF MergeDownsampled, RestTyped
  <2>3. CASE Degrade(t, n)
    BY <2>1, <2>2, <2>3 DEF Degrade, store, RestTyped
  <2>4. CASE DegradeRefused(t, n)
    BY <2>1, <2>4 DEF DegradeRefused, LabelsAfterRefusal, store, chart, RestTyped
  <2> QED  BY <1>7, <2>3, <2>4
<1>8. ASSUME NEW t \in Tabs, NEW p \in Settled, CompactSettledEvents(t, p) PROVE RestTyped'
  <2>1. /\ events' \in [Blocks -> Sources \cup {Nobody}]
        /\ archived' \subseteq Blocks
    BY <1>8, SettledAssumption DEF CompactSettledEvents, RestTyped
  <2> QED  BY <1>8, <2>1 DEF CompactSettledEvents, chart, pass, RestTyped
<1>9. ASSUME NEW t \in Tabs, EvictPendingRaw(t) PROVE RestTyped'
  <2>1. PICK upTo : LET doomed == {n \in raw : n <= upTo}
                    IN  /\ raw' = raw \ doomed
                        /\ rawEvicted' = IF doomed = {} THEN rawEvicted ELSE EvictionRecord(doomed)
    BY <1>9 DEF EvictPendingRaw
  <2>2. raw' \subseteq Blocks /\ rawEvicted' \subseteq Blocks
    BY <2>1 DEF EvictionRecord, RestTyped
  <2>3. rung' \in Rungs /\ acc' \in [Charted -> Tiers]
    BY <1>9 DEF EvictPendingRaw, Unlabelled, Rungs, Tiers
  <2> QED  BY <1>9, <2>2, <2>3 DEF EvictPendingRaw, chart, RestTyped
<1>10. ASSUME NEW t \in Tabs, Close(t) PROVE RestTyped'
  <2>1. rung' \in Rungs /\ acc' \in [Charted -> Tiers]
    BY <1>10 DEF Close, Unlabelled, Rungs, Tiers, RestTyped
  <2> QED  BY <1>10, <2>1 DEF Close, store, chart, RestTyped
<1> QED  BY <1>1, <1>2, <1>3, <1>4, <1>5, <1>6, <1>7, <1>8, <1>9, <1>10 DEF Next

(* Every state is well typed, and no coverage set of it touches itself: a   *)
(* boot, a run or a query never throws on what an earlier one stored.       *)
THEOREM IndexTypedAndCanonical == Spec => [](TypeOK /\ Canonical)
<1>1. TypeOK /\ Canonical /\ [Next]_vars => (TypeOK /\ Canonical)'
  <2> SUFFICES ASSUME TypeOK, Canonical, [Next]_vars PROVE (TypeOK /\ Canonical)'
    OBVIOUS
  <2>1. RestTyped'
    BY RestTypedStep
  <2>2. /\ Canonical'
        /\ coverage' \subseteq CoverageRange
        /\ mem' \in [Tabs -> SUBSET CoverageRange]
    BY CanonicalStep
  <2> QED  BY <2>1, <2>2 DEF TypeOK, RestTyped
<1> QED  BY <1>1, InitTypes, PTL DEF Spec

----------------------------------------------------------------------------
(* Provenance and the rows behind a claim.                                 *)

(* A claim a step adds is the block it commits, under the source it names. *)
LEMMA NewClaims ==
    ASSUME TypeOK, Canonical, [Next]_vars, NEW cov \in Held', NEW c \in Claims(cov)
    PROVE  \/ \E old \in Held : c \in Claims(old)
           \/ \E t \in Tabs, n \in Blocks, src \in Sources, edge \in Edges, decoded \in BOOLEAN :
                 Commit(t, n, src, edge, decoded) /\ c = <<n, src>>
<1>0. \A old \in Held : old \subseteq CoverageRange /\ IsCanonical(old)
  BY DEF Canonical, Held, TypeOK
<1>1. CASE Quiet
  BY <1>1, ClaimsMonotone DEF Quiet
<1>2. CASE \E r \in coverage : Corrupt(r)
  <2>1. PICK r \in coverage : Corrupt(r)
    BY <1>2
  <2>2. Claims(coverage') = Claims(coverage) /\ mem' = mem
    BY <2>1, <1>0, MarkedRange DEF Corrupt, Held
  <2> QED  BY <2>2 DEF Held
<1>3. ASSUME NEW t \in Tabs, NEW n \in Blocks, NEW src \in Sources, NEW edge \in Edges,
             NEW decoded \in BOOLEAN, Commit(t, n, src, edge, decoded)
      PROVE  (\E old \in Held : c \in Claims(old)) \/ c = <<n, src>>
  <2>1. Claims(coverage') = Claims(mem[t]) \cup {<<n, src>>}
    BY <1>3, <1>0, AddRangeSound DEF Commit, Held
  <2>2. \A u \in Tabs : mem'[u] = mem[u] \/ mem'[u] = coverage'
    BY <1>3 DEF Commit, TypeOK
  <2> QED  BY <2>1, <2>2 DEF Held
<1> QED  BY <1>1, <1>2, <1>3, CoverageSteps

(* No step forgets what was seen.                                          *)
LEMMA SeenGrows == ASSUME [Next]_vars PROVE seen \subseteq seen'
  BY DEF Next, vars, BootRead, BootWrite, IngestStart, WriteBlock, IngestEnd,
         QuotaStart, NextRung, Degrade, DegradeRefused, CompactSettledEvents,
         EvictPendingRaw, Close, Corrupt

(* A watched block that was accounted for still is: by the same rows, by   *)
(* the rows or the blob of a replay, by the summary that replaced them or  *)
(* by the record of their disposal.                                        *)
LEMMA BackedKept ==
    ASSUME TypeOK, [Next]_vars, NEW n \in Watched, Backed(n)
    PROVE  Backed(n)'
<1>1. CASE UNCHANGED store
  BY <1>1 DEF store, Backed
<1>2. ASSUME NEW t \in Tabs, NEW m \in Blocks, NEW src \in Sources, WriteBlock(t, m, src)
      PROVE  Backed(n)'
  <2>1. PICK edge \in Edges, decoded \in BOOLEAN : Commit(t, m, src, edge, decoded)
    BY <1>2, WriteBlockCommits
  <2>2. CASE n # m
    BY <2>1, <2>2 DEF Commit, Backed, TypeOK
  <2>3. CASE n = m /\ ~decoded
    BY <2>1, <2>3 DEF Commit, Backed
  <2>4. CASE n = m /\ decoded
    <3>1. events'[n] = src /\ txs'[n] = src
      BY <2>1, <2>4 DEF Commit, NeedsBodyFetch, TypeOK
    <3> QED  BY <3>1 DEF Backed
  <2> QED  BY <2>2, <2>3, <2>4
<1>3. ASSUME NEW t \in Tabs, NEW p \in Settled, CompactSettledEvents(t, p) PROVE Backed(n)'
  BY <1>3 DEF CompactSettledEvents, Backed
<1>4. ASSUME NEW t \in Tabs, EvictPendingRaw(t) PROVE Backed(n)'
  <2>1. PICK upTo : LET doomed == {m \in raw : m <= upTo}
                    IN  /\ raw' = raw \ doomed
                        /\ rawEvicted' = IF doomed = {} THEN rawEvicted ELSE EvictionRecord(doomed)
    BY <1>4 DEF EvictPendingRaw
  <2>2. n \in raw => n \in raw' \/ n \in rawEvicted'
    BY <2>1 DEF EvictionRecord
  <2>3. rawEvicted \subseteq rawEvicted'
    BY <2>1 DEF EvictionRecord
  <2> QED  BY <1>4, <2>2, <2>3 DEF EvictPendingRaw, Backed
<1>5. CASE ~UNCHANGED store
  BY <1>2, <1>3, <1>4, <1>5
  DEF Next, vars, store, BootRead, BootWrite, IngestStart, IngestEnd, QuotaStart, NextRung,
      Degrade, DegradeRefused, Close, Corrupt
<1> QED  BY <1>1, <1>5

(* The block a commit claims is accounted for by that commit.              *)
LEMMA CommitBacks ==
    ASSUME TypeOK, NEW t \in Tabs, NEW n \in Watched, NEW src \in Sources, NEW edge \in Edges,
           NEW decoded \in BOOLEAN, Commit(t, n, src, edge, decoded)
    PROVE  Backed(n)' /\ <<n, src>> \in seen'
<1>1. CASE decoded
  <2>1. events'[n] = src /\ txs'[n] = src
    BY <1>1 DEF Commit, NeedsBodyFetch, TypeOK
  <2> QED  BY <2>1 DEF Backed, Commit
<1>2. CASE ~decoded
  BY <1>2 DEF Commit, Backed
<1> QED  BY <1>1, <1>2

(* A claimed block was ingested behind its source's header, and what was    *)
(* watched in it is there or its absence is recorded, in every tab and over *)
(* every crash, corruption and boot.                                        *)
THEOREM ClaimsAreHonestAndBacked == Spec => [](Honest /\ ClaimsBacked)
<1>1. Init => Honest /\ ClaimsBacked
  <2> SUFFICES ASSUME Init PROVE Honest /\ ClaimsBacked
    OBVIOUS
  <2>1. Honest
    BY InitialCoverage, ClaimsMonotone DEF Honest
  <2>2. ASSUME NEW cov \in Held, NEW n \in Watched \cap ClaimedBlocks(cov) PROVE Backed(n)
    <3>1. n \in Earlier \cap Watched /\ n \in Blocks
      BY InitialCoverage, ClaimsMonotone
    <3>2. txs[n] = Self /\ events[n] = Self
      BY <3>1 DEF Init
    <3> QED  BY <3>2 DEF Backed
  <2> QED  BY <2>1, <2>2 DEF ClaimsBacked
<1>2. TypeOK /\ Canonical /\ Honest /\ ClaimsBacked /\ [Next]_vars /\ TypeOK' /\ Canonical'
        => (Honest /\ ClaimsBacked)'
  <2> SUFFICES ASSUME TypeOK, Canonical, Honest, ClaimsBacked, [Next]_vars, TypeOK', Canonical'
               PROVE  (Honest /\ ClaimsBacked)'
    OBVIOUS
  <2>1. ASSUME NEW cov \in Held', NEW c \in Claims(cov) PROVE c \in seen'
    <3>1. CASE \E old \in Held : c \in Claims(old)
      BY <3>1, SeenGrows DEF Honest
    <3>2. CASE \E t \in Tabs, n \in Blocks, src \in Sources, edge \in Edges, decoded \in BOOLEAN :
                 Commit(t, n, src, edge, decoded) /\ c = <<n, src>>
      BY <3>2 DEF Commit
    <3> QED  BY <3>1, <3>2, NewClaims
  <2>2. ASSUME NEW cov \in Held', NEW n \in Watched, n \in ClaimedBlocks(cov) PROVE Backed(n)'
    <3>1. cov \subseteq CoverageRange
      BY DEF Held, TypeOK
    <3>2. PICK src \in Sources : <<n, src>> \in Claims(cov)
      BY <2>2, <3>1, ClaimedBySource
    <3>3. CASE \E old \in Held : <<n, src>> \in Claims(old)
      <4>1. PICK old \in Held : <<n, src>> \in Claims(old)
        BY <3>3
      <4>2. old \subseteq CoverageRange
        BY DEF Held, TypeOK
      <4>3. n \in ClaimedBlocks(old)
        BY <4>1, <4>2, ClaimedBySource
      <4>4. Backed(n)
        BY <4>3 DEF ClaimsBacked
      <4> QED  BY <4>4, BackedKept
    <3>4. ASSUME NEW t \in Tabs, NEW m \in Blocks, NEW s \in Sources, NEW edge \in Edges,
                 NEW decoded \in BOOLEAN,
                 Commit(t, m, s, edge, decoded), <<n, src>> = <<m, s>>
          PROVE  Backed(n)'
      BY <3>4, CommitBacks
    <3> QED  BY <3>2, <3>3, <3>4, NewClaims
  <2> QED  BY <2>1, <2>2 DEF Honest, ClaimsBacked
<1> QED  BY <1>1, <1>2, IndexTypedAndCanonical, PTL DEF Spec

----------------------------------------------------------------------------
(* The lock, the labels of a pass and the base of a run.                   *)

(* What a tab is doing takes it to be the holder or not.                   *)
LEMMA LockStep == ASSUME TypeOK, LockExclusive, [Next]_vars PROVE LockExclusive'
<1> USE DEF LockExclusive, TypeOK
<1>1. CASE UNCHANGED vars \/ \E r \in coverage : Corrupt(r)
  BY <1>1 DEF vars, Corrupt
<1>2. ASSUME NEW t \in Tabs, BootRead(t) PROVE LockExclusive'
  <2>1. holder' = holder /\ pc[t] = "closed"
        /\ (pc' = [pc EXCEPT ![t] = "ready"] \/ pc' = [pc EXCEPT ![t] = "repairing"])
    BY <1>2 DEF BootRead
  <2> QED  BY <2>1
<1>3. ASSUME NEW t \in Tabs, BootWrite(t) PROVE LockExclusive'
  BY <1>3 DEF BootWrite
<1>4. ASSUME NEW t \in Tabs, IngestStart(t) \/ QuotaStart(t) PROVE LockExclusive'
  BY <1>4 DEF IngestStart, QuotaStart, LockAvailable
<1>5. ASSUME NEW t \in Tabs, IngestEnd(t) \/ EvictPendingRaw(t) PROVE LockExclusive'
  BY <1>5 DEF IngestEnd, EvictPendingRaw, OnRung
<1>6. ASSUME NEW t \in Tabs, Close(t) PROVE LockExclusive'
  BY <1>6 DEF Close
<1>7. ASSUME NEW t \in Tabs,
             \/ NextRung(t)
             \/ \E n \in Blocks, src \in Sources : WriteBlock(t, n, src)
             \/ \E n \in Charted : Degrade(t, n) \/ DegradeRefused(t, n)
             \/ \E p \in Settled : CompactSettledEvents(t, p)
      PROVE  LockExclusive'
  BY <1>7 DEF NextRung, WriteBlock, Degrade, DegradeRefused, CompactSettledEvents
<1> QED  BY <1>1, <1>2, <1>3, <1>4, <1>5, <1>6, <1>7 DEF Next

(* A pass under way has accumulated what the store says, and no block is    *)
(* finer than it was stored.                                                *)
PassSound ==
    /\ (\E t \in Tabs : pc[t] = "budgeting") => acc = labels
    /\ \A n \in Charted : FirstTier[n] <= tier[n]
    /\ LabelsExact

LEMMA PassStep ==
    ASSUME TypeOK, TypeOK', LockExclusive, LockExclusive', PassSound, [Next]_vars
    PROVE  PassSound'
<1>1. CASE UNCHANGED chart /\ UNCHANGED acc /\ \A t \in Tabs : pc'[t] = "budgeting" => pc[t] = "budgeting"
  BY <1>1 DEF PassSound, LabelsExact, chart
<1>2. ASSUME NEW t \in Tabs, QuotaStart(t) PROVE PassSound'
  BY <1>2 DEF QuotaStart, PassSound, LabelsExact, chart
<1>3. ASSUME NEW t \in Tabs, NEW n \in Charted, Degrade(t, n) PROVE PassSound'
  <2>1. rung \in {0, 1} /\ tier[n] = rung /\ pc[t] = "budgeting"
    BY <1>3 DEF Degrade, IsOldest, OnRung
  <2>2. acc = labels /\ FirstTier[n] <= rung /\ labels[n] <= rung
    BY <2>1 DEF PassSound, LabelsExact
  <2>3. /\ tier' = [tier EXCEPT ![n] = rung + 1]
        /\ labels' = [labels EXCEPT ![n] = rung + 1]
        /\ acc' = labels'
    <3>1. acc[n] \in Tiers /\ rung + 1 > acc[n]
      BY <2>1, <2>2 DEF TypeOK, Tiers
    <3> QED  BY <1>3, <2>1, <2>2, <3>1 DEF Degrade, MergeDownsampled
  <2>4. FirstTier[n] \in Int /\ FirstTier[n] # rung + 1 /\ FirstTier[n] <= rung + 1
    BY <2>1, <2>2 DEF Tiers
  <2> QED  BY <2>3, <2>4 DEF PassSound, LabelsExact, TypeOK
<1>4. ASSUME NEW t \in Tabs, NEW n \in Charted, DegradeRefused(t, n) PROVE PassSound'
  BY <1>4 DEF DegradeRefused, LabelsAfterRefusal, PassSound, LabelsExact, chart
<1>5. ASSUME NEW t \in Tabs, EvictPendingRaw(t) PROVE PassSound'
  <2>1. \A u \in Tabs : pc'[u] # "budgeting"
    BY <1>5 DEF EvictPendingRaw, OnRung, LockExclusive, TypeOK
  <2> QED  BY <1>5, <2>1 DEF EvictPendingRaw, PassSound, LabelsExact, chart
<1>6. ASSUME NEW t \in Tabs, Close(t) PROVE PassSound'
  <2>1. CASE holder = t
    <3>1. \A u \in Tabs : pc'[u] # "budgeting"
      BY <1>6, <2>1, NobodyAssumption DEF Close, LockExclusive, TypeOK
    <3> QED  BY <1>6, <3>1 DEF Close, PassSound, LabelsExact, chart
  <2>2. CASE holder # t
    BY <1>6, <2>2, <1>1 DEF Close, TypeOK
  <2> QED  BY <2>1, <2>2
<1>7. ASSUME NEW t \in Tabs,
             \/ BootRead(t) \/ BootWrite(t) \/ IngestStart(t) \/ IngestEnd(t) \/ NextRung(t)
             \/ \E n \in Blocks, src \in Sources : WriteBlock(t, n, src)
             \/ \E p \in Settled : CompactSettledEvents(t, p)
      PROVE  PassSound'
  BY <1>7, <1>1 DEF BootRead, BootWrite, IngestStart, IngestEnd, NextRung, WriteBlock,
                    CompactSettledEvents, TypeOK, pass
<1>8. CASE UNCHANGED vars \/ \E r \in coverage : Corrupt(r)
  BY <1>8, <1>1 DEF vars, Corrupt, pass
<1> QED  BY <1>2, <1>3, <1>4, <1>5, <1>6, <1>7, <1>8 DEF Next

(* The stored label of a block is the resolution its chart data was         *)
(* degraded to, whatever folds aborted and whichever tabs ran the passes.   *)
THEOREM LabelsAreExact == Spec => []LabelsExact
<1>1. Init => LockExclusive /\ PassSound
  <2> SUFFICES ASSUME Init PROVE LockExclusive /\ PassSound
    OBVIOUS
  <2>1. LockExclusive
    BY NobodyAssumption DEF Init, LockExclusive
  <2>2. \A n \in Charted : FirstTier[n] <= tier[n] /\ tier[n] = FirstTier[n] /\ labels[n] = 0
    BY DEF Init, Unlabelled, Tiers
  <2>3. acc = labels
    BY DEF Init
  <2> QED  BY <2>1, <2>2, <2>3 DEF PassSound, LabelsExact
<1>2. TypeOK /\ TypeOK' /\ LockExclusive /\ PassSound /\ [Next]_vars => (LockExclusive /\ PassSound)'
  BY LockStep, PassStep
<1>3. PassSound => LabelsExact
  BY DEF PassSound
<1>4. Spec => []TypeOK
  BY IndexTypedAndCanonical, PTL
<1> QED  BY <1>1, <1>2, <1>3, <1>4, PTL DEF Spec

(* A run no boot wrote beside extends what is stored: its base claims       *)
(* nothing else, and misses no range that reads well and is on the chain.   *)
RunBase ==
    \A t \in Tabs : pc[t] = "ingesting" /\ ~raced =>
        /\ Claims(mem[t]) \subseteq Claims(coverage)
        /\ {r \in coverage : r.edge = "chain"} \subseteq mem[t]

LEMMA RunBaseStep ==
    ASSUME TypeOK, LockExclusive, RunBase, [Next]_vars
    PROVE  RunBase'
<1>1. CASE UNCHANGED <<coverage, mem, pc, raced>>
  BY <1>1 DEF RunBase
<1>2. ASSUME NEW r \in coverage, Corrupt(r) PROVE RunBase'
  <2>1. Claims(coverage') = Claims(coverage)
    BY <1>2, MarkedRange DEF Corrupt, TypeOK
  <2>2. {a \in coverage' : a.edge = "chain"} \subseteq {a \in coverage : a.edge = "chain"}
    <3>1. coverage' = (coverage \ {r}) \cup {[r EXCEPT !.edge = "malformed"]}
      BY <1>2 DEF Corrupt
    <3>2. [r EXCEPT !.edge = "malformed"].edge # "chain"
      BY DEF TypeOK, CoverageRange
    <3> QED  BY <3>1, <3>2
  <2> QED  BY <1>2, <2>1, <2>2 DEF Corrupt, RunBase
<1>3. ASSUME NEW t \in Tabs, BootRead(t) PROVE RunBase'
  <2>1. /\ \A u \in Tabs \ {t} : mem'[u] = mem[u] /\ pc'[u] = pc[u]
        /\ pc'[t] # "ingesting"
        /\ coverage' = coverage /\ raced' = raced
    BY <1>3 DEF BootRead, TypeOK
  <2> QED  BY <2>1 DEF RunBase
<1>4. ASSUME NEW t \in Tabs, BootWrite(t) PROVE RunBase'
  <2>1. CASE holder = Nobody
    BY <1>4, <2>1, NobodyAssumption DEF BootWrite, RunBase, LockExclusive, TypeOK
  <2>2. CASE holder # Nobody
    BY <1>4, <2>2 DEF BootWrite, RunBase
  <2> QED  BY <2>1, <2>2
<1>5. ASSUME NEW t \in Tabs, IngestStart(t) PROVE RunBase'
  <2>1. PICK asked : mem' = [mem EXCEPT ![t] = VerifyRanges(Sanitize(coverage), asked)]
    BY <1>5 DEF IngestStart
  <2>2. mem'[t] \subseteq coverage /\ {r \in coverage : r.edge = "chain"} \subseteq mem'[t]
    BY <2>1 DEF VerifyRanges, Sanitize, TypeOK
  <2>3. \A u \in Tabs : pc'[u] = "ingesting" => u = t
    BY <1>5, NobodyAssumption DEF IngestStart, LockAvailable, LockExclusive, TypeOK
  <2>4. coverage' = coverage
    BY <1>5 DEF IngestStart
  <2>5. Claims(mem'[t]) \subseteq Claims(coverage)
    BY <2>2, ClaimsMonotone
  <2> QED  BY <2>2, <2>3, <2>4, <2>5 DEF RunBase
<1>6. ASSUME NEW t \in Tabs, NEW n \in Blocks, NEW src \in Sources, WriteBlock(t, n, src)
      PROVE  RunBase'
  <2>1. pc' = pc /\ mem'[t] = coverage' /\ pc[t] = "ingesting"
    BY <1>6 DEF WriteBlock, TypeOK
  <2>2. \A u \in Tabs : pc'[u] = "ingesting" => u = t
    BY <2>1 DEF LockExclusive
  <2> QED  BY <2>1, <2>2 DEF RunBase
<1>7. ASSUME NEW t \in Tabs, IngestEnd(t) \/ EvictPendingRaw(t) \/ Close(t) \/ QuotaStart(t)
      PROVE  RunBase'
  <2>1. /\ \A u \in Tabs \ {t} : mem'[u] = mem[u] /\ pc'[u] = pc[u]
        /\ pc'[t] # "ingesting"
        /\ coverage' = coverage
    BY <1>7 DEF IngestEnd, EvictPendingRaw, Close, QuotaStart, TypeOK
  <2>2. \A u \in Tabs : pc'[u] = "ingesting" => raced' = raced
    BY <1>7, <2>1, NobodyAssumption
    DEF IngestEnd, EvictPendingRaw, Close, QuotaStart, OnRung, LockAvailable, LockExclusive, TypeOK
  <2> QED  BY <2>1, <2>2 DEF RunBase
<1>8. ASSUME NEW t \in Tabs,
             \/ NextRung(t)
             \/ \E n \in Charted : Degrade(t, n) \/ DegradeRefused(t, n)
             \/ \E p \in Settled : CompactSettledEvents(t, p)
      PROVE  RunBase'
  BY <1>8, <1>1 DEF NextRung, Degrade, DegradeRefused, CompactSettledEvents
<1>9. CASE UNCHANGED vars
  BY <1>9, <1>1 DEF vars
<1> QED  BY <1>2, <1>3, <1>4, <1>5, <1>6, <1>7, <1>8, <1>9 DEF Next

(* Unless a boot wrote beside the run, a commit claims one block more and   *)
(* withdraws no claim of a range that reads well and is on the chain: an    *)
(* advance another tab persisted is never overwritten.                      *)
THEOREM CommitsExtendTheStore == Spec => CommitsExtendAlways
<1>1. TypeOK /\ Canonical /\ RunBase /\ [Next]_vars => [CommitsExtend]_vars
  <2> SUFFICES ASSUME TypeOK, Canonical, RunBase, [Next]_vars, writes' # writes, ~raced
               PROVE  CommitsExtend
    BY DEF CommitsExtend
  <2>1. PICK t \in Tabs, n \in Blocks, src \in Sources : WriteBlock(t, n, src)
    BY DEF Next, vars, BootRead, BootWrite, IngestStart, IngestEnd, QuotaStart, NextRung,
           Degrade, DegradeRefused, CompactSettledEvents, EvictPendingRaw, Close, Corrupt
  <2>2. PICK edge \in Edges, decoded \in BOOLEAN : Commit(t, n, src, edge, decoded)
    BY <2>1, WriteBlockCommits
  <2>3. Claims(coverage') = Claims(mem[t]) \cup {<<n, src>>} /\ <<n, src>> \in seen'
    BY <2>2, AddRangeSound DEF Commit, Canonical, Held, TypeOK
  <2>4. /\ Claims(mem[t]) \subseteq Claims(coverage)
        /\ {r \in coverage : r.edge = "chain"} \subseteq mem[t]
    BY <2>2 DEF Commit, RunBase
  <2>5. Claims({r \in coverage : r.edge = "chain"}) \subseteq Claims(mem[t])
    BY <2>4, ClaimsMonotone
  <2> QED  BY <2>3, <2>4, <2>5 DEF CommitsExtend
<1>2. Init => LockExclusive /\ RunBase
  <2> SUFFICES ASSUME Init PROVE LockExclusive /\ RunBase
    OBVIOUS
  <2>1. \A t \in Tabs : pc[t] = "closed" /\ holder # t
    BY NobodyAssumption DEF Init
  <2> QED  BY <2>1 DEF LockExclusive, RunBase
<1>3. TypeOK /\ LockExclusive /\ RunBase /\ [Next]_vars => (LockExclusive /\ RunBase)'
  BY LockStep, RunBaseStep
<1>4. Spec => [](TypeOK /\ Canonical)
  BY IndexTypedAndCanonical
<1> QED  BY <1>1, <1>2, <1>3, <1>4, PTL DEF Spec, CommitsExtendAlways

----------------------------------------------------------------------------
(* The holes between the ranges.                                           *)

(* A block is reached when a range of s covers it; the block before start, *)
(* where the loop begins, counts as covered.                               *)
Reached(start, s, n) == n = start - 1 \/ \E r \in s : r.from <= n /\ n <= r.to

Gaps(start, s) ==
    {h \in Int \X Int :
        /\ h[1] <= h[2]
        /\ Reached(start, s, h[1] - 1)
        /\ Reached(start, s, h[2] + 1)
        /\ \A n \in h[1] .. h[2] : ~Reached(start, s, n)}

(* What the loop has found when it has taken the ranges of s.              *)
Scanned(start, s, scan) ==
    /\ scan = [holes |-> scan.holes, cursor |-> scan.cursor]
    /\ scan.holes = Gaps(start, s)
    /\ scan.cursor \in Int
    /\ Reached(start, s, scan.cursor - 1)
    /\ \A n \in Int : Reached(start, s, n) => n < scan.cursor

LEMMA RangeTypes ==
    ASSUME NEW r \in CoverageRange
    PROVE  r.from \in Int /\ r.to \in Int /\ r.from <= r.to /\ r.from \in Blocks /\ r.to \in Blocks
  BY DEF CoverageRange

LEMMA CoverageFinite ==
    ASSUME NEW cov \in SUBSET CoverageRange
    PROVE  IsFiniteSet(cov)
  <1> DEFINE P     == (Blocks \X Blocks) \X (Sources \X Edges)
             of(p) == [from |-> p[1][1], to |-> p[1][2], src |-> p[2][1], edge |-> p[2][2]]
  <1>1. IsFiniteSet(Edges)
    <2>1. Edges = {"chain"} \cup {"fork"} \cup {"malformed"}
      BY DEF Edges
    <2> QED
      BY <2>1, FS_Singleton, FS_Union
  <1>2. IsFiniteSet(P)
    <2>1. IsFiniteSet(Blocks \X Blocks) /\ IsFiniteSet(Sources \X Edges)
      BY <1>1, IntervalAssumption, SourcesAssumption, FS_Product
    <2> QED
      BY <2>1, FS_Product
  <1>3. \A r \in CoverageRange : \E p \in P : r = of(p)
    <2> SUFFICES ASSUME NEW r \in CoverageRange PROVE \E p \in P : r = of(p)
      OBVIOUS
    <2>1. <<<<r.from, r.to>>, <<r.src, r.edge>>>> \in P
      BY DEF CoverageRange
    <2>2. r = of(<<<<r.from, r.to>>, <<r.src, r.edge>>>>)
      BY DEF CoverageRange
    <2> QED
      BY <2>1, <2>2
  <1> DEFINE F == [p \in P |-> of(p)]
  <1>4. cov \subseteq {F[p] : p \in P}
    BY <1>3
  <1>5. IsFiniteSet({F[p] : p \in P})
    <2> HIDE DEF P, of
    <2> QED
      BY <1>2, FiniteImage
  <1> HIDE DEF F
  <1> QED
    BY <1>4, <1>5, FS_Subset

(* Of ranges there is one that begins first and one that begins last.      *)
LEMMA EndsOfCoverage ==
    ASSUME NEW cov \in SUBSET CoverageRange, cov # {}
    PROVE  /\ LastOf(cov) \in cov
           /\ \A a \in cov : a.from <= LastOf(cov).from
           /\ Min({r.from : r \in cov}) \in {r.from : r \in cov}
           /\ \A a \in cov : Min({r.from : r \in cov}) <= a.from
  <1> DEFINE B == {r.from : r \in cov}
             F == [r \in cov |-> r.from]
  <1>1. IsFiniteSet(B)
    <2>1. B = {F[r] : r \in cov}
      OBVIOUS
    <2>2. IsFiniteSet({F[r] : r \in cov})
      <3> HIDE DEF F
      <3> QED
        BY CoverageFinite, FiniteImage
    <2> QED
      BY <2>1, <2>2
  <1>2. B \subseteq Int /\ B # {}
    BY RangeTypes
  <1>3. HasEnds(B)
    <2> HIDE DEF B
    <2> QED
      BY <1>1, <1>2, FiniteEnds
  <1>4. \E r \in cov : \A a \in cov : a.from <= r.from
    BY <1>3 DEF HasEnds
  <1>5. \E x \in B : \A y \in B : x <= y
    BY <1>3 DEF HasEnds
  <1>6. Min(B) \in B /\ \A y \in B : Min(B) <= y
    <2> HIDE DEF B
    <2> QED
      BY <1>5 DEF Min
  <1> QED
    BY <1>4, <1>6 DEF LastOf

(* A turn of the loop with a range that begins last.                       *)
LEMMA ScanStep ==
    ASSUME NEW cov \in SUBSET CoverageRange, NEW start \in Int,
           \A a \in cov : start <= a.from,
           NEW r \in cov, \A a \in cov : a.from <= r.from,
           NEW scan, Scanned(start, cov \ {r}, scan)
    PROVE  Scanned(start, cov, HoleStep(r, scan))
  <1> DEFINE s      == cov \ {r}
             c      == scan.cursor
             f      == r.from
             t      == r.to
             Old(n) == Reached(start, s, n)
             New(n) == Reached(start, cov, n)
             next   == HoleStep(r, scan)
  <1>1. f \in Int /\ t \in Int /\ f <= t /\ c \in Int
    BY RangeTypes DEF Scanned
  <1>2. \A n : New(n) <=> Old(n) \/ (f <= n /\ n <= t)
    BY DEF Reached
  <1>3. Old(c - 1) /\ \A n \in Int : Old(n) => n < c
    BY DEF Scanned
  <1>4. \A n \in Int : Old(n) /\ f <= n => \A k \in f .. n : Old(k)
    <2> SUFFICES ASSUME NEW n \in Int, Old(n), f <= n, NEW k \in f .. n
                 PROVE  Old(k)
      OBVIOUS
    <2>1. n # start - 1
      BY <1>1
    <2>2. PICK q \in s : q.from <= n /\ n <= q.to
      BY <2>1 DEF Reached
    <2>3. q.from \in Int /\ q.to \in Int /\ q.from <= f
      BY RangeTypes
    <2>4. q.from <= k /\ k <= q.to
      BY <1>1, <2>2, <2>3
    <2> QED
      BY <2>2, <2>4 DEF Reached
  <1>5. /\ next = [holes |-> next.holes, cursor |-> next.cursor]
        /\ next.holes = IF f > c THEN Gaps(start, s) \cup {<<c, f - 1>>} ELSE Gaps(start, s)
        /\ next.cursor = IF t < c THEN c ELSE t + 1
    BY DEF HoleStep, Scanned
  <1>6. /\ next.cursor \in Int
        /\ New(next.cursor - 1)
        /\ \A n \in Int : New(n) => n < next.cursor
    <2> HIDE DEF next, c, f, t, Old, New
    <2>1. CASE t < c
      BY <1>1, <1>2, <1>3, <1>5, <2>1
    <2>2. CASE ~(t < c)
      <3>1. next.cursor = t + 1 /\ (t + 1) - 1 = t
        BY <1>1, <1>5, <2>2
      <3>2. New((t + 1) - 1)
        BY <1>1, <1>2, <3>1
      <3>3. \A n \in Int : New(n) => n < t + 1
        BY <1>1, <1>2, <1>3, <2>2
      <3> QED
        BY <1>1, <3>1, <3>2, <3>3
    <2> QED
      BY <2>1, <2>2
  <1>7. ASSUME NEW h \in Gaps(start, s)
        PROVE  h \in Gaps(start, cov)
    <2>1. /\ h \in Int \X Int /\ h[1] <= h[2] /\ Old(h[1] - 1) /\ Old(h[2] + 1)
          /\ \A n \in h[1] .. h[2] : ~Old(n)
      BY <1>7 DEF Gaps
    <2>2. New(h[1] - 1) /\ New(h[2] + 1)
      BY <1>2, <2>1
    <2>3. ASSUME NEW n \in h[1] .. h[2]
          PROVE  ~New(n)
      <3> HIDE DEF c, f, t, Old, New
      <3>1. h[1] \in Int /\ h[2] \in Int /\ n \in Int
        BY <2>1
      <3>2. ASSUME f <= n PROVE FALSE
        <4>1. h[2] + 1 \in Int /\ f <= h[2] + 1 /\ n \in f .. (h[2] + 1)
          BY <1>1, <3>1, <3>2
        <4>2. Old(n)
          BY <1>4, <2>1, <4>1
        <4> QED
          BY <2>1, <4>2
      <3> QED
        BY <1>2, <2>1, <3>2
    <2> QED
      BY <2>1, <2>2, <2>3 DEF Gaps
  <1>8. ASSUME f > c
        PROVE  <<c, f - 1>> \in Gaps(start, cov)
    <2>1. New(c - 1)
      BY <1>2, <1>3
    <2>2. New((f - 1) + 1)
      <3> HIDE DEF f, t, Old, New
      <3>1. (f - 1) + 1 = f /\ New(f)
        BY <1>1, <1>2
      <3> QED
        BY <3>1
    <2>3. \A n \in c .. (f - 1) : ~New(n)
      <3> HIDE DEF c, f, t, Old, New
      <3> QED
        BY <1>1, <1>2, <1>3
    <2>4. c \in Int /\ f - 1 \in Int /\ c <= f - 1
      BY <1>1, <1>8
    <2> HIDE DEF c, f
    <2> QED
      BY <2>1, <2>2, <2>3, <2>4 DEF Gaps
  <1>9. ASSUME NEW h \in Gaps(start, cov)
        PROVE  h \in Gaps(start, s) \/ (f > c /\ h = <<c, f - 1>>)
    <2>1. /\ h \in Int \X Int /\ h[1] <= h[2] /\ New(h[1] - 1) /\ New(h[2] + 1)
          /\ \A n \in h[1] .. h[2] : ~New(n)
      BY <1>9 DEF Gaps
    <2>2. h[1] \in Int /\ h[2] \in Int
      BY <2>1
    <2>3. \A n \in h[1] .. h[2] : ~Old(n)
      BY <1>2, <2>1
    <2>4. CASE Old(h[2] + 1)
      <3>1. Old(h[1] - 1)
        <4> HIDE DEF c, f, t, Old, New
        <4>1. ASSUME f <= h[1] - 1 PROVE FALSE
          <5>1. h[2] + 1 \in Int /\ f <= h[2] + 1 /\ h[1] \in f .. (h[2] + 1) /\ h[1] \in h[1] .. h[2]
            BY <1>1, <2>1, <2>2, <4>1
          <5>2. Old(h[1])
            BY <1>4, <2>4, <5>1
          <5> QED
            BY <2>3, <5>1, <5>2
        <4> QED
          BY <1>2, <2>1, <4>1
      <3> QED
        BY <2>1, <2>3, <2>4, <3>1 DEF Gaps
    <2>5. CASE ~Old(h[2] + 1)
      <3> HIDE DEF c, f, t, Old, New
      <3>1. f <= h[2] + 1 /\ h[2] + 1 <= t
        BY <1>2, <2>1, <2>5
      <3>2. h[2] \in h[1] .. h[2]
        BY <2>1, <2>2
      <3>3. ~(f <= h[2] /\ h[2] <= t)
        BY <1>2, <2>1, <3>2
      <3>4. h[2] + 1 = f
        BY <1>1, <2>2, <3>1, <3>3
      <3>5. Old(h[1] - 1)
        <4>1. ~(f <= h[1] - 1)
          BY <1>1, <2>1, <2>2, <3>4
        <4> QED
          BY <1>2, <2>1, <4>1
      <3>6. h[1] <= c
        BY <1>1, <1>3, <2>2, <3>5
      <3>7. ~(f <= c - 1)
        <4>1. ASSUME f <= c - 1 PROVE Old(f)
          <5>1. c - 1 \in Int /\ f \in f .. (c - 1)
            BY <1>1, <4>1
          <5> QED
            BY <1>3, <1>4, <4>1, <5>1
        <4> QED
          BY <2>5, <3>4, <4>1
      <3>8. c - 1 \notin h[1] .. h[2]
        BY <1>3, <2>3
      <3>9. h[1] = c
        BY <1>1, <2>2, <3>4, <3>6, <3>7, <3>8
      <3>10. h = <<c, f - 1>> /\ f > c
        <4>1. h[2] = f - 1 /\ h = <<h[1], h[2]>>
          BY <1>1, <2>1, <2>2, <3>4
        <4> QED
          BY <1>1, <2>1, <2>2, <3>4, <3>9, <4>1
      <3> QED
        BY <3>10
    <2> QED
      BY <2>4, <2>5
  <1>10. next.holes = Gaps(start, cov)
    <2> HIDE DEF next, c, f, s
    <2> QED
      BY <1>5, <1>7, <1>8, <1>9
  <1> HIDE DEF next
  <1>11. Scanned(start, cov, next)
    BY <1>5, <1>6, <1>10 DEF Scanned
  <1> QED
    BY <1>11 DEF next

ScanStart(start) == [holes |-> {}, cursor |-> start]

LEMMA ScanBegins ==
    ASSUME NEW start \in Int
    PROVE  Scanned(start, {}, ScanStart(start))
  <1>1. \A n : Reached(start, {}, n) <=> n = start - 1
    BY DEF Reached
  <1>2. Gaps(start, {}) = {}
    <2> SUFFICES ASSUME NEW h \in Gaps(start, {}) PROVE FALSE
      OBVIOUS
    <2>1. h[1] \in Int /\ h[2] \in Int /\ h[1] <= h[2] /\ h[1] - 1 = start - 1 /\ h[2] + 1 = start - 1
      BY <1>1 DEF Gaps
    <2> QED
      BY <2>1
  <1>3. \A n \in Int : Reached(start, {}, n) => n < start
    BY <1>1
  <1> QED
    BY <1>1, <1>2, <1>3 DEF Scanned, ScanStart

LEMMA ScanUnique ==
    ASSUME NEW start, NEW s, NEW a, NEW b, Scanned(start, s, a), Scanned(start, s, b)
    PROVE  a = b
  <1>1. /\ a.cursor \in Int /\ b.cursor \in Int
        /\ a.cursor - 1 < b.cursor /\ b.cursor - 1 < a.cursor
    BY DEF Scanned
  <1>2. a.cursor = b.cursor /\ a.holes = b.holes
    BY <1>1 DEF Scanned
  <1> QED
    BY <1>2 DEF Scanned

(* The loop over the ranges of cov, as the recursion of MapThenFoldSet.    *)
ScanTerm(g, start, s) ==
    IF s = {} THEN ScanStart(start) ELSE HoleStep(LastOf(s), g[s \ {LastOf(s)}])

Scans(g, start, cov) == g = [s \in SUBSET cov |-> ScanTerm(g, start, s)]

(* What the loop makes of every part of cov, provided it does so for every *)
(* smaller part.                                                           *)
LEMMA ScanOfPart ==
    ASSUME NEW cov \in SUBSET CoverageRange, NEW start \in Int,
           \A a \in cov : start <= a.from,
           NEW s \in SUBSET cov, s # {}, NEW scan, Scanned(start, s \ {LastOf(s)}, scan)
    PROVE  Scanned(start, s, HoleStep(LastOf(s), scan))
  <1>1. s \in SUBSET CoverageRange
    OBVIOUS
  <1>2. LastOf(s) \in s /\ \A a \in s : a.from <= LastOf(s).from
    BY <1>1, EndsOfCoverage
  <1>3. \A a \in s : start <= a.from
    OBVIOUS
  <1> QED
    BY <1>1, <1>2, <1>3, ScanStep

LEMMA ScanExists ==
    ASSUME NEW cov \in SUBSET CoverageRange, NEW start \in Int,
           \A a \in cov : start <= a.from, NEW s \in SUBSET cov
    PROVE  \E scan : Scanned(start, s, scan)
  <1> DEFINE D == {u \in SUBSET cov : ~ \E scan : Scanned(start, u, scan)}
  <1>1. SUFFICES ASSUME D # {} PROVE FALSE
    OBVIOUS
  <1>2. IsFiniteSet(cov)
    BY CoverageFinite
  <1>3. PICK u \in D : \A v \in D : ~(Cardinality(v) < Cardinality(u))
    BY <1>1, <1>2, SmallestSet
  <1>4. u # {}
    BY <1>3, ScanBegins
  <1>5. LastOf(u) \in u
    BY <1>3, <1>4, EndsOfCoverage
  <1>6. Cardinality(u \ {LastOf(u)}) < Cardinality(u)
    BY <1>2, <1>3, <1>5, OneLess
  <1>7. PICK scan : Scanned(start, u \ {LastOf(u)}, scan)
    BY <1>3, <1>6
  <1>8. Scanned(start, u, HoleStep(LastOf(u), scan))
    BY <1>3, <1>4, <1>7, ScanOfPart
  <1> QED
    BY <1>3, <1>8

LEMMA ScansExist ==
    ASSUME NEW cov \in SUBSET CoverageRange, NEW start \in Int, \A a \in cov : start <= a.from
    PROVE  \E g : Scans(g, start, cov)
  <1> DEFINE F == [s \in SUBSET cov |-> CHOOSE scan : Scanned(start, s, scan)]
  <1>1. \A s \in SUBSET cov : Scanned(start, s, F[s])
    BY ScanExists
  <1>2. ASSUME NEW s \in SUBSET cov
        PROVE  F[s] = ScanTerm(F, start, s)
    <2> HIDE DEF F
    <2>1. CASE s = {}
      BY <1>1, <2>1, ScanBegins, ScanUnique DEF ScanTerm
    <2>2. CASE s # {}
      <3>1. Scanned(start, s \ {LastOf(s)}, F[s \ {LastOf(s)}])
        BY <1>1
      <3>2. Scanned(start, s, HoleStep(LastOf(s), F[s \ {LastOf(s)}]))
        BY <2>2, <3>1, ScanOfPart
      <3>3. F[s] = HoleStep(LastOf(s), F[s \ {LastOf(s)}])
        BY <1>1, <3>2, ScanUnique
      <3> QED
        BY <2>2, <3>3 DEF ScanTerm
    <2> QED
      BY <2>1, <2>2
  <1>3. F = [s \in SUBSET cov |-> F[s]]
    OBVIOUS
  <1> HIDE DEF F
  <1>4. F = [s \in SUBSET cov |-> ScanTerm(F, start, s)]
    BY <1>2, <1>3
  <1> QED
    BY <1>4 DEF Scans

LEMMA ScansRight ==
    ASSUME NEW cov \in SUBSET CoverageRange, NEW start \in Int,
           \A a \in cov : start <= a.from, NEW g, Scans(g, start, cov)
    PROVE  Scanned(start, cov, g[cov])
  <1> DEFINE D == {u \in SUBSET cov : ~Scanned(start, u, g[u])}
  <1>1. SUFFICES ASSUME D # {} PROVE FALSE
    OBVIOUS
  <1>2. IsFiniteSet(cov)
    BY CoverageFinite
  <1>3. PICK u \in D : \A v \in D : ~(Cardinality(v) < Cardinality(u))
    BY <1>1, <1>2, SmallestSet
  <1>4. g[u] = ScanTerm(g, start, u)
    BY <1>3 DEF Scans
  <1>5. u # {}
    BY <1>3, <1>4, ScanBegins DEF ScanTerm
  <1>6. LastOf(u) \in u
    BY <1>3, <1>5, EndsOfCoverage
  <1>7. Cardinality(u \ {LastOf(u)}) < Cardinality(u)
    BY <1>2, <1>3, <1>6, OneLess
  <1>8. Scanned(start, u \ {LastOf(u)}, g[u \ {LastOf(u)}])
    BY <1>3, <1>7
  <1>9. Scanned(start, u, HoleStep(LastOf(u), g[u \ {LastOf(u)}]))
    BY <1>3, <1>5, <1>8, ScanOfPart
  <1> QED
    BY <1>3, <1>4, <1>5, <1>9 DEF ScanTerm

(* The holes of any set of ranges are the maximal runs of blocks that none *)
(* of them covers, between blocks they cover.                              *)
LEMMA HolesAreGaps ==
    ASSUME NEW cov \in SUBSET CoverageRange, cov # {}
    PROVE  HolesIn(cov) = Gaps(Min({r.from : r \in cov}), cov)
  <1> DEFINE start == Min({r.from : r \in cov})
             Scan  == CHOOSE g : Scans(g, start, cov)
  <1>1. start \in Int /\ \A a \in cov : start <= a.from
    BY EndsOfCoverage, RangeTypes
  <1>2. HolesIn(cov) = Scan[cov].holes
    BY DEF HolesIn, MapThenFoldSet, Scans, ScanTerm, ScanStart
  <1> HIDE DEF start
  <1>3. \E g : Scans(g, start, cov)
    BY <1>1, ScansExist
  <1>4. Scans(Scan, start, cov)
    BY <1>3
  <1> HIDE DEF Scan
  <1>5. Scanned(start, cov, Scan[cov])
    BY <1>1, <1>4, ScansRight
  <1> QED
    BY <1>2, <1>5 DEF Scanned, start

LEMMA HolesOfCoverage ==
    ASSUME coverage \subseteq CoverageRange
    PROVE  HolesExact
  <1> DEFINE start == Min({r.from : r \in coverage})
             Runs  == {h \in Blocks \X Blocks :
                        /\ h[1] <= h[2]
                        /\ h[1] - 1 \in ClaimedBlocks(coverage)
                        /\ h[2] + 1 \in ClaimedBlocks(coverage)
                        /\ \A n \in h[1] .. h[2] : n \notin ClaimedBlocks(coverage)}
  <1>1. CASE coverage = {}
    <2>1. ClaimedBlocks(coverage) = {} /\ HolesIn(coverage) = {}
      BY <1>1 DEF ClaimedBlocks, HolesIn
    <2>2. Runs = {}
      BY <2>1
    <2> QED
      BY <2>1, <2>2 DEF HolesExact
  <1>2. CASE coverage # {}
    <2>1. /\ start \in {r.from : r \in coverage} /\ start \in Int
          /\ \A a \in coverage : start <= a.from
      BY <1>2, EndsOfCoverage, RangeTypes
    <2>2. HolesIn(coverage) = Gaps(start, coverage)
      BY <1>2, HolesAreGaps
    <2> HIDE DEF start
    <2>3. \A n \in Int : n \in ClaimedBlocks(coverage) <=> Reached(start, coverage, n) /\ n # start - 1
      <3> SUFFICES ASSUME NEW n \in Int
                   PROVE  n \in ClaimedBlocks(coverage) <=>
                            Reached(start, coverage, n) /\ n # start - 1
        OBVIOUS
      <3>1. ASSUME NEW r \in coverage, r.from <= n, n <= r.to
            PROVE  n \in ClaimedBlocks(coverage) /\ n # start - 1
        <4>1. r.from \in Int /\ r.to \in Int /\ r.from \in Blocks /\ r.to \in Blocks /\ start <= r.from
          BY <2>1, RangeTypes
        <4>2. n \in r.from .. r.to
          BY <3>1, <4>1
        <4>3. n \in Blocks
          BY <4>1, <4>2, IntervalAssumption
        <4> QED
          BY <2>1, <3>1, <4>1, <4>3 DEF ClaimedBlocks
      <3>2. n \in ClaimedBlocks(coverage) => \E r \in coverage : r.from <= n /\ n <= r.to
        BY DEF ClaimedBlocks
      <3> QED
        BY <3>1, <3>2 DEF Reached
    <2>4. Reached(start, coverage, start)
      BY <2>1, RangeTypes DEF Reached
    <2>5. \A n \in Int : Reached(start, coverage, n) => n >= start - 1
      BY <2>1, RangeTypes DEF Reached
    <2>6. ASSUME NEW h \in Runs
          PROVE  h \in Gaps(start, coverage)
      <3>1. /\ h[1] \in Int /\ h[2] \in Int /\ h \in Int \X Int
            /\ h[1] - 1 \in Int /\ h[2] + 1 \in Int
        <4>1. h \in Blocks \X Blocks
          OBVIOUS
        <4>2. h[1] \in Int /\ h[2] \in Int /\ h \in Int \X Int
          <5> HIDE DEF Runs
          <5> QED
            BY <4>1
        <4> HIDE DEF Runs
        <4> QED
          BY <4>2
      <3>2. ASSUME NEW n \in h[1] .. h[2]
            PROVE  ~Reached(start, coverage, n)
        <4>1. n \in Int /\ n # start - 1
          <5>1. h[1] - 1 >= start
            <6>1. Reached(start, coverage, h[1] - 1) /\ h[1] - 1 # start - 1
              BY <2>3, <3>1
            <6> QED
              BY <2>1, <2>5, <3>1, <6>1
          <5> QED
            BY <2>1, <3>1, <5>1
        <4> QED
          BY <2>3, <4>1
      <3>3. Reached(start, coverage, h[1] - 1) /\ Reached(start, coverage, h[2] + 1)
        BY <2>3, <3>1
      <3> QED
        BY <3>1, <3>2, <3>3 DEF Gaps
    <2>7. ASSUME NEW h \in Gaps(start, coverage)
          PROVE  h \in Runs
      <3>1. /\ h[1] \in Int /\ h[2] \in Int /\ h = <<h[1], h[2]>> /\ h[1] <= h[2]
            /\ h[1] - 1 \in Int /\ h[2] + 1 \in Int
            /\ Reached(start, coverage, h[1] - 1) /\ Reached(start, coverage, h[2] + 1)
            /\ \A n \in h[1] .. h[2] : ~Reached(start, coverage, n)
        BY <2>7 DEF Gaps
      <3>2. h[1] - 1 # start - 1
        <4>1. start \notin h[1] .. h[2]
          BY <2>4, <3>1
        <4>2. h[1] # start
          BY <3>1, <4>1
        <4> QED
          BY <2>1, <3>1, <4>2
      <3>3. h[1] - 1 \in ClaimedBlocks(coverage)
        BY <2>3, <3>1, <3>2
      <3>4. h[2] + 1 # start - 1
        BY <2>1, <2>5, <3>1
      <3>5. h[2] + 1 \in ClaimedBlocks(coverage)
        BY <2>3, <3>1, <3>4
      <3>6. \A n \in h[1] .. h[2] : n \notin ClaimedBlocks(coverage)
        BY <2>3, <3>1
      <3>7. h[1] \in Blocks /\ h[2] \in Blocks
        <4>1. h[1] - 1 \in Blocks /\ h[2] + 1 \in Blocks
          BY <3>3, <3>5 DEF ClaimedBlocks
        <4>2. h[1] \in (h[1] - 1) .. (h[2] + 1) /\ h[2] \in (h[1] - 1) .. (h[2] + 1)
          BY <3>1
        <4> QED
          BY <4>1, <4>2, IntervalAssumption
      <3> QED
        BY <3>1, <3>3, <3>5, <3>6, <3>7
    <2>8. HolesIn(coverage) = Runs
      <3> HIDE DEF Runs
      <3> QED
        BY <2>2, <2>6, <2>7
    <2> QED
      BY <2>8 DEF HolesExact
  <1> QED
    BY <1>1, <1>2

(* In every reachable state the holes reported beside the coverage are     *)
(* exactly its maximal unclaimed runs, with ranges of several sources      *)
(* overlapping in any way.                                                 *)
THEOREM HolesAlwaysExact == Spec => []HolesExact
  <1>1. TypeOK /\ Canonical => HolesExact
    BY HolesOfCoverage DEF TypeOK
  <1> QED
    BY <1>1, IndexTypedAndCanonical, PTL

====
