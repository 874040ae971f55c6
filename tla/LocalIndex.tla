---- MODULE LocalIndex ----
(***************************************************************************)
(* The local index of the application: the IndexedDB database a browser    *)
(* keeps of the finalized blocks it has ingested, the coverage set that    *)
(* says which blocks those are and who served them, and the three          *)
(* procedures that write it: the integrity check of a boot, the ingest     *)
(* loop, and the storage budget.  Several tabs of one browser share the    *)
(* database and the Web Lock `fut-ingest`; a tab may be closed, or crash,  *)
(* between any two of its transactions.                                    *)
(*                                                                         *)
(* A coverage range is [from, to, src, edge]: src is the header source     *)
(* ("self", the light client, or an operator) and edge what the chain says *)
(* of the range's last block: the chain's own ("chain"), another history's *)
(* ("fork"), or unreadable ("malformed").  Rows carry their source; their  *)
(* contents, candles, metadata blobs and timestamps are left out.          *)
(***************************************************************************)
EXTENDS Integers, FiniteSets, FiniteSetsExt, Folds

CONSTANTS
    Tabs,        \* the tabs of one browser
    Blocks,      \* the finalized blocks, an interval of integers
    Watched,     \* the blocks with an event of a watched account
    Sources,     \* the header sources
    Self,        \* the source that is the light client
    Earlier,     \* the blocks an earlier session ingested from the light client
    Charted,     \* the blocks with a price stored for the chart
    FirstTier,   \* the resolution each of them was stored at
    Settled,     \* settled proposals, each the set of blocks of its events
    Nobody,      \* no tab, no source
    MaxWrites,   \* bound: blocks committed by the ingest loop
    MaxFaults    \* bound: boots that repair, and ranges corrupted on disk

Edges == {"chain", "fork", "malformed"}
Tiers == 0..2    \* raw samples, hourly candles, the floor
Rungs == 0..3    \* two folds, then the compaction, then the raw blobs

ASSUME BlocksAssumption == Blocks \subseteq Int
ASSUME IntervalAssumption ==
    /\ IsFiniteSet(Blocks)
    /\ \A m, n \in Blocks : m..n \subseteq Blocks
ASSUME SourcesAssumption == IsFiniteSet(Sources)
ASSUME WatchedAssumption == Watched \subseteq Blocks
ASSUME SelfAssumption == Self \in Sources
ASSUME NobodyAssumption == Nobody \notin Tabs /\ Nobody \notin Sources
ASSUME EarlierAssumption ==
    /\ Earlier \subseteq Blocks
    /\ \A m, n \in Earlier : m # n => m - n > 1 \/ n - m > 1
ASSUME ChartedAssumption == FirstTier \in [Charted -> Tiers]
ASSUME SettledAssumption == Settled \subseteq SUBSET Watched
ASSUME BoundsAssumption == MaxWrites \in Nat /\ MaxFaults \in Nat

VARIABLES
    coverage,    \* the stored coverage set
    events,      \* the source of the event rows of a block, or Nobody
    txs,         \* the source of the transaction rows of a block, or Nobody
    raw,         \* blocks stored undecoded, their metadata being unavailable
    rawEvicted,  \* blocks the record of discarded raw blobs stands for
    archived,    \* blocks whose events a proposal's summary replaced
    tier,        \* the resolution the chart data of a block is held at
    labels,      \* the stored "downsampled" label of a block, 0 for none
    holder,      \* the tab that holds the Web Lock, or Nobody
    pc,          \* what each tab is doing
    mem,         \* the coverage set a tab's repair or ingest run has in memory
    rung,        \* the rung the storage budget has reached
    acc,         \* the labels the running pass has accumulated
    seen,        \* history: the blocks ingested, with the header's source
    raced,       \* history: a boot wrote coverage during the holder's run
    writes,      \* bound: commits so far
    faults       \* bound: repairs and corruptions so far

store == <<events, txs, raw, rawEvicted, archived>>
chart == <<tier, labels>>
pass  == <<rung, acc>>
vars  == <<coverage, store, chart, holder, pc, mem, pass, seen, raced, writes, faults>>

(***************************************************************************)
(* coverage.ts                                                             *)
(***************************************************************************)
CoverageRange ==
    {r \in [from : Blocks, to : Blocks, src : Sources, edge : Edges] : r.from <= r.to}

Touch(a, b) ==
    /\ a.src = b.src
    /\ a.to >= b.from - 1
    /\ b.to >= a.from - 1

IsCanonical(cov) == \A a, b \in cov : Touch(a, b) => a = b

\* A faulty AddRange, for mutation: joins ranges that overlap, not ones that touch.
AddRangeOverlapOnly(cov, r) ==
    LET J == {a \in cov : Touch(a, r) /\ a.to >= r.from /\ r.to >= a.from}
        K == J \cup {r}
        low == CHOOSE a \in K : \A b \in K : a.from <= b.from
        top == CHOOSE a \in K : /\ \A b \in K : b.to <= a.to
                                /\ a.to = r.to => a = r
    IN  (cov \ J) \cup {[from |-> low.from, to |-> top.to, src |-> r.src, edge |-> top.edge]}

\* Ranges of one source that touch become one, bound to the edge of the higher end.
AddRange(cov, r) ==
    LET J == {a \in cov : Touch(a, r)}
        K == J \cup {r}
        low == CHOOSE a \in K : \A b \in K : a.from <= b.from
        top == CHOOSE a \in K : /\ \A b \in K : b.to <= a.to
                                /\ a.to = r.to => a = r
    IN  (cov \ J) \cup {[from |-> low.from, to |-> top.to, src |-> r.src, edge |-> top.edge]}

\* A faulty RangeForSource, for mutation: every ingested block is claimed by "self".
RangeForSelf(src, n, edge) == [from |-> n, to |-> n, src |-> Self, edge |-> edge]

RangeForSource(src, n, edge) == [from |-> n, to |-> n, src |-> src, edge |-> edge]

\* What a read keeps of what was stored: the records that are well formed.
Sanitize(cov) == {r \in cov : r.edge # "malformed"}

\* Of the ranges the chain can be asked about, those it disowns are dropped.
VerifyRanges(cov, asked) == {r \in cov : r \in asked => r.edge # "fork"}

Claims(cov) ==
    {c \in Blocks \X Sources : \E r \in cov : r.src = c[2] /\ r.from <= c[1] /\ c[1] <= r.to}

ClaimedBlocks(cov) == {n \in Blocks : \E r \in cov : r.from <= n /\ n <= r.to}

\* A faulty HoleStep, for mutation: the cursor stays on the last claimed block.
HoleStepOnLast(r, scan) ==
    [holes  |-> IF r.from > scan.cursor
                THEN scan.holes \cup {<<scan.cursor, r.from - 1>>} ELSE scan.holes,
     cursor |-> IF r.to < scan.cursor THEN scan.cursor ELSE r.to]

\* One turn of the loop of holesIn.
HoleStep(r, scan) ==
    [holes  |-> IF r.from > scan.cursor
                THEN scan.holes \cup {<<scan.cursor, r.from - 1>>} ELSE scan.holes,
     cursor |-> IF r.to < scan.cursor THEN scan.cursor ELSE r.to + 1]

\* The loop takes the ranges in the order of their first blocks: this one of them last.
LastOf(cov) == CHOOSE r \in cov : \A a \in cov : a.from <= r.from

HolesIn(cov) ==
    IF cov = {} THEN {}
    ELSE MapThenFoldSet(HoleStep,
                        [holes |-> {}, cursor |-> Min({r.from : r \in cov})],
                        LAMBDA r : r, LastOf, cov).holes

(***************************************************************************)
(* The database holds what an earlier session ingested; no tab is open.    *)
(***************************************************************************)
Unlabelled == [n \in Charted |-> 0]

Init ==
    /\ coverage = {RangeForSource(Self, n, "chain") : n \in Earlier}
    /\ events = [n \in Blocks |-> IF n \in Earlier \cap Watched THEN Self ELSE Nobody]
    /\ txs = events
    /\ raw = {} /\ rawEvicted = {} /\ archived = {}
    /\ tier = FirstTier
    /\ labels = Unlabelled
    /\ holder = Nobody
    /\ pc = [t \in Tabs |-> "closed"]
    /\ mem = [t \in Tabs |-> {}]
    /\ rung = 0 /\ acc = Unlabelled
    /\ seen = Earlier \X {Self}
    /\ raced = FALSE
    /\ writes = 0 /\ faults = 0

(***************************************************************************)
(* Boot: bootLocalIndex and checkIndexAtBoot.  The check takes no lock.    *)
(***************************************************************************)
\* The read; the chain answers for the ranges of `asked` and for no other.
BootRead(t) ==
    /\ pc[t] = "closed"
    /\ \E asked \in SUBSET Sanitize(coverage) :
          LET kept == VerifyRanges(Sanitize(coverage), asked)
          IN  IF kept = coverage
              THEN /\ pc' = [pc EXCEPT ![t] = "ready"]
                   /\ UNCHANGED <<mem, faults>>
              ELSE /\ faults < MaxFaults
                   /\ pc' = [pc EXCEPT ![t] = "repairing"]
                   /\ mem' = [mem EXCEPT ![t] = kept]
                   /\ faults' = faults + 1
    /\ UNCHANGED <<coverage, store, chart, holder, pass, seen, raced, writes>>

\* The write-back of a boot that dropped something.
BootWrite(t) ==
    /\ pc[t] = "repairing"
    /\ coverage' = Sanitize(mem[t])
    /\ pc' = [pc EXCEPT ![t] = "ready"]
    /\ mem' = [mem EXCEPT ![t] = {}]
    /\ raced' = (raced \/ holder # Nobody)
    /\ UNCHANGED <<store, chart, holder, pass, seen, writes, faults>>

(***************************************************************************)
(* Ingest: withIngestLock around runIngest over storeWriter.               *)
(***************************************************************************)
\* A faulty LockAvailable, for mutation: a lock answered as null runs the body unlocked.
LockIgnored(t) == TRUE

\* The lock is asked for with ifAvailable: a tab that finds it held does not run.
LockAvailable(t) == holder = Nobody

\* A run starts from ranges that are checked.  runIngest takes them as an argument and has no
\* caller yet: that they are read again under the lock is what ingest-lock.ts asks of one.
IngestStart(t) ==
    /\ pc[t] = "ready"
    /\ LockAvailable(t)
    /\ holder' = t
    /\ pc' = [pc EXCEPT ![t] = "ingesting"]
    /\ \E asked \in SUBSET Sanitize(coverage) :
          mem' = [mem EXCEPT ![t] = VerifyRanges(Sanitize(coverage), asked)]
    /\ raced' = FALSE
    /\ UNCHANGED <<coverage, store, chart, pass, seen, writes, faults>>

\* The edge is the hash of the header, which is of the chain when the light client serves it.
ServedEdges(src) == IF src = Self THEN {"chain"} ELSE {"chain", "fork"}

\* A watched block that decodes is committed with its rows: the fetch of its body succeeded.
NeedsBodyFetch(n, decoded) == decoded /\ n \in Watched

\* One transaction: the rows, the raw blob or its deletion, and the coverage.
WriteBlock(t, n, src) ==
    /\ pc[t] = "ingesting"
    /\ writes < MaxWrites
    /\ \E decoded \in BOOLEAN, edge \in ServedEdges(src) :
          /\ events' = IF NeedsBodyFetch(n, decoded) THEN [events EXCEPT ![n] = src] ELSE events
          /\ txs' = IF NeedsBodyFetch(n, decoded) THEN [txs EXCEPT ![n] = src] ELSE txs
          /\ raw' = IF decoded THEN raw \ {n} ELSE raw \cup {n}
          /\ coverage' = AddRange(mem[t], RangeForSource(src, n, edge))
    /\ mem' = [mem EXCEPT ![t] = coverage']
    /\ seen' = seen \cup {<<n, src>>}
    /\ writes' = writes + 1
    /\ UNCHANGED <<rawEvicted, archived, chart, holder, pc, pass, raced, faults>>

\* The stream ends, a body fetch fails or the transaction does: nothing more is written.
IngestEnd(t) ==
    /\ pc[t] = "ingesting"
    /\ holder' = Nobody
    /\ pc' = [pc EXCEPT ![t] = "ready"]
    /\ mem' = [mem EXCEPT ![t] = {}]
    /\ raced' = FALSE
    /\ UNCHANGED <<coverage, store, chart, pass, seen, writes, faults>>

(***************************************************************************)
(* The storage budget: enforceStorageBudget around applyQuota.             *)
(***************************************************************************)
QuotaStart(t) ==
    /\ pc[t] = "ready"
    /\ LockAvailable(t)
    /\ holder' = t
    /\ pc' = [pc EXCEPT ![t] = "budgeting"]
    /\ rung' = 0
    /\ acc' = labels
    /\ raced' = FALSE
    /\ UNCHANGED <<coverage, store, chart, mem, seen, writes, faults>>

OnRung(t, r) == pc[t] = "budgeting" /\ rung = r

\* Block n is the oldest the rung holds.
IsOldest(n, r) == tier[n] = r /\ \A m \in Charted : tier[m] = r => n <= m

\* A block degraded twice keeps the coarser label.
MergeDownsampled(ls, n, r) == [ls EXCEPT ![n] = IF r > ls[n] THEN r ELSE ls[n]]

\* The fold of the oldest closed bucket: the rows and their label in one transaction.
Degrade(t, n) ==
    /\ rung \in {0, 1} /\ OnRung(t, rung)
    /\ IsOldest(n, rung)
    /\ tier' = [tier EXCEPT ![n] = rung + 1]
    /\ acc' = MergeDownsampled(acc, n, rung + 1)
    /\ labels' = acc'
    /\ UNCHANGED <<coverage, store, holder, pc, mem, rung, seen, raced, writes, faults>>

\* A faulty LabelsAfterRefusal, for mutation: the label is merged before the transaction opens.
LabelsMergedEarly(n, r) == MergeDownsampled(acc, n, r + 1)

\* The labels of a pass whose fold aborted: what the last committed fold returned.
LabelsAfterRefusal(n, r) == acc

\* A fold aborts: the rung is refused and the pass goes on with the next.
DegradeRefused(t, n) ==
    /\ rung \in {0, 1} /\ OnRung(t, rung)
    /\ IsOldest(n, rung)
    /\ acc' = LabelsAfterRefusal(n, rung)
    /\ rung' = rung + 1
    /\ UNCHANGED <<coverage, store, chart, holder, pc, mem, seen, raced, writes, faults>>

\* The share is inside its budget, or the rung holds nothing that can be folded.
NextRung(t) ==
    /\ rung \in {0, 1, 2} /\ OnRung(t, rung)
    /\ rung' = rung + 1
    /\ UNCHANGED <<coverage, store, chart, holder, pc, mem, acc, seen, raced, writes, faults>>

\* compactSettledEvents: refused when the rows found are not all of the summary's source.
CompactSettledEvents(t, proposal) ==
    LET found == {n \in proposal : events[n] # Nobody}
    IN  /\ OnRung(t, 2)
        /\ found # {}
        /\ \E src \in Sources : \A n \in found : events[n] = src
        /\ events' = [n \in Blocks |-> IF n \in found THEN Nobody ELSE events[n]]
        /\ archived' = archived \cup found
        /\ UNCHANGED <<coverage, txs, raw, rawEvicted, chart, holder, pc, mem,
                       pass, seen, raced, writes, faults>>

\* A faulty EvictionRecord, for mutation: only the last pass is recorded.
EvictionRecordOfPass(doomed) == doomed

\* The record accumulates over the passes.
EvictionRecord(doomed) == rawEvicted \cup doomed

\* evictPendingRawToBound, oldest first, the record in the same transaction; the pass ends.
EvictPendingRaw(t) ==
    /\ OnRung(t, 3)
    /\ \E upTo \in Blocks \cup {Min(Blocks) - 1} :
          LET doomed == {n \in raw : n <= upTo}
          IN  /\ raw' = raw \ doomed
              /\ rawEvicted' = IF doomed = {} THEN rawEvicted ELSE EvictionRecord(doomed)
    /\ holder' = Nobody
    /\ pc' = [pc EXCEPT ![t] = "ready"]
    /\ raced' = FALSE
    /\ rung' = 0 /\ acc' = Unlabelled
    /\ UNCHANGED <<coverage, events, txs, archived, chart, mem, seen, writes, faults>>

(***************************************************************************)
(* A tab is closed or crashes: its memory goes, the browser frees its lock. *)
(***************************************************************************)
Close(t) ==
    /\ pc[t] # "closed"
    /\ pc' = [pc EXCEPT ![t] = "closed"]
    /\ mem' = [mem EXCEPT ![t] = {}]
    /\ holder' = IF holder = t THEN Nobody ELSE holder
    /\ raced' = IF holder = t THEN FALSE ELSE raced
    /\ rung' = IF holder = t THEN 0 ELSE rung
    /\ acc' = IF holder = t THEN Unlabelled ELSE acc
    /\ UNCHANGED <<coverage, store, chart, seen, writes, faults>>

\* A stored range no longer reads as one.
Corrupt(r) ==
    /\ faults < MaxFaults
    /\ r \in coverage /\ r.edge # "malformed"
    /\ coverage' = (coverage \ {r}) \cup {[r EXCEPT !.edge = "malformed"]}
    /\ faults' = faults + 1
    /\ UNCHANGED <<store, chart, holder, pc, mem, pass, seen, raced, writes>>

Next ==
    \/ \E t \in Tabs :
          \/ BootRead(t) \/ BootWrite(t)
          \/ IngestStart(t) \/ IngestEnd(t)
          \/ \E n \in Blocks, src \in Sources : WriteBlock(t, n, src)
          \/ QuotaStart(t) \/ NextRung(t)
          \/ \E n \in Charted : Degrade(t, n) \/ DegradeRefused(t, n)
          \/ \E p \in Settled : CompactSettledEvents(t, p)
          \/ EvictPendingRaw(t)
          \/ Close(t)
    \/ \E r \in coverage : Corrupt(r)

Spec == Init /\ [][Next]_vars

----------------------------------------------------------------------------
TypeOK ==
    /\ coverage \subseteq CoverageRange
    /\ events \in [Blocks -> Sources \cup {Nobody}]
    /\ txs \in [Blocks -> Sources \cup {Nobody}]
    /\ raw \subseteq Blocks /\ rawEvicted \subseteq Blocks /\ archived \subseteq Blocks
    /\ tier \in [Charted -> Tiers] /\ labels \in [Charted -> Tiers] /\ acc \in [Charted -> Tiers]
    /\ holder \in Tabs \cup {Nobody}
    /\ pc \in [Tabs -> {"closed", "repairing", "ready", "ingesting", "budgeting"}]
    /\ mem \in [Tabs -> SUBSET CoverageRange]
    /\ rung \in Rungs
    /\ seen \subseteq Blocks \X Sources
    /\ raced \in BOOLEAN
    /\ writes \in 0..MaxWrites /\ faults \in 0..MaxFaults

\* Whether everything a read of a claimed block could miss is accounted for:
\* the rows are there, or their summary, or the raw blob, or the record of its disposal.
Backed(n) ==
    \/ txs[n] # Nobody /\ (events[n] # Nobody \/ n \in archived)
    \/ n \in raw
    \/ n \in rawEvicted

\* The lock has one holder, and only its run is under way.
LockExclusive ==
    \A t \in Tabs : pc[t] \in {"ingesting", "budgeting"} <=> holder = t

\* The coverage sets that are read: the stored one, and those in the tabs' memory.
Held == {coverage} \cup {mem[t] : t \in Tabs}

\* No set the procedures hand to addRange, verifyRanges or covered is one they would
\* throw on: two ranges of one source never touch, on disk or in a tab's memory, after
\* any interleaving of boots, crashes, corruptions and ingests of the tabs.
Canonical == \A cov \in Held : IsCanonical(cov)

\* A watched block that is claimed has its rows, or a stated reason to miss them: the
\* commit of storeWriter, the compaction, the eviction and a crash between any two of
\* them never leave a claim over a history that looks empty.
ClaimsBacked == \A cov \in Held : \A n \in Watched \cap ClaimedBlocks(cov) : Backed(n)

\* A block is claimed by a source only when it was ingested behind that source's header:
\* neither a join nor a backfill makes an operator's block one the light client verified.
Honest == \A cov \in Held : Claims(cov) \subseteq seen

\* The stored label of a block is the resolution its chart data was degraded to, and there
\* is none on data never degraded, whatever folds aborted and whichever tab ran the pass.
LabelsExact ==
    \A n \in Charted : labels[n] = IF tier[n] = FirstTier[n] THEN 0 ELSE tier[n]

\* The holes reported beside the ranges are the maximal runs of unclaimed blocks between
\* claimed ones, with ranges of several sources overlapping.
HolesExact ==
    HolesIn(coverage) =
        {h \in Blocks \X Blocks :
            /\ h[1] <= h[2]
            /\ h[1] - 1 \in ClaimedBlocks(coverage)
            /\ h[2] + 1 \in ClaimedBlocks(coverage)
            /\ \A n \in h[1]..h[2] : n \notin ClaimedBlocks(coverage)}

\* Unless a boot wrote beside the run, a commit of the loop claims one block more and
\* withdraws no claim but those of ranges the chain disowned or the read could not parse.
CommitsExtend ==
    writes' # writes /\ ~raced =>
        /\ \E c \in seen' : Claims(coverage') \subseteq Claims(coverage) \cup {c}
        /\ Claims({r \in coverage : r.edge = "chain"}) \subseteq Claims(coverage')

CommitsExtendAlways == [][CommitsExtend]_vars
====
