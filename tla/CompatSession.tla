---- MODULE CompatSession ----
(***************************************************************************)
(* Which runtime the application says it is on, and whether it may sign.   *)
(*                                                                         *)
(* The chain connection follows the node's block tree: a runtime announced *)
(* with an unfinalized block is held aside until the block is finalized or *)
(* pruned.  The boot classifies the finalized runtime by pulling its       *)
(* metadata over a second client; a watch then re-classifies at every      *)
(* change, with one probe at a time and a retry timer.  The screen holds   *)
(* the verdict, and only a "full" one lets the user sign.                  *)
(*                                                                         *)
(* A runtime stands for the four version fields runtimeMoved compares.     *)
(* The second client follows the chain on its own: what it examines may be *)
(* the runtime of an earlier or of a later finalized block than the        *)
(* connection's.  Assumed: every follow event is handled in a task of its  *)
(* own, after the promise jobs of the one before have run.                 *)
(***************************************************************************)
EXTENDS Integers, FiniteSets, Sequences, SequencesExt

CONSTANTS
    Blocks,      \* the block tree below the block the connection starts at
    Genesis,     \* that block
    Parent,      \* the parent of every block but Genesis
    Runtimes,    \* the runtimes of the chain
    RuntimeMaps, \* the assignments of runtimes to blocks that are considered
    Supported,   \* the runtimes this release has descriptors for
    Compatible,  \* the <<r, e>> such that the descriptors for r pass every probe on runtime e
    Unreadable,  \* the runtimes the node reports as invalid
    None,        \* undefined
    MaxHeld      \* the cap on announced runtimes, MAX_ANNOUNCED_RUNTIMES

\* The blocks from Genesis to b.
PathTo[b \in Blocks] == IF b = Genesis THEN <<Genesis>> ELSE Append(PathTo[Parent[b]], b)

On(b) == ToSet(PathTo[b])

ASSUME TreeAssumption ==
    /\ Genesis \in Blocks
    /\ Parent \in [Blocks \ {Genesis} -> Blocks]
    /\ \A X \in SUBSET Blocks : X # {} => \E b \in X : b = Genesis \/ Parent[b] \notin X
ASSUME RuntimesAssumption ==
    /\ Supported \subseteq Runtimes /\ Compatible \subseteq Supported \X Runtimes
    /\ Unreadable \subseteq Runtimes /\ None \notin Runtimes
    /\ \A f \in RuntimeMaps : f \in [Blocks -> Runtimes]
ASSUME MaxHeldAssumption == MaxHeld \in Nat

VARIABLES
    runtimeOf,   \* the runtime of every block
    announced,   \* the blocks the connection was told of
    head,        \* its finalized head
    held,        \* the unfinalized blocks whose announced runtime it holds
    known,       \* the runtime of the last finalized announcement, or None
    uncertain,   \* announcements were dropped
    phase,       \* of the session: "connected", "boot", "reading", "watching", "failed"
    observed,    \* the runtime the watch last looked at
    probe,       \* the probe in flight: the runtime it is about, the one it examined
    rerun,       \* another probe is wanted when this one is done
    timer,       \* the retry timer is armed
    screen,      \* the verdict shown
    reads        \* runtimes whose stranded verdict awaits the release channel

connection == <<announced, head, held, known, uncertain>>
watch == <<phase, observed, probe, rerun, timer>>
vars == <<runtimeOf, connection, watch, screen, reads>>

(***************************************************************************)
(* Verdicts.                                                               *)
(***************************************************************************)
Idle == [label |-> None, examined |-> None]
Blank == [mode |-> "blank", runtime |-> None]
Unestablished == [mode |-> "unestablished", runtime |-> None]
Stranded(r) == [mode |-> "read-only-incompatible", runtime |-> r]
Probed(p) ==
    [mode |-> IF <<p.label, p.examined>> \in Compatible THEN "full" ELSE "restricted",
     runtime |-> p.label]

\* A faulty Classify, for mutation: the runtime is not read again after the pull.
ClassifyUnchecked(p, now) == Probed(p)

\* What a probe that examined a surface concludes, the finalized runtime being `now`; the
\* verdict is labelled with the runtime the probe is about, whatever it examined.
Classify(p, now) == IF now # p.label THEN Unestablished ELSE Probed(p)

(***************************************************************************)
(* The connection.                                                         *)
(***************************************************************************)
RuntimeReport(r) == IF r \in Unreadable THEN None ELSE r

FinalizedRuntime == IF uncertain THEN None ELSE known

Init ==
    /\ runtimeOf \in RuntimeMaps
    /\ announced = {Genesis} /\ head = Genesis /\ held = {}
    /\ known = RuntimeReport(runtimeOf[Genesis])
    /\ uncertain = FALSE
    /\ phase = "connected" /\ observed = None
    /\ probe = Idle /\ rerun = FALSE /\ timer = FALSE
    /\ screen = Blank /\ reads = {}

\* A faulty RecordAnnounced, for mutation: at the cap the oldest announcement goes.
RecordAnnouncedEvicting(b) ==
    /\ held' = IF Cardinality(held) < MaxHeld THEN held \cup {b}
               ELSE (held \ {CHOOSE a \in held : \A c \in held : Len(PathTo[a]) <= Len(PathTo[c])})
                        \cup {b}
    /\ uncertain' = uncertain

\* A faulty RecordAnnounced, for mutation: the cap is not checked.
RecordAnnouncedUnbounded(b) == held' = held \cup {b} /\ uncertain' = uncertain

\* #recordAnnouncedRuntime: at the cap the connection stops claiming to know the runtime.
RecordAnnounced(b) ==
    IF Cardinality(held) < MaxHeld
    THEN held' = held \cup {b} /\ uncertain' = uncertain
    ELSE held' = {} /\ uncertain' = TRUE

\* The event newBlock; it carries a runtime when the block changed it.
NewBlock(b) ==
    /\ b \notin announced
    /\ Parent[b] \in announced /\ head \in On(b)
    /\ announced' = announced \cup {b}
    /\ IF runtimeOf[b] # runtimeOf[Parent[b]] /\ RuntimeReport(runtimeOf[b]) # None
       THEN RecordAnnounced(b)
       ELSE UNCHANGED <<held, uncertain>>
    /\ UNCHANGED <<runtimeOf, head, known, watch, screen, reads>>

\* One finalized hash: its announcement, when held, becomes the connection's answer.
Promote(st, b) ==
    IF b \in st.held
    THEN [held |-> st.held \ {b}, known |-> runtimeOf[b], uncertain |-> FALSE]
    ELSE st

\* The finalized hashes, one after the other.
Promoted(hashes) ==
    LET after[i \in 0 .. Len(hashes)] ==
          IF i = 0 THEN [held |-> held, known |-> known, uncertain |-> uncertain]
          ELSE Promote(after[i - 1], hashes[i])
    IN  after[Len(hashes)]

(***************************************************************************)
(* The watch.  Probe is what `probe` does up to its pull, when none is in  *)
(* flight: it needs no pull to say that there is no runtime or that the    *)
(* release has no descriptors for it.                                      *)
(***************************************************************************)
Probe(now, shown, armed) ==
    /\ observed' = now
    /\ rerun' = FALSE
    /\ \/ /\ now = None
          /\ screen' = Unestablished /\ timer' = TRUE
          /\ probe' = Idle /\ reads' = reads
       \/ /\ now \in Runtimes \ Supported
          /\ screen' = Stranded(now) /\ timer' = FALSE
          /\ probe' = Idle /\ reads' = reads \cup {now}
       \/ /\ now \in Supported
          /\ probe' = [label |-> now, examined |-> None]
          /\ screen' = shown /\ timer' = armed /\ reads' = reads

\* The listener of finalized blocks: the mode goes before the new probe is done.
OnBlock(now) ==
    IF phase # "watching" \/ now = observed THEN UNCHANGED <<watch, screen, reads>>
    ELSE /\ phase' = phase
         /\ IF probe # Idle
            THEN /\ observed' = now /\ rerun' = TRUE /\ timer' = FALSE
                 /\ screen' = Unestablished
                 /\ UNCHANGED <<probe, reads>>
            ELSE Probe(now, Unestablished, FALSE)

\* The event finalized: promotions in the order of the chain, listeners, then the pruned forks.
Finalized(b) ==
    /\ b \in announced /\ b # head /\ head \in On(b)
    /\ LET hashes == SubSeq(PathTo[b], Len(PathTo[head]) + 1, Len(PathTo[b]))
           st == Promoted(hashes)
       IN  /\ held' = {a \in st.held : b \in On(a)}
           /\ known' = st.known /\ uncertain' = st.uncertain
           /\ OnBlock(IF st.uncertain THEN None ELSE st.known)
    /\ head' = b
    /\ UNCHANGED <<runtimeOf, announced>>

\* The second client examines the metadata at its own finalized head, behind or ahead of the
\* connection's on the chain that finality follows.
Pull ==
    /\ probe.label # None /\ probe.examined = None
    /\ \E b \in Blocks :
         /\ b \in On(head) \/ head \in On(b)
         /\ probe' = [probe EXCEPT !.examined = runtimeOf[b]]
    /\ UNCHANGED <<runtimeOf, connection, phase, observed, rerun, timer, screen, reads>>

\* A faulty StartWatch, for mutation: only a probe of the watch arms the retry.
StartWatchUnarmed(verdict) ==
    /\ phase' = "watching"
    /\ observed' = FinalizedRuntime
    /\ timer' = FALSE
    /\ rerun' = FALSE /\ probe' = Idle

\* watchCompat: a boot that established nothing owes a retry.
StartWatch(verdict) ==
    /\ phase' = "watching"
    /\ observed' = FinalizedRuntime
    /\ timer' = (verdict = Unestablished)
    /\ rerun' = FALSE /\ probe' = Idle

\* The probe in flight ends with a verdict: it is shown, and the retry armed or retired.
ProbeEnds(verdict) ==
    /\ IF phase = "boot"
       THEN StartWatch(verdict) /\ screen' = verdict /\ reads' = reads
       ELSE /\ phase' = phase
            /\ IF rerun THEN Probe(FinalizedRuntime, verdict, verdict = Unestablished)
               ELSE /\ screen' = verdict /\ timer' = (verdict = Unestablished)
                    /\ probe' = Idle /\ UNCHANGED <<observed, rerun, reads>>
    /\ UNCHANGED <<runtimeOf, connection>>

\* The pull fails, exceeds its deadline, or its result cannot be compared.
ProbeFails == probe # Idle /\ ProbeEnds(Unestablished)

\* The probe finds this release's own list of surfaces defective: at boot that is thrown, and
\* the terminal screen replaces the shell (the watch catches it, as ProbeFails).
BootFails ==
    /\ phase = "boot" /\ probe.examined # None
    /\ phase' = "failed" /\ probe' = Idle
    /\ UNCHANGED <<runtimeOf, connection, observed, rerun, timer, screen, reads>>

ProbeCompletes == probe.examined # None /\ ProbeEnds(Classify(probe, FinalizedRuntime))

TimerFires ==
    /\ timer
    /\ phase' = phase
    /\ IF probe # Idle
       THEN rerun' = TRUE /\ timer' = FALSE /\ UNCHANGED <<observed, probe, screen, reads>>
       ELSE Probe(FinalizedRuntime, screen, FALSE)
    /\ UNCHANGED <<runtimeOf, connection>>

(***************************************************************************)
(* The shell.                                                              *)
(***************************************************************************)
\* connectAndClassify and startShell; a stranded boot reads the channel before it watches.
Boot ==
    /\ phase = "connected"
    /\ LET now == FinalizedRuntime
       IN  \/ /\ now = None
              /\ screen' = Unestablished /\ reads' = reads
              /\ StartWatch(Unestablished)
           \/ /\ now \in Runtimes \ Supported
              /\ screen' = Stranded(now) /\ reads' = {now}
              /\ phase' = "reading"
              /\ UNCHANGED <<observed, probe, rerun, timer>>
           \/ /\ now \in Supported
              /\ probe' = [label |-> now, examined |-> None]
              /\ phase' = "boot"
              /\ UNCHANGED <<observed, rerun, timer, screen, reads>>
    /\ UNCHANGED <<runtimeOf, connection>>

\* showVerdict paints a stranded verdict again when the release channel has answered, or has not.
ChannelRead(r) ==
    /\ r \in reads
    /\ reads' = reads \ {r}
    /\ screen' = Stranded(r)
    /\ IF phase = "reading" THEN StartWatch(Stranded(r)) ELSE UNCHANGED watch
    /\ UNCHANGED <<runtimeOf, connection>>

Next ==
    \/ \E b \in Blocks \ {Genesis} : NewBlock(b) \/ Finalized(b)
    \/ Boot
    \/ Pull \/ ProbeFails \/ ProbeCompletes \/ BootFails
    \/ TimerFires
    \/ \E r \in Runtimes : ChannelRead(r)

\* Timers fire, reads end, and the chain answers a probe that is repeated for ever.
Fairness ==
    /\ WF_vars(Boot) /\ WF_vars(TimerFires)
    /\ SF_vars(Pull) /\ SF_vars(ProbeCompletes)
    /\ \A r \in Runtimes : WF_vars(ChannelRead(r))

Spec == Init /\ [][Next]_vars /\ Fairness

----------------------------------------------------------------------------
Open == {"restricted", "full"}

Verdicts ==
    [mode : {"blank", "unestablished", "read-only-incompatible"} \cup Open,
     runtime : Runtimes \cup {None}]

TypeOK ==
    /\ runtimeOf \in RuntimeMaps
    /\ announced \subseteq Blocks /\ head \in announced /\ held \subseteq announced
    /\ Cardinality(held) <= MaxHeld
    /\ known \in Runtimes \cup {None} /\ uncertain \in BOOLEAN
    /\ phase \in {"connected", "boot", "reading", "watching", "failed"}
    /\ observed \in Runtimes \cup {None}
    /\ probe \in [label : Supported \cup {None}, examined : Runtimes \cup {None}]
    /\ rerun \in BOOLEAN /\ timer \in BOOLEAN
    /\ screen \in Verdicts /\ reads \subseteq Runtimes \ Supported

\* The runtime at the head is one the node could not report, so no announcement carried it.
Hidden == runtimeOf[head] \in Unreadable

\* finalizedRuntime() is undefined or the runtime of the finalized head, whatever forks,
\* finality stalls and dropped announcements came before; a runtime reported as invalid is
\* the exception, the connection then keeps the one before.
FinalizedSound == FinalizedRuntime \in {None, runtimeOf[head]} \/ Hidden

\* What the node reported of the last block of the chain up to h whose runtime it could report.
LastReport(h, r) ==
    \E a \in On(h) : /\ r = RuntimeReport(runtimeOf[a])
                     /\ \A c \in On(h) \ On(a) : runtimeOf[c] \in Unreadable

\* A verdict that opens any surface is labelled with the runtime last reported on the
\* finalized chain: it is gone the moment that moves, or can no longer be told, and no probe,
\* rerun, retry or late answer brings it back.  Which runtime was examined is another matter.
OpenVerdictCurrent == screen.mode \in Open => LastReport(head, screen.runtime)

\* The verdict on the screen is the one of the finalized runtime.
Settled == FinalizedRuntime \in {None, screen.runtime} \/ phase = "failed"

\* A watch that has nothing to say comes to the verdict of the finalized runtime; and a session
\* that never asks the release channel stays with it once the chain stops moving: no retry, no
\* rerun and no change seen during a probe is lost.
Settles ==
    /\ (phase = "watching" /\ screen.mode = "unestablished") ~> Settled
    /\ <>(reads # {}) \/ <>[]Settled

\* The classifier is run again on every upgrade, so the screen comes to the verdict of the
\* runtime the chain stops at.  The code loses an upgrade that is finalized while the channel
\* is read for a stranded boot, and paints a stranded verdict again over a later one.
FollowsUpgrades == <>[]Settled
====
