------------------------ MODULE CompatSessionProofs ------------------------
(***************************************************************************)
(* For every block tree, every assignment of runtimes to it and every cap: *)
(* the connection reports the runtime of the finalized head or none, and a *)
(* verdict that opens any surface is labelled with the runtime last        *)
(* reported on the finalized chain.                                        *)
(***************************************************************************)
EXTENDS CompatSession, Sums

----------------------------------------------------------------------------
(* Least elements of the block tree.                                       *)

LEMMA LowestBlock ==
    ASSUME NEW X, X \subseteq Blocks, X # {}
    PROVE  \E b \in X : b = Genesis \/ (Parent[b] \in Blocks /\ Parent[b] \notin X)
  BY TreeAssumption

----------------------------------------------------------------------------
(* The path to a block: the recursion has a solution, which is PathTo.     *)

PathsIn(f, X) ==
    /\ X \subseteq Blocks
    /\ \A b \in X : b = Genesis \/ Parent[b] \in X
    /\ \A b \in X : f[b] = IF b = Genesis THEN <<Genesis>> ELSE Append(f[Parent[b]], b)

LEMMA PathsAgree ==
    ASSUME NEW f, NEW X, PathsIn(f, X), NEW g, NEW Y, PathsIn(g, Y)
    PROVE  \A b \in X \intersect Y : f[b] = g[b]
  <1> DEFINE D == {b \in X \intersect Y : f[b] # g[b]}
  <1>1. SUFFICES ASSUME D # {} PROVE FALSE
    OBVIOUS
  <1>2. PICK b \in D : b = Genesis \/ (Parent[b] \in Blocks /\ Parent[b] \notin D)
    BY <1>1, LowestBlock DEF PathsIn
  <1>3. CASE b = Genesis
    BY <1>2, <1>3 DEF PathsIn
  <1>4. CASE b # Genesis
    <2>1. Parent[b] \in X \intersect Y /\ f[Parent[b]] = g[Parent[b]]
      BY <1>2, <1>4 DEF PathsIn
    <2>2. QED
      BY <1>2, <1>4, <2>1 DEF PathsIn
  <1>5. QED
    BY <1>3, <1>4

LEMMA PathExists ==
    ASSUME NEW b \in Blocks
    PROVE  \E f, X : PathsIn(f, X) /\ b \in X
  <1> DEFINE D == {c \in Blocks : ~ \E f, X : PathsIn(f, X) /\ c \in X}
  <1>1. SUFFICES ASSUME D # {} PROVE FALSE
    OBVIOUS
  <1>2. PICK c \in D : c = Genesis \/ (Parent[c] \in Blocks /\ Parent[c] \notin D)
    BY <1>1, LowestBlock
  <1>3. CASE c = Genesis
    <2> DEFINE g == [x \in {Genesis} |-> <<Genesis>>]
    <2>1. PathsIn(g, {Genesis})
      BY TreeAssumption DEF PathsIn
    <2>2. QED
      BY <1>2, <1>3, <2>1
  <1>4. CASE c # Genesis
    <2>1. PICK f, X : PathsIn(f, X) /\ Parent[c] \in X
      BY <1>2, <1>4
    <2>2. c \notin X
      BY <1>2, <2>1
    <2> DEFINE g == [x \in X \union {c} |-> IF x = c THEN Append(f[Parent[c]], c) ELSE f[x]]
    <2>3. g[c] = Append(f[Parent[c]], c) /\ \A x \in X : g[x] = f[x]
      BY <2>2
    <2> HIDE DEF g
    <2>4. PathsIn(g, X \union {c})
      BY <1>2, <1>4, <2>1, <2>3 DEF PathsIn
    <2>5. QED
      BY <1>2, <2>4
  <1>5. QED
    BY <1>3, <1>4

LEMMA PathToIs == PathsIn(PathTo, Blocks)
  <1> DEFINE F == [b \in Blocks |-> CHOOSE v : \E f, X : PathsIn(f, X) /\ b \in X /\ v = f[b]]
  <1>1. ASSUME NEW f, NEW X, PathsIn(f, X), NEW b \in X PROVE F[b] = f[b]
    <2>1. b \in Blocks
      BY <1>1 DEF PathsIn
    <2>2. \E v : \E g, Y : PathsIn(g, Y) /\ b \in Y /\ v = g[b]
      BY <1>1
    <2>3. PICK g, Y : PathsIn(g, Y) /\ b \in Y /\ F[b] = g[b]
      BY <2>1, <2>2
    <2>4. QED
      BY <1>1, <2>3, PathsAgree
  <1>2. ASSUME NEW b \in Blocks
        PROVE  F[b] = IF b = Genesis THEN <<Genesis>> ELSE Append(F[Parent[b]], b)
    <2>1. PICK f, X : PathsIn(f, X) /\ b \in X
      BY PathExists
    <2>2. F[b] = f[b] /\ (b # Genesis => F[Parent[b]] = f[Parent[b]])
      <3>1. b # Genesis => Parent[b] \in X
        BY <2>1 DEF PathsIn
      <3> HIDE DEF F
      <3>2. QED
        BY <1>1, <2>1, <3>1
    <2> HIDE DEF F
    <2>3. QED
      BY <2>1, <2>2 DEF PathsIn
  <1>3. F = [b \in Blocks |-> F[b]]
    OBVIOUS
  <1> HIDE DEF F
  <1>4. F = [b \in Blocks |-> IF b = Genesis THEN <<Genesis>> ELSE Append(F[Parent[b]], b)]
    BY <1>2, <1>3
  <1>5. \E f : f = [b \in Blocks |-> IF b = Genesis THEN <<Genesis>> ELSE Append(f[Parent[b]], b)]
    BY <1>4
  <1>6. PathTo = [b \in Blocks |-> IF b = Genesis THEN <<Genesis>> ELSE Append(PathTo[Parent[b]], b)]
    BY <1>5 DEF PathTo
  <1> HIDE DEF F
  <1>7. \A b \in Blocks : PathTo[b] = IF b = Genesis THEN <<Genesis>> ELSE Append(PathTo[Parent[b]], b)
    BY <1>6
  <1>8. QED
    BY <1>7, TreeAssumption DEF PathsIn

(* A path lists the blocks by their height, and the path to any of them is *)
(* its beginning.                                                          *)
Rising(b) ==
    /\ PathTo[b] \in Seq(Blocks) /\ Len(PathTo[b]) \in Nat \ {0}
    /\ PathTo[b][Len(PathTo[b])] = b
    /\ \A k \in 1 .. Len(PathTo[b]) :
         /\ PathTo[b][k] \in Blocks
         /\ Len(PathTo[PathTo[b][k]]) = k
         /\ \A j \in 1 .. k : PathTo[PathTo[b][k]][j] = PathTo[b][j]
         /\ k > 1 => /\ PathTo[b][k] # Genesis
                     /\ Parent[PathTo[b][k]] = PathTo[b][k - 1]

LEMMA PathRises ==
    ASSUME NEW b \in Blocks
    PROVE  Rising(b)
  <1> DEFINE D == {c \in Blocks : ~Rising(c)}
  <1>1. SUFFICES ASSUME D # {} PROVE FALSE
    OBVIOUS
  <1>2. PICK c \in D : c = Genesis \/ (Parent[c] \in Blocks /\ Parent[c] \notin D)
    BY <1>1, LowestBlock
  <1>3. CASE c = Genesis
    <2>1. PathTo[Genesis] = <<Genesis>> /\ Genesis \in Blocks
      BY PathToIs, TreeAssumption DEF PathsIn
    <2>2. /\ <<Genesis>> \in Seq(Blocks) /\ Len(<<Genesis>>) = 1 /\ <<Genesis>>[1] = Genesis
          /\ 1 .. 1 = {1} /\ 1 \in Nat \ {0} /\ ~(1 > 1)
      BY <2>1
    <2>3. Rising(Genesis)
      BY <2>1, <2>2 DEF Rising
    <2>4. QED
      BY <1>2, <1>3, <2>3
  <1>4. CASE c # Genesis
    <2> DEFINE a == Parent[c]
               P == PathTo[a]
               Q == PathTo[c]
               n == Len(P)
    <2>1. a \in Blocks /\ Rising(a)
      BY <1>2, <1>4
    <2>2. Q = Append(P, c)
      BY <1>2, <1>4, PathToIs DEF PathsIn
    <2>3. P \in Seq(Blocks) /\ n \in Nat \ {0} /\ P[n] = a
      BY <2>1 DEF Rising
    <2>4. /\ Q \in Seq(Blocks) /\ Len(Q) = n + 1 /\ Q[n + 1] = c
          /\ \A k \in 1 .. n : Q[k] = P[k]
      BY <1>2, <2>2, <2>3
    <2>5. ASSUME NEW k \in 1 .. n + 1
          PROVE  /\ Q[k] \in Blocks
                 /\ Len(PathTo[Q[k]]) = k
                 /\ \A j \in 1 .. k : PathTo[Q[k]][j] = Q[j]
                 /\ k > 1 => Q[k] # Genesis /\ Parent[Q[k]] = Q[k - 1]
      <3>1. CASE k = n + 1
        <4>1. Q[k] = c /\ Len(PathTo[Q[k]]) = k /\ \A j \in 1 .. k : PathTo[Q[k]][j] = Q[j]
          BY <3>1, <2>4
        <4>2. n \in 1 .. n /\ k - 1 = n
          BY <2>3, <3>1
        <4>3. Q[k - 1] = a
          BY <4>2, <2>3, <2>4
        <4>4. QED
          BY <1>2, <1>4, <4>1, <4>3
      <3>2. CASE k # n + 1
        <4>1. k \in 1 .. n
          BY <3>2, <2>3
        <4>2. /\ P[k] \in Blocks /\ Len(PathTo[P[k]]) = k
              /\ \A j \in 1 .. k : PathTo[P[k]][j] = P[j]
              /\ k > 1 => P[k] # Genesis /\ Parent[P[k]] = P[k - 1]
          BY <4>1, <2>1 DEF Rising
        <4>3. Q[k] = P[k] /\ (k > 1 => Q[k - 1] = P[k - 1]) /\ \A j \in 1 .. k : Q[j] = P[j]
          <5>1. (k > 1 => k - 1 \in 1 .. n) /\ \A j \in 1 .. k : j \in 1 .. n
            BY <4>1, <2>3
          <5>2. QED
            BY <4>1, <5>1, <2>4
        <4>4. QED
          BY <4>2, <4>3
      <3>3. QED
        BY <3>1, <3>2
    <2>6. n + 1 \in Nat \ {0}
      BY <2>3
    <2> HIDE DEF Q, P, a
    <2>7. Rising(c)
      <3>1. Q = PathTo[c]
        BY DEF Q
      <3>2. QED
        BY <2>4, <2>5, <2>6, <3>1 DEF Rising
    <2>8. QED
      BY <1>2, <2>7
  <1>5. QED
    BY <1>3, <1>4

(* The blocks on a path.                                                   *)
LEMMA OnIs ==
    ASSUME NEW b \in Blocks
    PROVE  \A a : a \in On(b) <=> \E k \in 1 .. Len(PathTo[b]) : a = PathTo[b][k]
  BY PathRises DEF On, ToSet, Rising

LEMMA OnParts ==
    ASSUME NEW b \in Blocks
    PROVE  /\ On(b) \subseteq Blocks /\ b \in On(b)
           /\ On(Genesis) = {Genesis}
           /\ b # Genesis => /\ Parent[b] \in Blocks
                             /\ On(b) = On(Parent[b]) \union {b}
  <1>1. Rising(b)
    BY PathRises
  <1>2. On(b) \subseteq Blocks
    BY <1>1, OnIs DEF Rising
  <1>3. b \in On(b)
    <2>1. Len(PathTo[b]) \in 1 .. Len(PathTo[b])
      BY <1>1 DEF Rising
    <2>2. QED
      BY <1>1, <2>1, OnIs DEF Rising
  <1>4. On(Genesis) = {Genesis}
    <2>1. PathTo[Genesis] = <<Genesis>>
      BY PathToIs, TreeAssumption DEF PathsIn
    <2>2. Len(<<Genesis>>) = 1 /\ <<Genesis>>[1] = Genesis /\ 1 .. 1 = {1}
      OBVIOUS
    <2>3. \A a : a \in On(Genesis) <=> \E k \in 1 .. Len(PathTo[Genesis]) : a = PathTo[Genesis][k]
      BY OnIs, TreeAssumption
    <2>4. QED
      BY <2>1, <2>2, <2>3
  <1>5. ASSUME b # Genesis PROVE Parent[b] \in Blocks /\ On(b) = On(Parent[b]) \union {b}
    <2> DEFINE P == PathTo[Parent[b]]
               Q == PathTo[b]
    <2>1. Parent[b] \in Blocks
      BY <1>5, TreeAssumption
    <2>2. P \in Seq(Blocks) /\ Len(P) \in Nat /\ Q = Append(P, b)
      BY <1>5, <2>1, PathRises, PathToIs DEF PathsIn, Rising
    <2>3. /\ Len(Q) = Len(P) + 1 /\ Q[Len(P) + 1] = b
          /\ \A k \in 1 .. Len(P) : Q[k] = P[k]
      BY <2>2
    <2>4. \A k : k \in 1 .. Len(P) + 1 <=> k \in 1 .. Len(P) \/ k = Len(P) + 1
      BY <2>2
    <2>5. \A a : a \in On(b) <=> \E k \in 1 .. Len(Q) : a = Q[k]
      BY OnIs
    <2>6. \A a : a \in On(Parent[b]) <=> \E k \in 1 .. Len(P) : a = P[k]
      BY <2>1, OnIs
    <2> HIDE DEF P, Q
    <2>7. \A a : a \in On(b) <=> a \in On(Parent[b]) \/ a = b
      BY <2>3, <2>4, <2>5, <2>6
    <2>8. QED
      BY <2>1, <2>7
  <1>6. QED
    BY <1>2, <1>3, <1>4, <1>5

(* Being on a path is an order.                                            *)
LEMMA OnOrder ==
    ASSUME NEW c \in Blocks, NEW b \in On(c)
    PROVE  /\ On(b) \subseteq On(c)
           /\ c \in On(b) => b = c
  <1>1. Rising(c) /\ b \in Blocks /\ Rising(b)
    BY OnParts, PathRises
  <1>2. PICK k \in 1 .. Len(PathTo[c]) : b = PathTo[c][k]
    BY OnIs
  <1>3. Len(PathTo[b]) = k /\ \A j \in 1 .. k : PathTo[b][j] = PathTo[c][j]
    BY <1>1, <1>2 DEF Rising
  <1>4. Len(PathTo[c]) \in Nat /\ k \in Nat /\ k <= Len(PathTo[c])
    BY <1>1 DEF Rising
  <1>5. On(b) \subseteq On(c)
    <2>1. ASSUME NEW a \in On(b) PROVE a \in On(c)
      <3>1. PICK j \in 1 .. k : a = PathTo[b][j]
        BY <1>1, <1>3, OnIs
      <3>2. j \in 1 .. Len(PathTo[c]) /\ a = PathTo[c][j]
        BY <1>3, <1>4, <3>1
      <3>3. QED
        BY <3>2, OnIs
    <2>2. QED
      BY <2>1
  <1>6. ASSUME c \in On(b) PROVE b = c
    <2>1. PICK j \in 1 .. k : c = PathTo[b][j]
      BY <1>1, <1>3, <1>6, OnIs
    <2>2. Len(PathTo[c]) = j
      BY <1>1, <1>3, <2>1 DEF Rising
    <2>3. k = Len(PathTo[c])
      BY <1>4, <2>1, <2>2
    <2>4. QED
      BY <1>1, <1>2, <2>3 DEF Rising
  <1>7. QED
    BY <1>5, <1>6

----------------------------------------------------------------------------
(* The inductive invariant.                                                *)

(* The announcements that are still to be answered for, seen from h.       *)
Changed(b) == b # Genesis /\ runtimeOf[b] # runtimeOf[Parent[b]] /\ runtimeOf[b] \notin Unreadable
Pending(h) == {b \in announced : Changed(b) /\ h \in On(b) /\ b # h}

AnnouncedFits == \A b \in announced \ {Genesis} : Parent[b] \in announced

(* What is held is pending, all of it unless some was dropped; and nothing *)
(* was dropped that came after what is held.                               *)
HeldFits ==
    /\ IsFiniteSet(held)
    /\ held \subseteq Pending(head)
    /\ \A b \in held, d \in Pending(head) : b \in On(d) => d \in held
    /\ ~uncertain => held = Pending(head)

(* LastReport, under the assignment f of runtimes.                         *)
Reports(f, h, r) ==
    \E a \in On(h) : r = RuntimeReport(f[a]) /\ \A c \in On(h) \ On(a) : f[c] \in Unreadable

(* What is known was the last report on the finalized chain, while nothing *)
(* was dropped.                                                            *)
KnownFits == ~uncertain => Reports(runtimeOf, head, known)

(* The watch has looked at what the probe is about, or asked for another;  *)
(* nothing is in flight before the boot, and only the watch has a timer.   *)
ProbeFits ==
    /\ probe.label # None => phase \in {"boot", "watching"}
    /\ timer => phase = "watching"
    /\ probe.label = None => probe = Idle
    /\ phase = "watching" /\ probe.label # None /\ ~rerun => observed = probe.label

(* A verdict that opens a surface is the one the watch looked at last.     *)
Full == screen.mode \in Open

ScreenFits ==
    Full => /\ phase = "watching" /\ ~timer
            /\ screen.runtime = observed /\ observed # None
            /\ Reports(runtimeOf, head, screen.runtime)

ChainInv   == AnnouncedFits /\ HeldFits /\ KnownFits
SessionInv == TypeOK /\ ChainInv /\ ProbeFits /\ ScreenFits

LEMMA TypeParts ==
    ASSUME TypeOK
    PROVE  /\ runtimeOf \in RuntimeMaps /\ runtimeOf \in [Blocks -> Runtimes]
           /\ announced \subseteq Blocks /\ head \in Blocks /\ head \in announced /\ held \subseteq Blocks
           /\ known \in Runtimes \union {None} /\ uncertain \in BOOLEAN
           /\ FinalizedRuntime \in Runtimes \union {None}
           /\ FinalizedRuntime # None => ~uncertain /\ known = FinalizedRuntime
           /\ None \notin Runtimes /\ Genesis \in Blocks
  BY RuntimesAssumption, TreeAssumption DEF TypeOK, FinalizedRuntime

(* The properties follow.                                                  *)
LEMMA InvariantImplies ==
    ASSUME SessionInv
    PROVE  FinalizedSound /\ OpenVerdictCurrent
  <1>1. FinalizedSound
    <2> SUFFICES ASSUME FinalizedRuntime # None, ~Hidden PROVE FinalizedRuntime = runtimeOf[head]
      BY DEF FinalizedSound
    <2>1. head \in Blocks /\ ~uncertain /\ known = FinalizedRuntime
      BY TypeParts DEF SessionInv
    <2>2. PICK a \in On(head) : /\ known = RuntimeReport(runtimeOf[a])
                                /\ \A c \in On(head) \ On(a) : runtimeOf[c] \in Unreadable
      BY <2>1 DEF SessionInv, ChainInv, KnownFits, Reports
    <2>3. head \in On(a)
      BY <2>1, <2>2, OnParts DEF Hidden
    <2>4. a = head
      BY <2>1, <2>2, <2>3, OnOrder
    <2>5. QED
      BY <2>1, <2>2, <2>4 DEF RuntimeReport
  <1>2. OpenVerdictCurrent
    BY DEF SessionInv, ScreenFits, Full, OpenVerdictCurrent, Reports, LastReport
  <1>3. QED
    BY <1>1, <1>2

LEMMA AnnouncedPaths ==
    ASSUME TypeOK, AnnouncedFits, NEW b \in announced
    PROVE  On(b) \subseteq announced
  <1> DEFINE D == {c \in announced : ~(On(c) \subseteq announced)}
  <1>1. SUFFICES ASSUME D # {} PROVE FALSE
    OBVIOUS
  <1>2. announced \subseteq Blocks
    BY TypeParts
  <1>3. PICK c \in D : c = Genesis \/ (Parent[c] \in Blocks /\ Parent[c] \notin D)
    BY <1>1, <1>2, LowestBlock
  <1>4. CASE c = Genesis
    BY <1>3, <1>4, OnParts, TreeAssumption
  <1>5. CASE c # Genesis
    <2>1. Parent[c] \in announced /\ On(Parent[c]) \subseteq announced
      BY <1>3, <1>5 DEF AnnouncedFits
    <2>2. QED
      BY <1>2, <1>3, <1>5, <2>1, OnParts
  <1>6. QED
    BY <1>4, <1>5

----------------------------------------------------------------------------
(* The connection.                                                         *)

(* The finalized hashes of a new head: a chain of blocks from the old one. *)
HashesTo(b) == SubSeq(PathTo[b], Len(PathTo[head]) + 1, Len(PathTo[b]))

Reached(hs, i) == IF i = 0 THEN head ELSE hs[i]

LEMMA HashesParts ==
    ASSUME head \in Blocks, NEW b \in Blocks, head \in On(b), b # head
    PROVE  /\ Len(HashesTo(b)) \in Nat
           /\ Reached(HashesTo(b), Len(HashesTo(b))) = b
           /\ \A i \in 1 .. Len(HashesTo(b)) :
                /\ HashesTo(b)[i] \in On(b) /\ HashesTo(b)[i] # Genesis
                /\ HashesTo(b)[i] # head /\ head \in On(HashesTo(b)[i])
                /\ Parent[HashesTo(b)[i]] = Reached(HashesTo(b), i - 1)
                /\ \A j \in 1 .. i : HashesTo(b)[j] \in On(HashesTo(b)[i])
                /\ \A j \in 1 .. i : HashesTo(b)[j] = HashesTo(b)[i] => j = i
  <1> DEFINE P == PathTo[b]
             n == Len(P)
             m == Len(PathTo[head])
             H == HashesTo(b)
  <1>1. Rising(b) /\ Rising(head)
    BY PathRises
  <1>2. n \in Nat \ {0} /\ m \in Nat \ {0} /\ P \in Seq(Blocks) /\ P[n] = b
    BY <1>1 DEF Rising
  <1>3. m \in 1 .. n /\ P[m] = head
    <2>1. PICK k \in 1 .. n : head = P[k]
      BY OnIs
    <2>2. k = m
      BY <1>1, <2>1 DEF Rising
    <2>3. QED
      BY <2>1, <2>2
  <1>4. m < n
    <2>1. m # n
      BY <1>2, <1>3
    <2>2. QED
      BY <1>2, <1>3, <2>1
  <1>5. Len(H) = n - m /\ n - m \in Nat \ {0} /\ \A i \in 1 .. n - m : H[i] = P[m + i]
    <2>1. H = SubSeq(P, m + 1, n)
      BY DEF HashesTo
    <2> HIDE DEF P, n, m, H
    <2>2. P \in Seq(Blocks) /\ Len(P) = n /\ m + 1 \in 1 .. n /\ n \in Nat /\ m \in Nat
      BY <1>2, <1>4 DEF n
    <2>3. QED
      BY <2>1, <2>2
  <1>6. ASSUME NEW i \in 1 .. n - m
        PROVE  /\ m + i \in 1 .. n /\ m + i > 1 /\ m \in 1 .. m + i
               /\ m + i - 1 \in 1 .. n
               /\ i # 1 => i - 1 \in 1 .. n - m /\ m + (i - 1) = m + i - 1
               /\ i = 1 => m + i - 1 = m
               /\ \A j \in 1 .. i : m + j \in 1 .. m + i /\ j \in 1 .. n - m /\ m + j \in 1 .. n
    BY <1>2, <1>4
  <1>7. \A k \in 1 .. n : P[k] \in On(b) /\ P[k] \in Blocks /\ Len(PathTo[P[k]]) = k
    BY <1>1, OnIs DEF Rising
  <1>8. \A k \in 1 .. n : \A j \in 1 .. k : P[j] \in On(P[k])
    <2> TAKE k \in 1 .. n
    <2> TAKE j \in 1 .. k
    <2>1. P[k] \in Blocks /\ Len(PathTo[P[k]]) = k /\ PathTo[P[k]][j] = P[j]
      BY <1>1 DEF Rising
    <2> HIDE DEF P
    <2>2. QED
      BY <2>1, OnIs
  <1>9. \A k \in 1 .. n : k > 1 => P[k] # Genesis /\ Parent[P[k]] = P[k - 1]
    BY <1>1 DEF Rising
  <1> HIDE DEF P, n, m, H
  <1>10. ASSUME NEW i \in 1 .. n - m
         PROVE  /\ H[i] \in On(b) /\ H[i] # Genesis /\ H[i] # head /\ head \in On(H[i])
                /\ Parent[H[i]] = Reached(H, i - 1)
                /\ \A j \in 1 .. i : H[j] \in On(H[i])
                /\ \A j \in 1 .. i : H[j] = H[i] => j = i
    <2>1. H[i] = P[m + i] /\ H[i] \in On(b) /\ H[i] # Genesis /\ Parent[H[i]] = P[m + i - 1]
      BY <1>5, <1>6, <1>7, <1>9
    <2>2. head \in On(H[i])
      BY <1>3, <1>6, <1>8, <2>1
    <2>3. H[i] # head
      <3>1. Len(PathTo[P[m + i]]) = m + i /\ Len(PathTo[P[m]]) = m
        BY <1>3, <1>6, <1>7
      <3>2. m + i # m
        BY <1>2
      <3>3. QED
        BY <3>1, <3>2, <2>1, <1>3
    <2>4. Parent[H[i]] = Reached(H, i - 1)
      <3>1. CASE i = 1
        <4>1. i - 1 = 0
          BY <3>1
        <4>2. QED
          BY <3>1, <4>1, <2>1, <1>3, <1>6 DEF Reached
      <3>2. CASE i # 1
        <4>1. i - 1 # 0
          BY <3>2
        <4>2. H[i - 1] = P[m + (i - 1)]
          BY <3>2, <1>5, <1>6
        <4>3. QED
          BY <3>2, <4>1, <4>2, <2>1, <1>6 DEF Reached
      <3>3. QED
        BY <3>1, <3>2
    <2>5. ASSUME NEW j \in 1 .. i PROVE H[j] \in On(H[i]) /\ (H[j] = H[i] => j = i)
      <3>1. H[j] = P[m + j] /\ m + j \in 1 .. m + i /\ m + i \in 1 .. n /\ m + j \in 1 .. n
        BY <1>5, <1>6
      <3>2. H[j] \in On(H[i])
        BY <3>1, <2>1, <1>8
      <3>3. H[j] = H[i] => m + j = m + i
        BY <3>1, <2>1, <1>7
      <3>4. QED
        BY <3>2, <3>3, <1>2
    <2>6. QED
      BY <2>1, <2>2, <2>3, <2>4, <2>5
  <1>11. Reached(H, n - m) = b
    <2>1. n - m # 0 /\ n - m \in 1 .. n - m /\ m + (n - m) = n
      BY <1>2, <1>5
    <2>2. QED
      BY <2>1, <1>2, <1>5 DEF Reached
  <1>12. QED
    BY <1>5, <1>10, <1>11 DEF H

(* The promotion of the finalized hashes: the recursion has a solution.    *)
Before == [held |-> held, known |-> known, uncertain |-> uncertain]

Promoting(f, hs, n) ==
    f = [i \in 0 .. n |-> IF i = 0 THEN Before ELSE Promote(f[i - 1], hs[i])]

StepByStep(f, hs, n) ==
    /\ f = [i \in 0 .. n |-> f[i]]
    /\ f[0] = Before
    /\ \A i \in 1 .. n : f[i] = Promote(f[i - 1], hs[i])

LEMMA PromotingParts ==
    ASSUME NEW f, NEW hs, NEW n \in Nat
    PROVE  Promoting(f, hs, n) <=> StepByStep(f, hs, n)
  <1> DEFINE F(i) == IF i = 0 THEN Before ELSE Promote(f[i - 1], hs[i])
  <1>1. Promoting(f, hs, n) <=> f = [i \in 0 .. n |-> F(i)]
    BY DEF Promoting
  <1>2. F(0) = Before /\ \A i \in 1 .. n : F(i) = Promote(f[i - 1], hs[i])
    OBVIOUS
  <1>3. 0 \in 0 .. n /\ 1 .. n \subseteq 0 .. n /\ \A i \in 0 .. n : i = 0 \/ i \in 1 .. n
    OBVIOUS
  <1> HIDE DEF F
  <1>4. f = [i \in 0 .. n |-> F(i)] => \A i \in 0 .. n : f[i] = F(i)
    OBVIOUS
  <1>5. f = [i \in 0 .. n |-> F(i)] => f = [i \in 0 .. n |-> f[i]]
    OBVIOUS
  <1>6. f = [i \in 0 .. n |-> f[i]] /\ (\A i \in 0 .. n : f[i] = F(i)) => f = [i \in 0 .. n |-> F(i)]
    OBVIOUS
  <1>7. QED
    BY <1>1, <1>2, <1>3, <1>4, <1>5, <1>6 DEF StepByStep

LEMMA PromotingExists ==
    ASSUME NEW hs
    PROVE  \A n \in Nat : \E f : Promoting(f, hs, n)
  <1> DEFINE X == {n \in Nat : ~ \E f : Promoting(f, hs, n)}
  <1>1. SUFFICES ASSUME X # {} PROVE FALSE
    OBVIOUS
  <1>2. PICK n \in X : \A y \in X : ~(y < n)
    BY <1>1, LeastNatural
  <1>3. CASE n = 0
    <2>1. \E f : f = [i \in 0 .. 0 |-> Before]
      OBVIOUS
    <2>2. PICK f : f = [i \in 0 .. 0 |-> Before]
      BY <2>1
    <2>3. f = [i \in 0 .. 0 |-> f[i]] /\ f[0] = Before /\ 1 .. 0 = {} /\ 0 \in Nat
      BY <2>2
    <2>4. StepByStep(f, hs, 0) /\ 0 \in Nat
      BY <2>3 DEF StepByStep
    <2>5. QED
      BY <1>2, <1>3, <2>4, PromotingParts
  <1>4. CASE n # 0
    <2>1. n \in Nat /\ n - 1 \in Nat /\ n - 1 < n
      BY <1>4
    <2>2. PICK g : Promoting(g, hs, n - 1)
      BY <1>2, <2>1
    <2>3. \E f : f = [i \in 0 .. n |-> IF i = n THEN Promote(g[n - 1], hs[n]) ELSE g[i]]
      OBVIOUS
    <2>4. PICK f : f = [i \in 0 .. n |-> IF i = n THEN Promote(g[n - 1], hs[n]) ELSE g[i]]
      BY <2>3
    <2>5. f = [i \in 0 .. n |-> f[i]] /\ f[n] = Promote(g[n - 1], hs[n])
      BY <2>1, <2>4
    <2>6. \A i \in 0 .. n - 1 : f[i] = g[i]
      BY <2>1, <2>4
    <2>7. g[0] = Before /\ \A i \in 1 .. n - 1 : g[i] = Promote(g[i - 1], hs[i])
      BY <2>1, <2>2, PromotingParts DEF StepByStep
    <2>8. f[0] = Before
      <3>1. 0 \in 0 .. n - 1
        BY <2>1
      <3>2. QED
        BY <3>1, <2>6, <2>7
    <2>9. ASSUME NEW i \in 1 .. n PROVE f[i] = Promote(f[i - 1], hs[i])
      <3>1. i - 1 \in 0 .. n - 1
        BY <2>1
      <3>2. f[i - 1] = g[i - 1]
        BY <3>1, <2>6
      <3>3. CASE i = n
        BY <3>2, <3>3, <2>5
      <3>4. CASE i # n
        <4>1. i \in 0 .. n - 1 /\ i \in 1 .. n - 1
          BY <3>4, <2>1
        <4>2. f[i] = g[i]
          BY <4>1, <2>6
        <4>3. QED
          BY <4>1, <4>2, <3>2, <2>7
      <3>5. QED
        BY <3>3, <3>4
    <2>10. StepByStep(f, hs, n)
      BY <2>5, <2>8, <2>9 DEF StepByStep
    <2>11. QED
      BY <1>2, <2>1, <2>10, PromotingParts
  <1>5. QED
    BY <1>3, <1>4

LEMMA PromotedIs ==
    ASSUME NEW hs, Len(hs) \in Nat
    PROVE  \E f : /\ f[0] = Before
                  /\ \A i \in 1 .. Len(hs) : f[i] = Promote(f[i - 1], hs[i])
                  /\ Promoted(hs) = f[Len(hs)]
  <1> DEFINE f == CHOOSE f : Promoting(f, hs, Len(hs))
  <1>1. Promoting(f, hs, Len(hs))
    BY PromotingExists
  <1>2. Promoted(hs) = f[Len(hs)]
    BY DEF Promoted, Promoting, Before
  <1> HIDE DEF f
  <1>3. QED
    BY <1>1, <1>2, PromotingParts DEF StepByStep

(* What the promotion of the first i hashes leaves.                        *)
PromotionFits(st, hs, i) ==
    /\ st = [held |-> st.held, known |-> st.known, uncertain |-> st.uncertain]
    /\ st.held = {a \in held : \A j \in 1 .. i : a # hs[j]}
    /\ st.known \in Runtimes \union {None} /\ st.uncertain \in BOOLEAN
    /\ ~st.uncertain => Reports(runtimeOf, Reached(hs, i), st.known)
    /\ ~st.uncertain => ~uncertain \/ \E j \in 1 .. i : hs[j] \in held

(* What was dropped came before everything held, so a hash that is not     *)
(* held, after one that is, changed no runtime the node can report.        *)
LEMMA PromotionStep ==
    ASSUME SessionInv, NEW b \in announced, head \in On(b), b # head,
           NEW i \in 1 .. Len(HashesTo(b)), NEW st, PromotionFits(st, HashesTo(b), i - 1)
    PROVE  PromotionFits(Promote(st, HashesTo(b)[i]), HashesTo(b), i)
  <1> DEFINE H == HashesTo(b)
             c == H[i]
             r == Reached(H, i - 1)
  <1>1. /\ runtimeOf \in RuntimeMaps /\ runtimeOf \in [Blocks -> Runtimes]
        /\ announced \subseteq Blocks /\ head \in Blocks /\ b \in Blocks
        /\ held \subseteq Blocks /\ None \notin Runtimes
    BY TypeParts DEF SessionInv
  <1>2. /\ Len(H) \in Nat
        /\ c \in On(b) /\ c # Genesis /\ c # head /\ head \in On(c) /\ Parent[c] = r
        /\ \A j \in 1 .. i : H[j] \in On(c) /\ (H[j] = c => j = i)
    BY <1>1, HashesParts
  <1>3. c \in announced /\ c \in Blocks /\ r \in Blocks /\ On(c) = On(r) \union {c}
    <2>1. c \in announced
      BY <1>2, AnnouncedPaths DEF SessionInv, ChainInv
    <2>2. QED
      BY <2>1, <1>1, <1>2, OnParts
  <1>4. Reached(H, i) = c
    BY <1>2 DEF Reached
  <1>5. i \in Nat /\ i >= 1 /\ \A j : j \in 1 .. i <=> j \in 1 .. i - 1 \/ j = i
    BY <1>2
  <1>6. HeldFits
    BY DEF SessionInv, ChainInv
  <1>7. /\ st = [held |-> st.held, known |-> st.known, uncertain |-> st.uncertain]
        /\ st.held = {a \in held : \A j \in 1 .. i - 1 : a # H[j]}
        /\ st.known \in Runtimes \union {None} /\ st.uncertain \in BOOLEAN
        /\ ~st.uncertain => Reports(runtimeOf, r, st.known)
        /\ ~st.uncertain => ~uncertain \/ \E j \in 1 .. i - 1 : H[j] \in held
    BY DEF PromotionFits
  <1>8. c \in st.held <=> c \in held
    BY <1>2, <1>5, <1>7
  <1>9. CASE c \in held
    <2>1. c \in Pending(head)
      BY <1>6, <1>9 DEF HeldFits
    <2>2. runtimeOf[c] \notin Unreadable /\ runtimeOf[c] \in Runtimes
      BY <1>1, <1>3, <2>1 DEF Pending, Changed
    <2> DEFINE t == Promote(st, c)
    <2>3. t = [held |-> st.held \ {c}, known |-> runtimeOf[c], uncertain |-> FALSE]
      BY <1>8, <1>9 DEF Promote
    <2>4. t.held = st.held \ {c} /\ t.known = runtimeOf[c] /\ t.uncertain = FALSE
      BY <2>3
    <2>5. t = [held |-> t.held, known |-> t.known, uncertain |-> t.uncertain]
      BY <2>3
    <2>6. st.held \ {c} = {a \in held : \A j \in 1 .. i : a # H[j]}
      BY <1>5, <1>7
    <2>7. Reports(runtimeOf, c, runtimeOf[c])
      BY <1>3, <2>2, OnParts DEF Reports, RuntimeReport
    <2>8. \E j \in 1 .. i : H[j] \in held
      BY <1>5, <1>9
    <2> HIDE DEF t, H, c
    <2>9. PromotionFits(t, H, i)
      BY <1>4, <2>2, <2>4, <2>5, <2>6, <2>7, <2>8 DEF PromotionFits
    <2>10. QED
      BY <2>9 DEF t, H, c
  <1>10. CASE c \notin held
    <2>1. Promote(st, c) = st
      BY <1>8, <1>10 DEF Promote
    <2>2. st.held = {a \in held : \A j \in 1 .. i : a # H[j]}
      BY <1>5, <1>7, <1>10
    <2>3. ~st.uncertain => ~Changed(c)
      <3>1. SUFFICES ASSUME ~st.uncertain, Changed(c) PROVE FALSE
        OBVIOUS
      <3>2. c \in Pending(head)
        BY <1>2, <1>3, <3>1 DEF Pending
      <3>3. uncertain
        BY <1>6, <1>10, <3>2 DEF HeldFits
      <3>4. PICK j \in 1 .. i - 1 : H[j] \in held
        BY <1>7, <3>1, <3>3
      <3>5. H[j] \in On(c)
        BY <1>2, <1>5
      <3>6. QED
        BY <1>6, <1>10, <3>2, <3>4, <3>5 DEF HeldFits
    <2>4. ~Changed(c) /\ Reports(runtimeOf, r, st.known) => Reports(runtimeOf, c, st.known)
      <3>1. SUFFICES ASSUME runtimeOf[c] \in Unreadable \/ runtimeOf[c] = runtimeOf[r],
                            Reports(runtimeOf, r, st.known)
                     PROVE  Reports(runtimeOf, c, st.known)
        BY <1>2 DEF Changed
      <3>2. PICK a \in On(r) : /\ st.known = RuntimeReport(runtimeOf[a])
                               /\ \A x \in On(r) \ On(a) : runtimeOf[x] \in Unreadable
        BY <3>1 DEF Reports
      <3>3. CASE runtimeOf[c] \in Unreadable
        <4>1. a \in On(c) /\ \A x \in On(c) \ On(a) : runtimeOf[x] \in Unreadable
          BY <1>3, <3>2, <3>3
        <4>2. QED
          BY <3>2, <4>1 DEF Reports
      <3>4. CASE runtimeOf[c] \notin Unreadable
        <4>1. r \in On(a) /\ a = r
          BY <1>3, <3>1, <3>2, <3>4, OnParts, OnOrder
        <4>2. st.known = RuntimeReport(runtimeOf[c]) /\ c \in On(c) /\ On(c) \ On(c) = {}
          BY <1>3, <3>1, <3>2, <3>4, <4>1, OnParts
        <4>3. QED
          BY <4>2 DEF Reports
      <3>5. QED
        BY <3>3, <3>4
    <2>5. ~st.uncertain => Reports(runtimeOf, c, st.known)
      BY <1>7, <2>3, <2>4
    <2>6. ~st.uncertain => ~uncertain \/ \E j \in 1 .. i : H[j] \in held
      BY <1>5, <1>7
    <2> HIDE DEF H, c
    <2>7. PromotionFits(st, H, i)
      BY <1>4, <1>7, <2>2, <2>5, <2>6 DEF PromotionFits
    <2>8. QED
      BY <2>1, <2>7 DEF H, c
  <1>11. QED
    BY <1>9, <1>10

LEMMA PromotionKeeps ==
    ASSUME SessionInv, NEW b \in announced, head \in On(b), b # head
    PROVE  PromotionFits(Promoted(HashesTo(b)), HashesTo(b), Len(HashesTo(b)))
  <1> DEFINE H == HashesTo(b)
  <1>1. head \in Blocks /\ b \in Blocks
    BY TypeParts DEF SessionInv
  <1>2. Len(H) \in Nat
    BY <1>1, HashesParts
  <1>3. PICK f : /\ f[0] = Before
                 /\ \A i \in 1 .. Len(H) : f[i] = Promote(f[i - 1], H[i])
                 /\ Promoted(H) = f[Len(H)]
    BY <1>2, PromotedIs
  <1> DEFINE X == {i \in 0 .. Len(H) : ~PromotionFits(f[i], H, i)}
  <1>4. ASSUME X # {} PROVE FALSE
    <2>1. X \subseteq Nat
      BY <1>2
    <2>2. PICK i \in X : \A y \in X : ~(y < i)
      BY <1>4, <2>1, LeastNatural
    <2>3. CASE i = 0
      <3>1. Reached(H, 0) = head /\ 1 .. 0 = {}
        BY DEF Reached
      <3>2. /\ Before = [held |-> Before.held, known |-> Before.known, uncertain |-> Before.uncertain]
            /\ Before.held = held /\ Before.known = known /\ Before.uncertain = uncertain
        BY DEF Before
      <3>3. KnownFits /\ known \in Runtimes \union {None} /\ uncertain \in BOOLEAN
        BY DEF SessionInv, ChainInv, TypeOK
      <3> HIDE DEF H
      <3>4. PromotionFits(Before, H, 0)
        BY <3>1, <3>2, <3>3 DEF PromotionFits, KnownFits
      <3>5. QED
        BY <2>2, <2>3, <3>4, <1>3
    <2>4. CASE i # 0
      <3>1. i \in 1 .. Len(H) /\ i - 1 \in 0 .. Len(H) /\ i - 1 < i
        BY <1>2, <2>2, <2>4
      <3>2. PromotionFits(f[i - 1], H, i - 1)
        BY <2>2, <3>1
      <3>3. PromotionFits(Promote(f[i - 1], H[i]), H, i)
        BY <3>1, <3>2, PromotionStep
      <3>4. QED
        BY <2>2, <3>1, <3>3, <1>3
    <2>5. QED
      BY <2>3, <2>4
  <1>5. Len(H) \in 0 .. Len(H)
    BY <1>2
  <1>6. QED
    BY <1>3, <1>4, <1>5

(* What a step leaves of the connection's part of the types.               *)
ConnectionTypes ==
    /\ runtimeOf \in RuntimeMaps
    /\ announced \subseteq Blocks /\ head \in announced /\ held \subseteq announced
    /\ Cardinality(held) <= MaxHeld
    /\ known \in Runtimes \union {None} /\ uncertain \in BOOLEAN

(* A runtime the connection may report when h is finalized.                *)
Answers(f, h, now) ==
    /\ now \in Runtimes \union {None}
    /\ now # None => Reports(f, h, now)

LEMMA ReportSound ==
    ASSUME SessionInv
    PROVE  Answers(runtimeOf, head, FinalizedRuntime)
  BY TypeParts DEF SessionInv, ChainInv, KnownFits, Answers

LEMMA NewBlockKeeps ==
    ASSUME SessionInv, NEW b \in Blocks \ {Genesis}, NewBlock(b)
    PROVE  ChainInv' /\ ConnectionTypes'
  <1>1. /\ runtimeOf \in [Blocks -> Runtimes] /\ runtimeOf \in RuntimeMaps
        /\ announced \subseteq Blocks /\ head \in Blocks /\ head \in announced
        /\ held \subseteq announced /\ Cardinality(held) <= MaxHeld
        /\ known \in Runtimes \union {None} /\ uncertain \in BOOLEAN
        /\ None \notin Runtimes
    BY TypeParts DEF SessionInv, TypeOK
  <1>2. /\ b \notin announced /\ Parent[b] \in announced /\ head \in On(b)
        /\ announced' = announced \union {b}
        /\ runtimeOf' = runtimeOf /\ head' = head /\ known' = known
    BY DEF NewBlock
  <1>3. AnnouncedFits /\ HeldFits /\ KnownFits
    BY DEF SessionInv, ChainInv
  <1>4. AnnouncedFits'
    BY <1>2, <1>3 DEF AnnouncedFits
  <1>5. \A d \in Pending(head) : b \notin On(d)
    BY <1>2, <1>3, AnnouncedPaths DEF Pending, SessionInv
  <1>6. CASE Changed(b)
    <2>1. RecordAnnounced(b)
      BY <1>1, <1>2, <1>6 DEF NewBlock, Changed, RuntimeReport
    <2>2. Pending(head)' = Pending(head) \union {b}
      BY <1>1, <1>2, <1>6 DEF Pending, Changed
    <2>3. CASE Cardinality(held) < MaxHeld
      <3>1. held' = held \union {b} /\ uncertain' = uncertain
        BY <2>1, <2>3 DEF RecordAnnounced
      <3>2. IsFiniteSet(held') /\ Cardinality(held') <= MaxHeld
        <4>1. IsFiniteSet(held) /\ b \notin held
          BY <1>1, <1>2, <1>3 DEF HeldFits
        <4>2. IsFiniteSet(held \union {b}) /\ Cardinality(held \union {b}) = Cardinality(held) + 1
          BY <4>1, FS_AddElement
        <4>3. Cardinality(held) \in Nat
          BY <4>1, FS_CardinalityType
        <4>4. QED
          BY <2>3, <3>1, <4>2, <4>3, MaxHeldAssumption
      <3>3. HeldFits'
        <4>1. held' \subseteq Pending(head)'
          BY <1>3, <2>2, <3>1 DEF HeldFits
        <4>2. \A x \in held', d \in Pending(head)' : x \in On(d) => d \in held'
          BY <1>3, <1>5, <2>2, <3>1 DEF HeldFits
        <4>3. ~uncertain' => held' = Pending(head)'
          BY <1>3, <2>2, <3>1 DEF HeldFits
        <4>4. QED
          BY <3>2, <4>1, <4>2, <4>3 DEF HeldFits
      <3>4. KnownFits'
        BY <1>2, <1>3, <3>1 DEF KnownFits
      <3>5. QED
        BY <1>1, <1>2, <1>4, <3>1, <3>2, <3>3, <3>4 DEF ChainInv, ConnectionTypes
    <2>4. CASE ~(Cardinality(held) < MaxHeld)
      <3>1. held' = {} /\ uncertain' = TRUE
        BY <2>1, <2>4 DEF RecordAnnounced
      <3>2. IsFiniteSet({}) /\ Cardinality({}) = 0
        BY FS_EmptySet
      <3>3. HeldFits'
        BY <3>1, <3>2 DEF HeldFits
      <3>4. KnownFits'
        BY <1>2, <1>3, <3>1 DEF KnownFits
      <3>5. QED
        BY <1>1, <1>2, <1>4, <3>1, <3>2, <3>3, <3>4, MaxHeldAssumption DEF ChainInv, ConnectionTypes
    <2>5. QED
      BY <2>3, <2>4
  <1>7. CASE ~Changed(b)
    <2>1. held' = held /\ uncertain' = uncertain
      BY <1>2, <1>7 DEF NewBlock, Changed, RuntimeReport
    <2>2. Pending(head)' = Pending(head)
      BY <1>2, <1>7 DEF Pending, Changed
    <2>3. HeldFits'
      BY <1>3, <2>1, <2>2 DEF HeldFits
    <2>4. KnownFits'
      BY <1>2, <1>3, <2>1 DEF KnownFits
    <2>5. QED
      BY <1>1, <1>2, <1>4, <2>1, <2>3, <2>4 DEF ChainInv, ConnectionTypes
  <1>8. QED
    BY <1>6, <1>7

LEMMA FinalizedKeeps ==
    ASSUME SessionInv, NEW b \in Blocks \ {Genesis}, Finalized(b)
    PROVE  /\ ChainInv' /\ ConnectionTypes'
           /\ head' = b /\ head \in On(b) /\ runtimeOf' = runtimeOf
           /\ \E now : OnBlock(now) /\ Answers(runtimeOf, b, now)
  <1> DEFINE H == HashesTo(b)
             st == Promoted(H)
             n == Len(H)
  <1>1. /\ runtimeOf \in [Blocks -> Runtimes] /\ runtimeOf \in RuntimeMaps
        /\ announced \subseteq Blocks /\ head \in Blocks /\ head \in announced
        /\ held \subseteq announced /\ Cardinality(held) <= MaxHeld
        /\ None \notin Runtimes
    BY TypeParts DEF SessionInv, TypeOK
  <1>2. /\ b \in announced /\ b # head /\ head \in On(b)
        /\ runtimeOf' = runtimeOf /\ announced' = announced /\ head' = b
        /\ held' = {a \in st.held : b \in On(a)}
        /\ known' = st.known /\ uncertain' = st.uncertain
        /\ OnBlock(IF st.uncertain THEN None ELSE st.known)
    BY DEF Finalized, HashesTo
  <1>3. AnnouncedFits /\ HeldFits
    BY DEF SessionInv, ChainInv
  <1>4. PromotionFits(st, H, n)
    BY <1>2, PromotionKeeps
  <1>5. /\ n \in Nat /\ Reached(H, n) = b
        /\ \A i \in 1 .. n : H[i] \in On(b)
    BY <1>1, <1>2, HashesParts
  <1>6. \E i \in 1 .. n : b = H[i]
    <2>1. n # 0
      BY <1>2, <1>5 DEF Reached
    <2>2. n \in 1 .. n /\ b = H[n]
      BY <1>5, <2>1 DEF Reached
    <2>3. QED
      BY <2>2
  <1> HIDE DEF H, st, n
  <1>7. /\ st.held = {a \in held : \A i \in 1 .. n : a # H[i]}
        /\ st.known \in Runtimes \union {None} /\ st.uncertain \in BOOLEAN
        /\ ~st.uncertain => Reports(runtimeOf, b, st.known)
        /\ ~st.uncertain => ~uncertain \/ \E i \in 1 .. n : H[i] \in held
    BY <1>4, <1>5 DEF PromotionFits
  <1>8. ASSUME NEW d \in announced, Changed(d), b \in On(d), d # b
        PROVE  d \in Pending(head) /\ \A i \in 1 .. n : d # H[i]
    <2>1. d \in Blocks
      BY <1>1
    <2>2. head \in On(d)
      BY <1>2, <1>8, <2>1, OnOrder
    <2>3. d \notin On(b)
      BY <1>8, <2>1, OnOrder
    <2>4. d # head
      BY <1>2, <2>3
    <2>5. QED
      BY <1>5, <1>8, <2>2, <2>3, <2>4 DEF Pending
  <1>9. Pending(head)' = {d \in announced : Changed(d) /\ b \in On(d) /\ d # b}
    BY <1>2 DEF Pending, Changed
  <1>10. HeldFits'
    <2>1. held' \subseteq held
      BY <1>2, <1>7
    <2>2. IsFiniteSet(held')
      BY <1>3, <2>1, FS_Subset DEF HeldFits
    <2>3. held' \subseteq Pending(head)'
      <3>1. \A a \in held' : a \in announced /\ Changed(a) /\ b \in On(a) /\ a # b
        BY <1>2, <1>3, <1>6, <1>7 DEF HeldFits, Pending
      <3>2. QED
        BY <1>9, <3>1
    <2>4. \A x \in held', d \in Pending(head)' : x \in On(d) => d \in held'
      <3>1. ASSUME NEW x \in held', NEW d \in Pending(head)', x \in On(d) PROVE d \in held'
        <4>1. d \in Pending(head) /\ (\A i \in 1 .. n : d # H[i]) /\ b \in On(d)
          BY <1>8, <1>9
        <4>2. d \in held
          BY <1>3, <2>1, <3>1, <4>1 DEF HeldFits
        <4>3. QED
          BY <1>2, <1>7, <4>1, <4>2
      <3>2. QED
        BY <3>1
    <2>5. ASSUME ~uncertain' PROVE held' = Pending(head)'
      <3>1. ASSUME NEW d \in Pending(head)' PROVE d \in held'
        <4>1. d \in Pending(head) /\ (\A i \in 1 .. n : d # H[i]) /\ b \in On(d) /\ d \in Blocks
          BY <1>1, <1>8, <1>9
        <4>2. CASE ~uncertain
          BY <1>2, <1>3, <1>7, <4>1, <4>2 DEF HeldFits
        <4>3. CASE uncertain
          <5>1. PICK i \in 1 .. n : H[i] \in held
            BY <1>2, <1>7, <2>5, <4>3
          <5>2. H[i] \in On(d)
            BY <1>5, <4>1, OnOrder
          <5>3. d \in held
            BY <1>3, <4>1, <5>1, <5>2 DEF HeldFits
          <5>4. QED
            BY <1>2, <1>7, <4>1, <5>3
        <4>4. QED
          BY <4>2, <4>3
      <3>2. QED
        BY <2>3, <3>1
    <2>6. QED
      BY <2>2, <2>3, <2>4, <2>5 DEF HeldFits
  <1>11. KnownFits'
    BY <1>2, <1>7 DEF KnownFits
  <1>12. AnnouncedFits'
    BY <1>2, <1>3 DEF AnnouncedFits
  <1>13. held' \subseteq held /\ Cardinality(held') <= MaxHeld
    <2>1. held' \subseteq held
      BY <1>2, <1>7
    <2>2. IsFiniteSet(held) /\ IsFiniteSet(held')
      BY <1>3, <1>10 DEF HeldFits
    <2>3. Cardinality(held') <= Cardinality(held)
      BY <2>1, <2>2, FS_Subset
    <2>4. Cardinality(held') \in Nat /\ Cardinality(held) \in Nat
      BY <2>2, FS_CardinalityType
    <2>5. QED
      BY <1>1, <2>1, <2>3, <2>4, MaxHeldAssumption
  <1>14. ConnectionTypes'
    BY <1>1, <1>2, <1>7, <1>13 DEF ConnectionTypes
  <1> DEFINE now == IF st.uncertain THEN None ELSE st.known
  <1>15. Answers(runtimeOf, b, now)
    BY <1>1, <1>7 DEF Answers
  <1>16. OnBlock(now)
    BY <1>2
  <1> HIDE DEF now
  <1>17. QED
    BY <1>2, <1>10, <1>11, <1>12, <1>14, <1>15, <1>16 DEF ChainInv

----------------------------------------------------------------------------
(* The watch.                                                              *)

WatchTypes ==
    /\ phase \in {"connected", "boot", "reading", "watching", "failed"}
    /\ observed \in Runtimes \union {None}
    /\ probe \in [label : Supported \union {None}, examined : Runtimes \union {None}]
    /\ rerun \in BOOLEAN /\ timer \in BOOLEAN
    /\ screen \in Verdicts /\ reads \subseteq Runtimes \ Supported

WatchInv == WatchTypes /\ ProbeFits /\ ScreenFits

LEMMA InvariantSplits == SessionInv <=> ConnectionTypes /\ ChainInv /\ WatchInv
  BY DEF SessionInv, TypeOK, ConnectionTypes, WatchTypes, WatchInv

LEMMA VerdictTypes ==
    /\ Unestablished \in Verdicts /\ Unestablished.mode \notin Open
    /\ Blank \in Verdicts /\ Blank.mode \notin Open
    /\ \A r \in Runtimes : Stranded(r) \in Verdicts /\ Stranded(r).mode \notin Open
    /\ Idle \in [label : Supported \union {None}, examined : Runtimes \union {None}]
    /\ Idle.label = None /\ Idle.examined = None
  BY DEF Verdicts, Open, Unestablished, Blank, Stranded, Idle

(* A verdict that may be shown, or is not one that opens a surface.        *)
Opens(verdict) == verdict.mode \in Open

Sound(verdict, f, h, ob) ==
    Opens(verdict) => /\ verdict.runtime = ob /\ ob # None
                      /\ Reports(f, h, verdict.runtime)

(* A probe that starts on what the connection reports of the head.         *)
LEMMA ProbeKeeps ==
    ASSUME NEW now, NEW shown \in Verdicts, NEW armed \in BOOLEAN,
           Probe(now, shown, armed), phase' = "watching", Answers(runtimeOf', head', now),
           reads \subseteq Runtimes \ Supported,
           Sound(shown, runtimeOf', head', now), Opens(shown) => ~armed
    PROVE  WatchInv'
  <1>1. now \in Runtimes \union {None} /\ None \notin Runtimes /\ Supported \subseteq Runtimes
    BY RuntimesAssumption DEF Answers
  <1>2. observed' = now /\ rerun' = FALSE
    BY DEF Probe
  <1>3. CASE now = None
    <2>1. screen' = Unestablished /\ timer' = TRUE /\ probe' = Idle /\ reads' = reads
      BY <1>1, <1>3 DEF Probe
    <2>2. WatchTypes'
      BY <1>1, <1>2, <2>1, VerdictTypes DEF WatchTypes, Verdicts
    <2>3. ProbeFits' /\ ScreenFits'
      BY <2>1, VerdictTypes DEF ProbeFits, ScreenFits, Full
    <2>4. QED
      BY <2>2, <2>3 DEF WatchInv
  <1>4. CASE now \in Runtimes \ Supported
    <2>1. screen' = Stranded(now) /\ timer' = FALSE /\ probe' = Idle /\ reads' = reads \union {now}
      BY <1>1, <1>4 DEF Probe
    <2>2. WatchTypes'
      BY <1>1, <1>2, <1>4, <2>1, VerdictTypes DEF WatchTypes, Verdicts
    <2>3. ProbeFits' /\ ScreenFits'
      BY <1>4, <2>1, VerdictTypes DEF ProbeFits, ScreenFits, Full
    <2>4. QED
      BY <2>2, <2>3 DEF WatchInv
  <1>5. CASE now \in Supported
    <2>1. /\ probe' = [label |-> now, examined |-> None]
          /\ screen' = shown /\ timer' = armed /\ reads' = reads
      BY <1>1, <1>5 DEF Probe
    <2>2. probe'.label = now /\ probe'.examined = None
      BY <2>1
    <2>3. WatchTypes'
      BY <1>1, <1>2, <1>5, <2>1 DEF WatchTypes, Verdicts
    <2>4. ProbeFits'
      BY <1>1, <1>2, <1>5, <2>2 DEF ProbeFits
    <2>5. ScreenFits'
      BY <1>2, <2>1 DEF ScreenFits, Full, Sound, Opens
    <2>6. QED
      BY <2>3, <2>4, <2>5 DEF WatchInv
  <1>6. QED
    BY <1>1, <1>3, <1>4, <1>5

(* A new head: the verdict goes, or the watch has looked at its runtime.   *)
LEMMA OnBlockKeeps ==
    ASSUME SessionInv, NEW b \in Blocks, head \in On(b), head' = b, runtimeOf' = runtimeOf,
           NEW now, OnBlock(now), Answers(runtimeOf, b, now)
    PROVE  WatchInv'
  <1>1. WatchTypes /\ ProbeFits /\ ScreenFits
    BY InvariantSplits DEF WatchInv
  <1>2. CASE phase # "watching" \/ now = observed
    <2>1. UNCHANGED <<phase, observed, probe, rerun, timer, screen, reads>>
      BY <1>2 DEF OnBlock, watch
    <2>2. WatchTypes'
      BY <1>1, <2>1 DEF WatchTypes, Verdicts
    <2>3. ProbeFits'
      BY <1>1, <2>1 DEF ProbeFits
    <2>4. ScreenFits'
      <3>1. SUFFICES ASSUME Full PROVE ScreenFits'
        BY <2>1 DEF ScreenFits, Full
      <3>2. phase = "watching" /\ ~timer /\ screen.runtime = observed /\ observed # None
        BY <1>1, <3>1 DEF ScreenFits
      <3>3. now = screen.runtime /\ now # None
        BY <1>2, <3>2
      <3>4. Reports(runtimeOf, b, screen.runtime)
        BY <3>3 DEF Answers
      <3>5. QED
        BY <2>1, <3>2, <3>4 DEF ScreenFits
    <2>5. QED
      BY <2>2, <2>3, <2>4 DEF WatchInv
  <1>3. CASE phase = "watching" /\ now # observed /\ probe # Idle
    <2>1. /\ phase' = phase /\ observed' = now /\ rerun' = TRUE /\ timer' = FALSE
          /\ screen' = Unestablished /\ probe' = probe /\ reads' = reads
      BY <1>3 DEF OnBlock
    <2>2. WatchTypes'
      BY <1>1, <2>1, VerdictTypes DEF WatchTypes, Verdicts, Answers
    <2>3. ProbeFits'
      BY <1>1, <2>1 DEF ProbeFits
    <2>4. ScreenFits'
      BY <2>1, VerdictTypes DEF ScreenFits, Full
    <2>5. QED
      BY <2>2, <2>3, <2>4 DEF WatchInv
  <1>4. CASE phase = "watching" /\ now # observed /\ ~(probe # Idle)
    <2>1. phase' = "watching" /\ Probe(now, Unestablished, FALSE)
      BY <1>4 DEF OnBlock
    <2>2. Unestablished \in Verdicts /\ ~Opens(Unestablished)
      BY VerdictTypes DEF Opens
    <2>3. Sound(Unestablished, runtimeOf', head', now)
      BY <2>2 DEF Sound
    <2>4. reads \subseteq Runtimes \ Supported /\ Answers(runtimeOf', head', now)
      BY <1>1 DEF WatchTypes
    <2>5. QED
      BY <2>1, <2>2, <2>3, <2>4, ProbeKeeps
  <1>5. QED
    BY <1>2, <1>3, <1>4

(* The probe in flight ends.                                               *)
LEMMA ProbeEndsKeeps ==
    ASSUME SessionInv, probe # Idle, NEW verdict \in Verdicts, ProbeEnds(verdict),
           verdict = Unestablished => ~Opens(verdict),
           Opens(verdict) =>
             verdict.runtime = probe.label /\ probe.label = FinalizedRuntime
    PROVE  WatchInv'
  <1>1. WatchTypes /\ ProbeFits /\ ScreenFits
    BY InvariantSplits DEF WatchInv
  <1>2. Answers(runtimeOf, head, FinalizedRuntime) /\ None \notin Runtimes
    BY ReportSound, RuntimesAssumption
  <1>3. runtimeOf' = runtimeOf /\ head' = head
    BY DEF ProbeEnds, connection
  <1>4. probe.label # None
    BY <1>1 DEF ProbeFits
  <1>5. phase \in {"boot", "watching"}
    BY <1>1, <1>4 DEF ProbeFits
  <1>6. Sound(verdict, runtimeOf, head, FinalizedRuntime)
    BY <1>2, <1>4 DEF Sound, Answers
  <1>7. CASE phase = "boot"
    <2>1. /\ phase' = "watching" /\ observed' = FinalizedRuntime
          /\ timer' = (verdict = Unestablished) /\ rerun' = FALSE /\ probe' = Idle
          /\ screen' = verdict /\ reads' = reads
      BY <1>7 DEF ProbeEnds, StartWatch
    <2>2. WatchTypes'
      BY <1>1, <1>2, <2>1, VerdictTypes DEF WatchTypes, Answers, Verdicts
    <2>3. ProbeFits'
      BY <2>1, VerdictTypes DEF ProbeFits
    <2>4. ScreenFits'
      BY <1>3, <1>6, <2>1 DEF ScreenFits, Full, Sound, Opens
    <2>5. QED
      BY <2>2, <2>3, <2>4 DEF WatchInv
  <1>8. CASE phase # "boot" /\ rerun
    <2>1. phase' = "watching" /\ Probe(FinalizedRuntime, verdict, verdict = Unestablished)
      BY <1>5, <1>8 DEF ProbeEnds
    <2>2. (verdict = Unestablished) \in BOOLEAN
      OBVIOUS
    <2>3. Opens(verdict) => ~(verdict = Unestablished)
      OBVIOUS
    <2>4. reads \subseteq Runtimes \ Supported
      BY <1>1 DEF WatchTypes
    <2>5. /\ Answers(runtimeOf', head', FinalizedRuntime)
          /\ Sound(verdict, runtimeOf', head', FinalizedRuntime)
      BY <1>2, <1>3, <1>6
    <2>6. QED
      BY <2>1, <2>2, <2>3, <2>4, <2>5, ProbeKeeps
  <1>9. CASE phase # "boot" /\ ~rerun
    <2>1. /\ phase' = phase /\ screen' = verdict /\ timer' = (verdict = Unestablished)
          /\ probe' = Idle /\ observed' = observed /\ rerun' = rerun /\ reads' = reads
      BY <1>9 DEF ProbeEnds
    <2>2. observed = probe.label
      BY <1>1, <1>4, <1>5, <1>9 DEF ProbeFits
    <2>3. WatchTypes'
      BY <1>1, <2>1, VerdictTypes DEF WatchTypes, Verdicts
    <2>4. ProbeFits'
      BY <1>5, <1>9, <2>1, VerdictTypes DEF ProbeFits
    <2>5. ScreenFits'
      BY <1>3, <1>5, <1>6, <1>9, <2>1, <2>2 DEF ScreenFits, Full, Sound, Opens
    <2>6. QED
      BY <2>3, <2>4, <2>5 DEF WatchInv
  <1>10. QED
    BY <1>7, <1>8, <1>9

LEMMA ConnectionStays ==
    ASSUME SessionInv, UNCHANGED <<runtimeOf, connection>>
    PROVE  ConnectionTypes' /\ ChainInv' /\ runtimeOf' = runtimeOf /\ head' = head
  <1>1. ConnectionTypes /\ ChainInv
    BY InvariantSplits
  <1>2. /\ runtimeOf' = runtimeOf /\ head' = head /\ announced' = announced
        /\ held' = held /\ known' = known /\ uncertain' = uncertain
    BY DEF connection
  <1>3. Pending(head)' = Pending(head)
    BY <1>2 DEF Pending, Changed
  <1>4. AnnouncedFits' /\ HeldFits' /\ KnownFits'
    BY <1>1, <1>2, <1>3 DEF ChainInv, AnnouncedFits, HeldFits, KnownFits
  <1>5. QED
    BY <1>1, <1>2, <1>4 DEF ConnectionTypes, ChainInv

LEMMA WatchStays ==
    ASSUME SessionInv, UNCHANGED <<watch, screen, reads>>, runtimeOf' = runtimeOf, head' = head
    PROVE  WatchInv'
  <1>1. WatchInv
    BY InvariantSplits
  <1>2. UNCHANGED <<phase, observed, probe, rerun, timer, screen, reads>>
    BY DEF watch
  <1>3. QED
    BY <1>1, <1>2 DEF WatchInv, WatchTypes, Verdicts, ProbeFits, ScreenFits, Full

LEMMA ProbeFailsKeeps ==
    ASSUME SessionInv, ProbeFails
    PROVE  SessionInv'
  <1>1. Unestablished \in Verdicts /\ ~Opens(Unestablished)
    BY VerdictTypes DEF Opens
  <1>2. WatchInv'
    BY <1>1, ProbeEndsKeeps DEF ProbeFails
  <1>3. QED
    BY <1>2, ConnectionStays, InvariantSplits, PTL DEF ProbeFails, ProbeEnds

LEMMA ProbeCompletesKeeps ==
    ASSUME SessionInv, ProbeCompletes
    PROVE  SessionInv'
  <1> DEFINE verdict == Classify(probe, FinalizedRuntime)
  <1>1. WatchTypes /\ ProbeFits
    BY InvariantSplits DEF WatchInv
  <1>2. probe.examined # None /\ probe # Idle
    BY VerdictTypes DEF ProbeCompletes
  <1>3. probe.label \in Runtimes \union {None}
    BY <1>1, RuntimesAssumption DEF WatchTypes
  <1>4. /\ verdict \in Verdicts
        /\ verdict = Unestablished => ~Opens(verdict)
        /\ Opens(verdict) => verdict.runtime = probe.label /\ probe.label = FinalizedRuntime
    <2>1. CASE FinalizedRuntime # probe.label
      BY <2>1, VerdictTypes DEF Classify, Opens
    <2>2. CASE FinalizedRuntime = probe.label
      <3>1. /\ verdict = [mode |-> verdict.mode, runtime |-> probe.label]
            /\ verdict.mode \in Open
        BY <2>2 DEF Classify, Probed, Open
      <3>2. verdict \in Verdicts
        BY <3>1, <1>3 DEF Verdicts
      <3>3. QED
        BY <2>2, <3>1, <3>2, VerdictTypes
    <2>3. QED
      BY <2>1, <2>2
  <1>5. ProbeEnds(verdict)
    BY DEF ProbeCompletes
  <1> HIDE DEF verdict
  <1>6. WatchInv'
    BY <1>2, <1>4, <1>5, ProbeEndsKeeps
  <1>7. QED
    BY <1>5, <1>6, ConnectionStays, InvariantSplits, PTL DEF ProbeEnds

LEMMA PullKeeps ==
    ASSUME SessionInv, Pull
    PROVE  SessionInv'
  <1>1. WatchTypes /\ ProbeFits /\ ScreenFits
    BY InvariantSplits DEF WatchInv
  <1>2. PICK b \in Blocks : probe' = [probe EXCEPT !.examined = runtimeOf[b]]
    BY DEF Pull
  <1>3. /\ probe.label # None
        /\ UNCHANGED <<phase, observed, rerun, timer, screen, reads>>
        /\ UNCHANGED <<runtimeOf, connection>> /\ runtimeOf' = runtimeOf /\ head' = head
    BY DEF Pull, connection
  <1>4. runtimeOf[b] \in Runtimes
    BY TypeParts DEF SessionInv
  <1>5. probe'.label = probe.label
    BY <1>1, <1>2 DEF WatchTypes
  <1>6. WatchTypes'
    BY <1>1, <1>2, <1>3, <1>4 DEF WatchTypes, Verdicts
  <1>7. ProbeFits'
    BY <1>1, <1>3, <1>5 DEF ProbeFits
  <1>8. ScreenFits'
    BY <1>1, <1>3 DEF ScreenFits, Full
  <1>9. WatchInv'
    BY <1>6, <1>7, <1>8 DEF WatchInv
  <1>10. QED
    BY <1>3, <1>9, ConnectionStays, InvariantSplits, PTL

LEMMA BootFailsKeeps ==
    ASSUME SessionInv, BootFails
    PROVE  SessionInv'
  <1>1. WatchTypes /\ ProbeFits /\ ScreenFits
    BY InvariantSplits DEF WatchInv
  <1>2. /\ phase = "boot" /\ phase' = "failed" /\ probe' = Idle
        /\ UNCHANGED <<observed, rerun, timer, screen, reads>>
        /\ UNCHANGED <<runtimeOf, connection>> /\ runtimeOf' = runtimeOf /\ head' = head
    BY DEF BootFails, connection
  <1>3. ~timer /\ ~Full
    BY <1>1, <1>2 DEF ProbeFits, ScreenFits
  <1>4. WatchTypes'
    BY <1>1, <1>2, VerdictTypes DEF WatchTypes, Verdicts
  <1>5. ProbeFits' /\ ScreenFits'
    BY <1>2, <1>3, VerdictTypes DEF ProbeFits, ScreenFits, Full
  <1>6. WatchInv'
    BY <1>4, <1>5 DEF WatchInv
  <1>7. QED
    BY <1>2, <1>6, ConnectionStays, InvariantSplits, PTL

LEMMA TimerFiresKeeps ==
    ASSUME SessionInv, TimerFires
    PROVE  SessionInv'
  <1>1. WatchTypes /\ ProbeFits /\ ScreenFits
    BY InvariantSplits DEF WatchInv
  <1>2. /\ timer /\ phase' = phase /\ phase = "watching" /\ ~Full
        /\ UNCHANGED <<runtimeOf, connection>> /\ runtimeOf' = runtimeOf /\ head' = head
    BY <1>1 DEF TimerFires, connection, ProbeFits, ScreenFits
  <1>3. SUFFICES WatchInv'
    BY <1>2, ConnectionStays, InvariantSplits, PTL
  <1>4. CASE probe # Idle
    <2>1. /\ rerun' = TRUE /\ timer' = FALSE
          /\ UNCHANGED <<observed, probe, screen, reads>>
      BY <1>4 DEF TimerFires
    <2>2. WatchTypes' /\ ProbeFits' /\ ScreenFits'
      BY <1>1, <1>2, <2>1 DEF WatchTypes, Verdicts, ProbeFits, ScreenFits, Full
    <2>3. QED
      BY <2>2 DEF WatchInv
  <1>5. CASE ~(probe # Idle)
    <2>1. Probe(FinalizedRuntime, screen, FALSE)
      BY <1>5 DEF TimerFires
    <2>2. ~Opens(screen)
      BY <1>2 DEF Full, Opens
    <2>3. /\ Answers(runtimeOf', head', FinalizedRuntime)
          /\ Sound(screen, runtimeOf', head', FinalizedRuntime)
      BY <1>2, <2>2, ReportSound DEF Sound
    <2>4. screen \in Verdicts /\ reads \subseteq Runtimes \ Supported /\ phase' = "watching"
      BY <1>1, <1>2 DEF WatchTypes
    <2>5. QED
      BY <2>1, <2>2, <2>3, <2>4, ProbeKeeps
  <1>6. QED
    BY <1>4, <1>5

LEMMA BootKeeps ==
    ASSUME SessionInv, Boot
    PROVE  SessionInv'
  <1> DEFINE now == FinalizedRuntime
  <1>1. WatchTypes /\ ProbeFits /\ ScreenFits
    BY InvariantSplits DEF WatchInv
  <1>2. /\ phase = "connected" /\ ~Full /\ probe.label = None /\ ~timer
        /\ UNCHANGED <<runtimeOf, connection>> /\ runtimeOf' = runtimeOf /\ head' = head
    BY <1>1 DEF Boot, connection, ProbeFits, ScreenFits
  <1>3. SUFFICES WatchInv'
    BY <1>2, ConnectionStays, InvariantSplits, PTL
  <1>4. Answers(runtimeOf, head, now) /\ None \notin Runtimes /\ Supported \subseteq Runtimes
    BY ReportSound, RuntimesAssumption
  <1> HIDE DEF now
  <1>5. CASE now = None
    <2>1. screen' = Unestablished /\ reads' = reads /\ StartWatch(Unestablished)
      BY <1>4, <1>5 DEF Boot, now
    <2>2. /\ phase' = "watching" /\ observed' = now /\ timer' = TRUE /\ rerun' = FALSE
          /\ probe' = Idle
      BY <2>1 DEF StartWatch, now
    <2>3. WatchTypes'
      BY <1>1, <1>5, <2>1, <2>2, VerdictTypes DEF WatchTypes, Verdicts
    <2>4. ProbeFits' /\ ScreenFits'
      BY <2>1, <2>2, VerdictTypes DEF ProbeFits, ScreenFits, Full
    <2>5. QED
      BY <2>3, <2>4 DEF WatchInv
  <1>6. CASE now \in Runtimes \ Supported
    <2>1. /\ screen' = Stranded(now) /\ reads' = {now} /\ phase' = "reading"
          /\ UNCHANGED <<observed, probe, rerun, timer>>
      BY <1>4, <1>6 DEF Boot, now
    <2>2. WatchTypes'
      BY <1>1, <1>6, <2>1, VerdictTypes DEF WatchTypes, Verdicts
    <2>3. ProbeFits' /\ ScreenFits'
      BY <1>1, <1>2, <1>6, <2>1, VerdictTypes DEF ProbeFits, ScreenFits, Full
    <2>4. QED
      BY <2>2, <2>3 DEF WatchInv
  <1>7. CASE now \in Supported
    <2>1. /\ probe' = [label |-> now, examined |-> None] /\ phase' = "boot"
          /\ UNCHANGED <<observed, rerun, timer, screen, reads>>
      BY <1>4, <1>7 DEF Boot, now
    <2>2. probe'.label = now /\ probe'.examined = None
      BY <2>1
    <2>3. WatchTypes'
      BY <1>1, <1>7, <2>1 DEF WatchTypes, Verdicts
    <2>4. ProbeFits'
      BY <1>2, <1>4, <1>7, <2>1, <2>2 DEF ProbeFits
    <2>5. ScreenFits'
      BY <1>2, <2>1 DEF ScreenFits, Full
    <2>6. QED
      BY <2>3, <2>4, <2>5 DEF WatchInv
  <1>8. QED
    BY <1>4, <1>5, <1>6, <1>7 DEF Answers

LEMMA ChannelReadKeeps ==
    ASSUME SessionInv, NEW r \in Runtimes, ChannelRead(r)
    PROVE  SessionInv'
  <1>1. WatchTypes /\ ProbeFits /\ ScreenFits
    BY InvariantSplits DEF WatchInv
  <1>2. /\ reads' = reads \ {r} /\ screen' = Stranded(r)
        /\ UNCHANGED <<runtimeOf, connection>> /\ runtimeOf' = runtimeOf /\ head' = head
    BY DEF ChannelRead, connection
  <1>3. SUFFICES WatchInv'
    BY <1>2, ConnectionStays, InvariantSplits, PTL
  <1>4. ScreenFits' /\ screen' \in Verdicts /\ reads' \subseteq Runtimes \ Supported
    BY <1>1, <1>2, VerdictTypes DEF ScreenFits, Full, WatchTypes
  <1>5. CASE phase = "reading"
    <2>1. /\ phase' = "watching" /\ observed' = FinalizedRuntime /\ timer' \in BOOLEAN
          /\ rerun' = FALSE /\ probe' = Idle
      BY <1>5 DEF ChannelRead, StartWatch
    <2>2. WatchTypes'
      BY <1>4, <2>1, ReportSound, VerdictTypes DEF WatchTypes, Verdicts, Answers
    <2>3. ProbeFits'
      BY <2>1, VerdictTypes DEF ProbeFits
    <2>4. QED
      BY <1>4, <2>2, <2>3 DEF WatchInv
  <1>6. CASE phase # "reading"
    <2>1. UNCHANGED <<phase, observed, probe, rerun, timer>>
      BY <1>6 DEF ChannelRead, watch
    <2>2. WatchTypes' /\ ProbeFits'
      BY <1>1, <1>2, <1>4, <2>1 DEF WatchTypes, Verdicts, ProbeFits
    <2>3. QED
      BY <1>4, <2>2 DEF WatchInv
  <1>7. QED
    BY <1>5, <1>6

----------------------------------------------------------------------------
(* The theorems.                                                           *)

LEMMA InitFits ==
    ASSUME Init
    PROVE  SessionInv
  <1>1. /\ runtimeOf \in RuntimeMaps /\ runtimeOf \in [Blocks -> Runtimes]
        /\ announced = {Genesis} /\ head = Genesis /\ held = {}
        /\ known = RuntimeReport(runtimeOf[Genesis]) /\ uncertain = FALSE
        /\ phase = "connected" /\ observed = None /\ probe = Idle /\ rerun = FALSE
        /\ timer = FALSE /\ screen = Blank /\ reads = {}
        /\ Genesis \in Blocks /\ None \notin Runtimes
    BY RuntimesAssumption, TreeAssumption DEF Init
  <1>2. IsFiniteSet({}) /\ Cardinality({}) = 0
    BY FS_EmptySet
  <1>3. known \in Runtimes \union {None}
    BY <1>1 DEF RuntimeReport
  <1>4. ConnectionTypes
    <2>1. Cardinality(held) <= MaxHeld
      BY <1>1, <1>2, MaxHeldAssumption
    <2>2. QED
      BY <1>1, <1>3, <2>1 DEF ConnectionTypes
  <1>5. AnnouncedFits
    BY <1>1 DEF AnnouncedFits
  <1>6. HeldFits
    <2>1. Pending(head) = {}
      BY <1>1 DEF Pending, Changed
    <2>2. QED
      BY <1>1, <1>2, <2>1 DEF HeldFits
  <1>7. KnownFits
    <2>1. Genesis \in On(Genesis)
      BY <1>1, OnParts
    <2>2. QED
      BY <1>1, <2>1 DEF KnownFits, Reports
  <1>8. WatchInv
    BY <1>1, VerdictTypes DEF WatchInv, WatchTypes, ProbeFits, ScreenFits, Full
  <1>9. QED
    BY <1>4, <1>5, <1>6, <1>7, <1>8, InvariantSplits DEF ChainInv

LEMMA NextKeeps ==
    ASSUME SessionInv, [Next]_vars
    PROVE  SessionInv'
  <1>1. ASSUME NEW b \in Blocks \ {Genesis}, NewBlock(b) PROVE SessionInv'
    <2>1. UNCHANGED <<watch, screen, reads>> /\ runtimeOf' = runtimeOf /\ head' = head
      BY <1>1 DEF NewBlock
    <2>2. ConnectionTypes' /\ ChainInv' /\ WatchInv'
      BY <1>1, <2>1, NewBlockKeeps, WatchStays
    <2>3. QED
      BY <2>2, InvariantSplits, PTL
  <1>2. ASSUME NEW b \in Blocks \ {Genesis}, Finalized(b) PROVE SessionInv'
    <2>1. ConnectionTypes' /\ ChainInv'
      BY <1>2, FinalizedKeeps
    <2>2. WatchInv'
      BY <1>2, FinalizedKeeps, OnBlockKeeps
    <2>3. QED
      BY <2>1, <2>2, InvariantSplits, PTL
  <1>3. ASSUME UNCHANGED vars PROVE SessionInv'
    <2>1. /\ UNCHANGED <<runtimeOf, connection>> /\ UNCHANGED <<watch, screen, reads>>
          /\ runtimeOf' = runtimeOf /\ head' = head
      BY <1>3 DEF vars, connection
    <2>2. ConnectionTypes' /\ ChainInv' /\ WatchInv'
      BY <2>1, ConnectionStays, WatchStays
    <2>3. QED
      BY <2>2, InvariantSplits, PTL
  <1>4. QED
    BY <1>1, <1>2, <1>3, BootKeeps, PullKeeps, ProbeFailsKeeps, ProbeCompletesKeeps,
       BootFailsKeeps, TimerFiresKeeps, ChannelReadKeeps DEF Next

(* The inductive invariant holds of every reachable state: what the        *)
(* connection holds is what is pending, what it reports is the last report *)
(* of the chain, and the watch has looked at what the screen is about.     *)
THEOREM SessionInvariant == Spec => []SessionInv
  BY InitFits, NextKeeps, PTL DEF Spec

(* The types: in particular the announcements held never exceed their cap, *)
(* and the release channel is asked only about runtimes without descriptors. *)
THEOREM SessionTypeCorrect == Spec => []TypeOK
  <1>1. SessionInv => TypeOK
    BY DEF SessionInv
  <1>2. QED
    BY <1>1, SessionInvariant, PTL

(* The connection's answer is none or the runtime of the finalized head,   *)
(* whatever was pruned, dropped at the cap or finalized in one event.      *)
THEOREM FinalizedAlwaysSound == Spec => []FinalizedSound
  <1>1. SessionInv => FinalizedSound
    BY InvariantImplies
  <1>2. QED
    BY <1>1, SessionInvariant, PTL

(* A verdict that opens any surface is labelled with the runtime last      *)
(* reported on the finalized chain, whatever probe, rerun, retry or late   *)
(* answer of the release channel put it there.                             *)
THEOREM OpenVerdictAlwaysCurrent == Spec => []OpenVerdictCurrent
  <1>1. SessionInv => OpenVerdictCurrent
    BY InvariantImplies
  <1>2. QED
    BY <1>1, SessionInvariant, PTL

============================================================================
