---------------------------- MODULE Telemetry_proofs ----------------------------
(***************************************************************************)
(* Proofs about Telemetry, for any inventory, any blocks and any moments   *)
(* of the polls.                                                           *)
(***************************************************************************)
EXTENDS Telemetry, Lemmas, TLAPS

-------------------------------------------------------------------------------
(* The answers of a refresh *)

\* Whatever a poll meets, its answer is complete or says that it is not.
LEMMA PollResultOK ==
    ASSUME tip \in [Node -> Tip], NEW n \in Node, NEW met \in Conditions, NEW fork \in BOOLEAN
    PROVE  AnswerOK(PollResult(n, met, fork))
  <1>1. tip[n] \in Tip /\ tip[n].time \in Nat
    BY ConstantsAssumption
  <1> DEFINE State == {"OFFLINE", "ERROR", "HEALTHY"}
             Held == {NoTip} \cup { TipOf(t) : t \in Tip }
  <1>2. NoTip \in Held /\ TipOf(tip[n]) \in Held
    BY <1>1
  <1> HIDE DEF Held
  <1>3. CASE met = "ok"
    <2>1. PollResult(n, met, fork) =
            [online |-> TRUE, state |-> "HEALTHY", tip |-> TipOf(tip[n]), time |-> tip[n].time,
             fork |-> fork]
      BY <1>3 DEF PollResult, Status
    <2> QED
      BY <1>1, <1>2, <2>1 DEF AnswerOK, Held
  <1>4. CASE met = "offline"
    <2>1. PollResult(n, met, fork) =
            [online |-> FALSE, state |-> "OFFLINE", tip |-> NoTip, time |-> 0, fork |-> FALSE]
      BY <1>4 DEF PollResult, Status
    <2> QED
      BY <1>2, <2>1 DEF AnswerOK, Held
  <1>5. CASE met \in {"nocredentials", "badreply"}
    <2>1. PollResult(n, met, fork) =
            [online |-> FALSE, state |-> "ERROR", tip |-> NoTip, time |-> 0, fork |-> FALSE]
      BY <1>5 DEF PollResult, Status
    <2> QED
      BY <1>2, <2>1 DEF AnswerOK, Held
  <1>6. CASE met = "garbled"
    <2>1. PollResult(n, met, fork) =
            [online |-> TRUE, state |-> "ERROR", tip |-> NoTip, time |-> 0, fork |-> FALSE]
      BY <1>6 DEF PollResult, Status
    <2> QED
      BY <1>2, <2>1 DEF AnswerOK, Held
  <1>7. CASE met = "noheader"
    <2>1. PollResult(n, met, fork) =
            [online |-> TRUE, state |-> "ERROR", tip |-> TipOf(tip[n]), time |-> 0,
             fork |-> fork]
      BY <1>7 DEF PollResult, Status
    <2> QED
      BY <1>2, <2>1 DEF AnswerOK, Held
  <1> QED
    BY <1>3, <1>4, <1>5, <1>6, <1>7 DEF Conditions

\* A tip that a node can answer with has a height and a hash; "no tip" is none
\* of them.
LEMMA HeldTips ==
    ASSUME NEW t \in Tip
    PROVE  /\ TipOf(t) \in [h : Nat, hash : Nat \ {0}]
           /\ TipOf(t) # NoTip
           /\ \A s \in Tip : TipOf(s).hash = TipOf(t).hash => s = t
  BY ConstantsAssumption DEF TipOf, NoTip

\* Who votes, and for what.
LEMMA VotersOK ==
    ASSUME PolledOK, DOMAIN polled = Node
    PROVE  /\ Voters = { n \in Node : polled[n].state = "HEALTHY" }
           /\ \A n \in Voters : \E t \in Tip : polled[n].tip = TipOf(t) /\ polled[n].time = t.time
           /\ IsFiniteSet(Voters)
  <1>1. \A n \in Node : AnswerOK(polled[n])
    BY DEF PolledOK
  <1>2. ASSUME NEW n \in Node
        PROVE  polled[n].online /\ polled[n].state # "ERROR" <=> polled[n].state = "HEALTHY"
    <2>1. polled[n].state \in {"OFFLINE", "ERROR", "HEALTHY"}
      BY <1>1 DEF AnswerOK
    <2> QED
      BY <1>1, <2>1 DEF AnswerOK
  <1>3. Voters = { n \in Node : polled[n].state = "HEALTHY" }
    BY <1>2 DEF Voters
  <1>4. \A n \in Voters : \E t \in Tip : polled[n].tip = TipOf(t) /\ polled[n].time = t.time
    BY <1>1, <1>3 DEF AnswerOK
  <1>5. Voters \in SUBSET Node
    BY DEF Voters
  <1> QED
    BY <1>3, <1>4, <1>5, FS_Subset, ConstantsAssumption

-------------------------------------------------------------------------------
(* The election *)

Better(o, k) ==
    \/ Votes(o) < Votes(k)
    \/ Votes(o) = Votes(k) /\ o.h < k.h
    \/ Votes(o) = Votes(k) /\ o.h = k.h /\ k.hash <= o.hash

\* If anybody votes, some tip that was voted for wins against every other.
THEOREM CanonicalElected ==
    ASSUME PolledOK, DOMAIN polled = Node, Voters # {}
    PROVE  /\ \E n \in Voters : polled[n].tip = Canonical
           /\ \A n \in Voters : Better(polled[n].tip, Canonical)
           /\ \E t \in Tip : Canonical = TipOf(t)
  <1> DEFINE keys == { polled[n].tip : n \in Voters }
             R == { p \in keys \X keys : Better(p[1], p[2]) }
  <1>1. \A k \in keys : \E t \in Tip : k = TipOf(t)
    BY VotersOK
  <1>2. \A k \in keys : k.h \in Nat /\ k.hash \in Nat
    BY <1>1, HeldTips
  <1>3. ASSUME NEW k PROVE Votes(k) \in Nat
    <2>1. { n \in Voters : polled[n].tip = k } \in SUBSET Voters
      OBVIOUS
    <2> QED
      BY <2>1, VotersOK, FS_Subset, FS_CardinalityType DEF Votes
  <1>4. IsFiniteSet(keys) /\ keys # {}
    <2>1. PICK k \in Nat : ExistsSurjection(1..k, Voters)
      BY VotersOK, FS_NatSurjection
    <2>2. PICK f \in [1..k -> Voters] : \A n \in Voters : \E i \in 1..k : f[i] = n
      BY <2>1, Zenon DEF ExistsSurjection, Surjection
    <2> DEFINE g == [i \in 1..k |-> polled[f[i]].tip]
    <2>3. g \in [1..k -> keys] /\ \A x \in keys : \E i \in 1..k : g[i] = x
      BY <2>2
    <2>4. g \in Surjection(1..k, keys)
      BY <2>3 DEF Surjection
    <2>5. IsFiniteSet(keys)
      BY <2>4, FS_Interval, FS_Surjection
    <2> QED
      BY <2>5
  <1>5. \A k, o \in keys : <<o, k>> \in R <=> Better(o, k)
    OBVIOUS
  <1>6. \A x, y \in keys : <<x, y>> \in R \/ <<y, x>> \in R
    BY <1>2, <1>3, <1>5 DEF Better
  <1>7. \A x, y, z \in keys : <<x, y>> \in R /\ <<y, z>> \in R => <<x, z>> \in R
    <2> SUFFICES ASSUME NEW x \in keys, NEW y \in keys, NEW z \in keys,
                        Better(x, y), Better(y, z)
                 PROVE  Better(x, z)
      BY <1>5
    <2> QED
      BY <1>2, <1>3 DEF Better
  <1> HIDE DEF R, keys
  <1>8. \E k \in keys : \A o \in keys : <<o, k>> \in R
    BY <1>4, <1>6, <1>7, GreatestElement
  <1>9. \E k \in keys : \A o \in keys : Better(o, k)
    BY <1>5, <1>8
  <1>10. Canonical = CHOOSE k \in keys : \A o \in keys : Better(o, k)
    BY DEF Canonical, Better, keys
  <1>11. Canonical \in keys /\ \A o \in keys : Better(o, Canonical)
    BY <1>9, <1>10
  <1> QED
    BY <1>1, <1>11 DEF keys

-------------------------------------------------------------------------------
(* The classification *)

\* classify() keeps the state of an incomplete answer and never gives it to a
\* complete one; a node it calls healthy or stale is at the canonical tip.
LEMMA ClassifyCorrect ==
    ASSUME NEW s, AnswerOK(s), NEW c \in {NoTip} \cup { TipOf(t) : t \in Tip }
    PROVE  /\ s.state # "HEALTHY" => Classify(s, c) = s.state
           /\ s.state = "HEALTHY" =>
                Classify(s, c) \in {"FORKED", "DIVERGED", "SYNCING", "STALE", "HEALTHY"}
           /\ Classify(s, c) \in {"STALE", "HEALTHY"} => s.tip = c /\ s.online
  <1>1. /\ s.state \in {"OFFLINE", "ERROR", "HEALTHY"} /\ s.fork \in BOOLEAN
        /\ s.state = "HEALTHY" => s.online /\ \E t \in Tip : s.tip = TipOf(t)
        /\ s.state = "OFFLINE" => ~s.online
    BY DEF AnswerOK
  <1>2. c \in [h : Int, hash : Nat]
    BY HeldTips DEF NoTip
  <1>3. CASE s.state # "HEALTHY"
    <2>1. Classify(s, c) = s.state
      BY <1>1, <1>3 DEF Classify
    <2> QED
      BY <1>1, <1>3, <2>1
  <1>4. CASE s.state = "HEALTHY"
    <2>1. s.online /\ s.tip \in [h : Nat, hash : Nat]
      BY <1>1, <1>4, HeldTips
    <2>2. s.tip.h = c.h /\ s.tip.hash = c.hash => s.tip = c
      BY <1>2, <2>1
    <2>3. \/ Classify(s, c) \in {"FORKED", "DIVERGED", "SYNCING"}
          \/ Classify(s, c) \in {"STALE", "HEALTHY"} /\ s.tip.h = c.h /\ s.tip.hash = c.hash
      BY <1>1, <1>2, <1>4, <2>1 DEF Classify
    <2> QED
      BY <1>4, <2>1, <2>2, <2>3
  <1> QED
    BY <1>3, <1>4

-------------------------------------------------------------------------------
(* The reward *)

\* The recursive definition of the shifted reward has a solution.
LEMMA ShiftedExists ==
    \E f : f = [n \in Nat |-> IF n = 0 THEN Initial ELSE f[n - 1] \div 2]
  <1> DEFINE F == [v \in Nat |-> v \div 2]
  <1>1. Initial \in Nat /\ F \in [Nat -> Nat]
    BY ConstantsAssumption
  <1>2. \A v \in Nat : F[v] = v \div 2
    OBVIOUS
  <1> HIDE DEF F
  <1>3. PICK f \in [Nat -> Nat] : f[0] = Initial /\ \A n \in Nat : f[n + 1] = F[f[n]]
    BY <1>1, IteratedFunction
  <1>4. ASSUME NEW n \in Nat PROVE f[n] = IF n = 0 THEN Initial ELSE f[n - 1] \div 2
    <2>1. CASE n = 0
      BY <2>1, <1>3
    <2>2. CASE n # 0
      <3>1. n - 1 \in Nat /\ (n - 1) + 1 = n
        BY <2>2
      <3>2. f[(n - 1) + 1] = F[f[n - 1]]
        BY <3>1, <1>3
      <3> QED
        BY <2>2, <3>1, <3>2, <1>2
    <2> QED
      BY <2>1, <2>2
  <1>5. f = [n \in Nat |-> f[n]]
    OBVIOUS
  <1> QED
    BY <1>4, <1>5

LEMMA ShiftedFacts ==
    /\ Shifted[0] = Initial
    /\ \A n \in Nat : Shifted[n] \in Nat /\ Shifted[n + 1] = Shifted[n] \div 2
  <1>1. Shifted = [n \in Nat |-> IF n = 0 THEN Initial ELSE Shifted[n - 1] \div 2]
    BY ShiftedExists DEF Shifted
  <1>2. Shifted[0] = Initial
    BY <1>1
  <1>3. ASSUME NEW n \in Nat PROVE Shifted[n + 1] = Shifted[n] \div 2
    <2>1. n + 1 \in Nat /\ n + 1 # 0 /\ (n + 1) - 1 = n
      OBVIOUS
    <2> QED
      BY <1>1, <2>1
  <1> DEFINE S == { n \in Nat : Shifted[n] \in Nat }
  <1>4. 0 \in S
    BY <1>2, ConstantsAssumption
  <1>5. \A n \in Nat : n \in S => n + 1 \in S
    BY <1>3
  <1>6. \A n \in Nat : n \in S
    <2> HIDE DEF S
    <2> QED
      BY <1>4, <1>5, SetInduction
  <1> QED
    BY <1>2, <1>3, <1>6

\* The reward of an era, as both of them have it.
RewardIn(era) == IF era < 64 THEN Shifted[era] ELSE 0

\* Each era halves the reward of the era before, the last one included: 64 eras
\* on, a reward that fits an int64 has been halved to nothing.
LEMMA RewardHalves ==
    ASSUME NEW era \in Nat
    PROVE  RewardIn(era + 1) = RewardIn(era) \div 2
  <1>1. CASE era + 1 < 64
    <2>1. era < 64 /\ era + 1 \in Nat
      BY <1>1
    <2> QED
      BY <1>1, <2>1, ShiftedFacts DEF RewardIn
  <1>2. CASE era = 63
    <2>1. RewardIn(era) = 0
      BY <1>2, ConstantsAssumption DEF RewardIn
    <2>2. RewardIn(era + 1) = 0
      BY <1>2 DEF RewardIn
    <2> QED
      BY <2>1, <2>2
  <1>3. CASE era >= 64
    <2>1. RewardIn(era) = 0 /\ RewardIn(era + 1) = 0
      BY <1>3 DEF RewardIn
    <2> QED
      BY <2>1
  <1> QED
    BY <1>1, <1>2, <1>3

\* economics() announces the next halving ahead of the height it is asked about,
\* and the subsidy the indexer stores with the block of the halving is half the
\* reward announced.
THEOREM EconomicsCorrect ==
    ASSUME NEW height \in Nat
    PROVE  /\ height > 0 => Economics(height).reward = BlockSubsidy(height)
           /\ height < Economics(height).next
           /\ BlockSubsidy(Economics(height).next) = Economics(height).reward \div 2
  <1> DEFINE era == height \div Interval
             next == (era + 1) * Interval
  <1>1. Interval \in Nat \ {0}
    BY ConstantsAssumption
  <1>2. era \in Nat
    BY <1>1
  <1>3. Economics(height) = [reward |-> RewardIn(era), next |-> next]
    BY DEF Economics, RewardIn
  <1>4. height < next
    BY <1>1
  <1>5. next \div Interval = era + 1 /\ next \in Nat /\ next > 0
    <2>1. era + 1 \in Nat
      BY <1>2
    <2> HIDE DEF era
    <2>2. next \in Nat /\ next \div Interval = era + 1
      BY <1>1, <2>1
    <2> QED
      BY <1>4, <2>2
  <1>6. BlockSubsidy(next) = RewardIn(era + 1)
    BY <1>2, <1>5 DEF BlockSubsidy, RewardIn
  <1>7. height > 0 => BlockSubsidy(height) = RewardIn(era)
    BY <1>2 DEF BlockSubsidy, RewardIn
  <1> HIDE DEF era, next
  <1> QED
    BY <1>2, <1>3, <1>4, <1>6, <1>7, RewardHalves

-------------------------------------------------------------------------------
(* A snapshot *)

\* What Publish reads and writes, whoever answered.
LEMMA SnapshotParts ==
    ASSUME Publish
    PROVE  /\ DOMAIN polled = Node
           /\ snapshot'.canonical = Canonical
           /\ snapshot'.nodes = Classified(Canonical) /\ Reported' = Node
           /\ snapshot'.synchronized = SynchronizedNodes(Canonical)
           /\ snapshot'.catchingUp = InState(Canonical, {"SYNCING"})
           /\ snapshot'.divergent = InState(Canonical, {"DIVERGED", "FORKED"})
           /\ snapshot'.latest = LatestBlock(Canonical)
           /\ snapshot'.economics = Economics(Canonical.h)
           /\ polled' = <<>> /\ UNCHANGED tip
  <1>1. DOMAIN Classified(Canonical) = Node
    BY DEF Classified
  <1> QED
    BY <1>1 DEF Publish, Reported, network

\* The canonical tip is "none" or one that a node may have.
LEMMA CanonicalType ==
    ASSUME PolledOK, DOMAIN polled = Node
    PROVE  /\ Canonical \in {NoTip} \cup { TipOf(t) : t \in Tip }
           /\ Canonical = NoTip <=> Voters = {}
  <1>1. CASE Voters = {}
    BY <1>1 DEF Canonical
  <1>2. CASE Voters # {}
    <2>1. PICK t \in Tip : Canonical = TipOf(t)
      BY <1>2, CanonicalElected
    <2> QED
      BY <1>2, <2>1, HeldTips
  <1> QED
    BY <1>1, <1>2

\* A node in a snapshot: its answer, with the state that classify() gives it.
LEMMA NodeInSnapshot ==
    ASSUME PolledOK, Publish, NEW n \in Node
    PROVE  /\ AnswerOK(polled[n])
           /\ snapshot'.nodes[n].state = Classify(polled[n], Canonical)
           /\ snapshot'.nodes[n].tip = polled[n].tip
           /\ Classified(Canonical)[n].state = Classify(polled[n], Canonical)
           /\ snapshot'.nodes[n].state \notin {"ERROR", "OFFLINE"} <=> n \in Voters
           /\ snapshot'.nodes[n].state \in {"STALE", "HEALTHY"} =>
                polled[n].tip = Canonical /\ polled[n].online
           /\ n \in Voters =>
                snapshot'.nodes[n].state \in {"FORKED", "DIVERGED", "SYNCING", "STALE", "HEALTHY"}
  <1>1. DOMAIN polled = Node /\ snapshot'.nodes = Classified(Canonical)
    BY SnapshotParts
  <1>2. AnswerOK(polled[n])
    BY <1>1 DEF PolledOK
  <1>3. Classified(Canonical)[n] = [polled[n] EXCEPT !.state = Classify(polled[n], Canonical)]
    BY DEF Classified
  <1>4. /\ Classified(Canonical)[n].state = Classify(polled[n], Canonical)
        /\ Classified(Canonical)[n].tip = polled[n].tip
    BY <1>2, <1>3 DEF AnswerOK
  <1>5. Canonical \in {NoTip} \cup { TipOf(t) : t \in Tip }
    BY <1>1, CanonicalType
  <1>6. n \in Voters <=> polled[n].state = "HEALTHY"
    BY <1>1, VotersOK
  <1>7. polled[n].state \in {"OFFLINE", "ERROR", "HEALTHY"}
    BY <1>2 DEF AnswerOK
  <1>8. /\ polled[n].state # "HEALTHY" => Classify(polled[n], Canonical) = polled[n].state
        /\ polled[n].state = "HEALTHY" =>
             Classify(polled[n], Canonical) \in
               {"FORKED", "DIVERGED", "SYNCING", "STALE", "HEALTHY"}
        /\ Classify(polled[n], Canonical) \in {"STALE", "HEALTHY"} =>
             polled[n].tip = Canonical /\ polled[n].online
    BY <1>2, <1>5, ClassifyCorrect
  <1> QED
    BY <1>1, <1>2, <1>4, <1>6, <1>7, <1>8

LEMMA PublishGoodNodes ==
    ASSUME PolledOK, Publish
    PROVE  GoodNodesAgree'
  BY SnapshotParts, NodeInSnapshot DEF GoodNodesAgree

LEMMA PublishCanonicalHeld ==
    ASSUME PolledOK, Publish
    PROVE  CanonicalIsHeld'
  <1> DEFINE complete == { n \in Node : snapshot'.nodes[n].state \notin {"ERROR", "OFFLINE"} }
  <1>1. complete = Voters
    <2>1. Voters \subseteq Node
      BY DEF Voters
    <2> QED
      BY <2>1, NodeInSnapshot
  <1>2. CASE Voters = {}
    <2>1. snapshot'.canonical = NoTip
      BY <1>2, SnapshotParts, CanonicalType
    <2> QED
      BY <1>1, <1>2, <2>1, SnapshotParts DEF CanonicalIsHeld
  <1>3. CASE Voters # {}
    <2>1. PICK n \in Voters : polled[n].tip = Canonical
      BY <1>3, SnapshotParts, CanonicalElected
    <2>2. snapshot'.nodes[n].tip = snapshot'.canonical
      BY <1>1, <2>1, SnapshotParts, NodeInSnapshot
    <2>3. snapshot'.synchronized >= 1
      <3> DEFINE A == { m \in Node : polled[m].tip = Canonical /\ polled[m].online }
      <3>1. n \in A /\ A \in SUBSET Node
        BY <2>1 DEF Voters
      <3>2. IsFiniteSet(A)
        BY <3>1, FS_Subset, ConstantsAssumption
      <3> HIDE DEF A
      <3>3. Cardinality(A) \in Nat /\ Cardinality(A) # 0
        BY <3>1, <3>2, FS_CardinalityType, FS_EmptySet
      <3>4. snapshot'.synchronized = Cardinality(A)
        BY SnapshotParts DEF SynchronizedNodes, A
      <3> QED
        BY <3>3, <3>4
    <2> QED
      BY <1>1, <1>3, <2>1, <2>2, <2>3, SnapshotParts DEF CanonicalIsHeld
  <1> QED
    BY <1>2, <1>3

\* The latest block: the time of the canonical tip, whoever the loop of
\* aggregate() sees last.
LEMMA LatestBlockCorrect ==
    ASSUME PolledOK, DOMAIN polled = Node, Voters # {}
    PROVE  \E t \in Tip : TipOf(t) = Canonical /\ t.time = LatestBlock(Canonical)
  <1> DEFINE same == { m \in Node : polled[m].tip.hash = Canonical.hash }
             times == { polled[n].time : n \in same } \ {0}
  <1>1. PICK n \in Voters : polled[n].tip = Canonical
    BY CanonicalElected
  <1>2. PICK t \in Tip : polled[n].tip = TipOf(t) /\ polled[n].time = t.time
    BY VotersOK
  <1>3. n \in same
    BY <1>1 DEF Voters
  <1>4. \A time \in times : time = t.time
    <2> SUFFICES ASSUME NEW m \in same, polled[m].time # 0 PROVE polled[m].time = t.time
      OBVIOUS
    <2>1. AnswerOK(polled[m])
      BY DEF PolledOK
    <2>2. PICK s \in Tip : polled[m].tip = TipOf(s) /\ polled[m].time = s.time
      BY <2>1 DEF AnswerOK
    <2>3. TipOf(s).hash = TipOf(t).hash
      BY <1>1, <1>2, <2>2
    <2> QED
      BY <2>2, <2>3, HeldTips
  <1>5. LatestBlock(Canonical) = IF times = {} THEN 0 ELSE CHOOSE x \in times : TRUE
    BY DEF LatestBlock
  <1>6. LatestBlock(Canonical) = t.time
    <2>1. CASE times = {}
      <3>1. polled[n].time = 0
        BY <1>3, <2>1
      <3> QED
        BY <1>2, <1>5, <2>1, <3>1
    <2>2. CASE times # {}
      <3>1. (CHOOSE x \in times : TRUE) \in times
        BY <2>2
      <3> QED
        BY <1>4, <1>5, <2>2, <3>1
    <2> QED
      BY <2>1, <2>2
  <1> QED
    BY <1>1, <1>2, <1>6

LEMMA PublishSummary ==
    ASSUME PolledOK, Publish
    PROVE  SummaryOfCanonical'
  <1> SUFFICES ASSUME snapshot'.canonical # NoTip PROVE SummaryOfCanonical'
    BY DEF SummaryOfCanonical
  <1> DEFINE complete == { n \in Node : snapshot'.nodes[n].state \notin {"ERROR", "OFFLINE"} }
             A == { n \in Node : polled[n].tip = Canonical /\ polled[n].online }
             B == { n \in Node : Classified(Canonical)[n].state \in {"SYNCING"} }
             C == { n \in Node : Classified(Canonical)[n].state \in {"DIVERGED", "FORKED"} }
  <1>1. Voters # {}
    BY SnapshotParts, CanonicalType
  <1>2. \E t \in Tip : TipOf(t) = snapshot'.canonical /\ t.time = snapshot'.latest
    BY <1>1, SnapshotParts, LatestBlockCorrect
  <1>3. snapshot'.canonical.h \in Nat
    BY <1>2, HeldTips
  <1>4. LET c == snapshot'.canonical
            e == snapshot'.economics
        IN  /\ c.h > 0 => e.reward = BlockSubsidy(c.h)
            /\ c.h < e.next /\ BlockSubsidy(e.next) = e.reward \div 2
    BY <1>3, SnapshotParts, EconomicsCorrect
  <1>5. complete \subseteq A \cup B \cup C
    BY NodeInSnapshot
  <1>6. IsFiniteSet(A) /\ IsFiniteSet(B) /\ IsFiniteSet(C)
    BY FS_Subset, ConstantsAssumption
  <1>7. Cardinality(complete) <= snapshot'.synchronized + snapshot'.catchingUp + snapshot'.divergent
    <2>1. /\ snapshot'.synchronized = Cardinality(A)
          /\ snapshot'.catchingUp = Cardinality(B)
          /\ snapshot'.divergent = Cardinality(C)
      BY SnapshotParts DEF SynchronizedNodes, InState
    <2> HIDE DEF A, B, C, complete
    <2> QED
      BY <1>5, <1>6, <2>1, CoverBound
  <1>8. Reported' = Node
    BY SnapshotParts
  <1> QED
    BY <1>2, <1>4, <1>7, <1>8 DEF SummaryOfCanonical

-------------------------------------------------------------------------------
(* The theorems *)

\* The answers of a refresh stay what the polls made them until it publishes.
LEMMA PolledCorrect == PolledOK /\ [Next]_vars => PolledOK'
  <1> SUFFICES ASSUME PolledOK, [Next]_vars PROVE PolledOK'
    OBVIOUS
  <1>1. ASSUME NEW n \in Node, PollNode(n) PROVE PolledOK'
    <2>1. PICK met \in Conditions, fork \in BOOLEAN :
            polled' = [m \in DOMAIN polled \cup {n} |->
                         IF m = n THEN PollResult(n, met, fork) ELSE polled[m]]
      BY <1>1 DEF PollNode
    <2>2. AnswerOK(PollResult(n, met, fork))
      BY PollResultOK DEF PolledOK
    <2> QED
      BY <1>1, <2>1, <2>2 DEF PolledOK, PollNode, network
  <1>2. CASE Publish
    BY <1>2, SnapshotParts DEF PolledOK
  <1>3. ASSUME NEW n \in Node, NodeAdvances(n) PROVE PolledOK'
    BY <1>3 DEF PolledOK, NodeAdvances
  <1>4. CASE Tick
    BY <1>4 DEF PolledOK, Tick
  <1>5. CASE UNCHANGED vars
    BY <1>5 DEF PolledOK, vars, network
  <1> QED
    BY <1>1, <1>2, <1>3, <1>4, <1>5 DEF Next

\* The monitor's invariant.  A snapshot is about answers that are no longer
\* current when it is published; the properties hold of it all the same.
THEOREM InductiveInvariant == Spec => []IInv
  <1>1. Init => IInv
    <2> SUFFICES ASSUME Init PROVE IInv
      OBVIOUS
    <2>1. PolledOK
      BY DEF Init, PolledOK
    <2>2. Reported = {}
      <3>1. snapshot.nodes = <<>>
        BY DEF Init, ZeroSnapshot
      <3> QED
        BY <3>1 DEF Reported
    <2> QED
      BY <2>1, <2>2 DEF IInv, GoodNodesAgree, CanonicalIsHeld, SummaryOfCanonical
  <1>2. IInv /\ [Next]_vars => IInv'
    <2> SUFFICES ASSUME IInv, [Next]_vars PROVE IInv'
      OBVIOUS
    <2>1. PolledOK'
      BY PolledCorrect DEF IInv
    <2>2. CASE Publish
      BY <2>1, <2>2, PublishGoodNodes, PublishCanonicalHeld, PublishSummary DEF IInv
    <2>3. CASE ~Publish
      <3>1. UNCHANGED snapshot
        BY <2>3 DEF Next, PollNode, NodeAdvances, Tick, vars
      <3> QED
        BY <2>1, <3>1 DEF IInv, GoodNodesAgree, CanonicalIsHeld, SummaryOfCanonical, Reported
    <2> QED
      BY <2>2, <2>3
  <1> QED
    BY <1>1, <1>2, PTL DEF Spec

\* classify() never shows two nodes on different tips as healthy.
THEOREM GoodNodesCorrect == Spec => []GoodNodesAgree
  <1>1. IInv => GoodNodesAgree
    BY DEF IInv
  <1> QED
    BY <1>1, InductiveInvariant, PTL

\* canonical() elects the tip of a node that answered, if one did.
THEOREM CanonicalCorrect == Spec => []CanonicalIsHeld
  <1>1. IInv => CanonicalIsHeld
    BY DEF IInv
  <1> QED
    BY <1>1, InductiveInvariant, PTL

\* aggregate() and economics() summarise the canonical block, and count every
\* node that answered.
THEOREM SummaryCorrect == Spec => []SummaryOfCanonical
  <1>1. IInv => SummaryOfCanonical
    BY DEF IInv
  <1> QED
    BY <1>1, InductiveInvariant, PTL
===============================================================================
