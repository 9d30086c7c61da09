------------------------------- MODULE Telemetry -------------------------------
(***************************************************************************)
(* The network monitor of the explorer (explorer/telemetry.go).  A refresh *)
(* polls every node concurrently, so the answers of one snapshot are taken *)
(* at different moments; it then elects the canonical tip (CanonicalVote   *)
(* shows that canonical computes the election), classifies the nodes,      *)
(* compares the height with the snapshot before and keeps a window of      *)
(* heights for the block rate.                                             *)
(*                                                                         *)
(* A tip is a height, a hash (a natural number, see CanonicalVote) and the *)
(* time of its block.                                                      *)
(*                                                                         *)
(* Definitions whose name starts with Slip are wrong variants of the       *)
(* definition that follows them, used to test the properties.              *)
(***************************************************************************)
EXTENDS Integers, Sequences, FiniteSets

CONSTANTS
    Node,       \* the inventory
    Tip,        \* the blocks a node may have as its tip: [h, hash, time]
    Window,     \* the 60 seconds of the height history
    Stale,      \* StaleThresholdSeconds
    AutoMine,   \* inv.AutoMine: a producer is supposed to run
    Initial,    \* BlockRewardSats
    Interval,   \* HalvingInterval, not 0 by validateInventory
    Start,      \* when the monitor starts
    MaxTime,    \* bound: the clock
    MaxRefresh  \* bound: refreshes

\* initial >> n
Shifted[n \in Nat] == IF n = 0 THEN Initial ELSE Shifted[n - 1] \div 2

ASSUME ConstantsAssumption ==
    /\ IsFiniteSet(Node) /\ Node # {}
    /\ Tip \subseteq [h : Nat, hash : Nat \ {0}, time : Nat]
    /\ \A s, t \in Tip : s.hash = t.hash => s = t       \* a hash names one block
    /\ {Window, Stale, MaxTime, MaxRefresh} \subseteq Nat /\ Start \in Nat \ {0}
    /\ AutoMine \in BOOLEAN
    /\ Initial \in Nat /\ Interval \in Nat \ {0}
    /\ Shifted[63] = 0            \* the reward fits the int64 that blockSubsidy returns

VARIABLES
    tip,        \* tip[n]: the tip of node n
    now,        \* the clock
    polled,     \* the answers of the refresh in progress
    snapshot,   \* what the API serves
    samples,    \* the height history
    refreshes,  \* refreshes so far (bounded by MaxRefresh)
    grew        \* when a node last moved to a higher tip (for the properties)

network == <<tip, now>>
vars == <<network, polled, snapshot, samples, refreshes, grew>>

\* What a poll may meet.
Conditions ==
    {"ok", "offline", "nocredentials", "badreply", "garbled", "noheader"}

NoTip == [h |-> -1, hash |-> 0]
TipOf(t) == [h |-> t.h, hash |-> t.hash]

\* A poller starts with a zero Snapshot: canonical height 0, not -1.
ZeroSnapshot == [canonical |-> [h |-> 0, hash |-> 0], nodes |-> <<>>, synchronized |-> 0,
                 catchingUp |-> 0, divergent |-> 0, latest |-> 0, economics |-> <<>>,
                 warning |-> "", rate |-> 0, at |-> 0]

Init ==
    /\ tip \in [Node -> { t \in Tip : t.time <= Start }]
    /\ now = Start
    /\ polled = <<>>
    /\ snapshot = ZeroSnapshot
    /\ samples = <<>>
    /\ refreshes = 0
    /\ grew = 0

-------------------------------------------------------------------------------
(* pollNode: Online, State, and what was decoded before anything failed *)

Status(online, state, t, time, f) ==
    [online |-> online, state |-> state, tip |-> t, time |-> time, fork |-> f]

PollResult(n, met, fork) ==
    CASE met = "offline" -> Status(FALSE, "OFFLINE", NoTip, 0, FALSE)
      [] met \in {"nocredentials", "badreply"} -> Status(FALSE, "ERROR", NoTip, 0, FALSE)
      [] met = "garbled" -> Status(TRUE, "ERROR", NoTip, 0, FALSE)
      [] met = "noheader" -> Status(TRUE, "ERROR", TipOf(tip[n]), 0, fork)
      [] met = "ok" -> Status(TRUE, "HEALTHY", TipOf(tip[n]), tip[n].time, fork)

\* One goroutine per node; they finish in any order.  fork: getchaintips shows a
\* valid side branch.  The ticker leaves a second between two refreshes.
PollNode(n) ==
    /\ n \notin DOMAIN polled
    /\ now > snapshot.at
    /\ refreshes < MaxRefresh
    /\ \E met \in Conditions, fork \in BOOLEAN :
         polled' = [m \in DOMAIN polled \cup {n} |->
                      IF m = n THEN PollResult(n, met, fork) ELSE polled[m]]
    /\ UNCHANGED <<network, snapshot, samples, refreshes, grew>>

-------------------------------------------------------------------------------
(* aggregate *)

SlipVoters == { n \in Node : polled[n].online }
Voters == { n \in Node : polled[n].online /\ polled[n].state # "ERROR" }
Votes(k) == Cardinality({ n \in Voters : polled[n].tip = k })

\* canonical, by what it elects
Canonical ==
    IF Voters = {} THEN NoTip
    ELSE LET keys == { polled[n].tip : n \in Voters }
         IN  CHOOSE k \in keys : \A o \in keys :
               \/ Votes(o) < Votes(k)
               \/ Votes(o) = Votes(k) /\ o.h < k.h
               \/ Votes(o) = Votes(k) /\ o.h = k.h /\ k.hash <= o.hash

SlipClassify(s, c) ==
    CASE ~s.online \/ s.state = "ERROR" -> s.state
      [] s.fork -> "FORKED"
      [] s.tip.h = c.h /\ s.tip.hash # c.hash -> "DIVERGED"
      [] s.tip.h < c.h -> "SYNCING"
      [] OTHER -> "HEALTHY"
Classify(s, c) ==
    IF ~s.online \/ s.state = "ERROR" THEN s.state
    ELSE CASE s.fork -> "FORKED"
           [] ~s.fork /\ s.tip.h = c.h /\ s.tip.hash # c.hash -> "DIVERGED"
           [] ~s.fork /\ s.tip.h < c.h -> "SYNCING"
           [] ~s.fork /\ s.tip.h > c.h -> "DIVERGED"
           [] ~s.fork /\ s.tip = c /\ s.time > 0 /\ now - s.time > Stale -> "STALE"
           [] OTHER -> "HEALTHY"

Classified(c) == [n \in Node |-> [polled[n] EXCEPT !.state = Classify(polled[n], c)]]

SynchronizedNodes(c) == Cardinality({ n \in Node : polled[n].tip = c /\ polled[n].online })
InState(c, states) == Cardinality({ n \in Node : Classified(c)[n].state \in states })

\* LatestBlockTimestamp: the last node of the loop with this hash and a header wins
LatestBlock(c) ==
    LET times == { polled[n].time : n \in { m \in Node : polled[m].tip.hash = c.hash } } \ {0}
    IN  IF times = {} THEN 0 ELSE CHOOSE t \in times : TRUE

\* economics: an unknown height counts as 0
SlipEconomics(height) ==
    LET h == IF height > 0 THEN height - 1 ELSE 0
        era == h \div Interval
    IN  [reward |-> IF era < 64 THEN Shifted[era] ELSE 0, next |-> (era + 1) * Interval]
Economics(height) ==
    LET h == IF height > 0 THEN height ELSE 0
        era == h \div Interval
    IN  [reward |-> IF era < 64 THEN Shifted[era] ELSE 0, next |-> (era + 1) * Interval]

\* blockSubsidy, which the indexer stores with a block (elements.go)
BlockSubsidy(height) ==
    LET era == height \div Interval
    IN  IF height <= 0 \/ era >= 64 THEN 0 ELSE Shifted[era]

-------------------------------------------------------------------------------
(* refresh, after the polls *)

\* running: readProducer(...).Running, see Producer
GenerationWarning(c, running) ==
    IF snapshot.canonical.h >= 0 /\ c.h > snapshot.canonical.h /\ ~running
    THEN IF AutoMine THEN "ORPHANED_PRODUCTION" ELSE "EXTERNAL_GENERATION"
    ELSE ""

\* Samples older than the window go, but the newest one stays.
Recent(s, i) == i = Len(s) \/ s[i].at >= now - Window

Trim(s) ==
    LET first == CHOOSE i \in DOMAIN s :
                   Recent(s, i) /\ \A j \in DOMAIN s : j < i => ~Recent(s, j)
    IN  SubSeq(s, first, Len(s))

\* Blocks between the ends of the window, when they are apart in time and the
\* height did not fall.  (The code divides by the time between them.)
Rate(s) ==
    LET a == s[1]  b == s[Len(s)]
    IN  IF Len(s) > 1 /\ b.at > a.at /\ b.height >= a.height THEN b.height - a.height ELSE 0

Publish ==
    /\ DOMAIN polled = Node
    /\ \E running \in BOOLEAN : LET c == Canonical IN
         /\ samples' = Trim(Append(samples, [at |-> now, height |-> c.h]))
         /\ snapshot' = [canonical |-> c, nodes |-> Classified(c),
                         synchronized |-> SynchronizedNodes(c),
                         catchingUp |-> InState(c, {"SYNCING"}),
                         divergent |-> InState(c, {"DIVERGED", "FORKED"}),
                         latest |-> LatestBlock(c), economics |-> Economics(c.h),
                         warning |-> GenerationWarning(c, running), rate |-> Rate(samples'), at |-> now]
    /\ polled' = <<>>
    /\ refreshes' = refreshes + 1
    /\ UNCHANGED <<network, grew>>

-------------------------------------------------------------------------------
(* The network (external) *)

NodeAdvances(n) ==
    /\ \E t \in Tip :
         /\ t.h > tip[n].h /\ t.time <= now
         /\ tip' = [tip EXCEPT ![n] = t]
    /\ grew' = now
    /\ UNCHANGED <<now, polled, snapshot, samples, refreshes>>

Tick ==
    /\ now < MaxTime
    /\ now' = now + 1
    /\ UNCHANGED <<tip, polled, snapshot, samples, refreshes, grew>>

Next ==
    \/ \E n \in Node : PollNode(n) \/ NodeAdvances(n)
    \/ Publish \/ Tick

Spec == Init /\ [][Next]_vars

-------------------------------------------------------------------------------
(* Properties *)

Reported == DOMAIN snapshot.nodes

\* Two nodes shown as HEALTHY or STALE agree on the tip, and it is the canonical
\* one: a disagreement in a snapshot is always flagged on one of them, however
\* the polls interleaved with the network.
GoodNodesAgree ==
    \A n \in Reported :
        snapshot.nodes[n].state \in {"HEALTHY", "STALE"} =>
            snapshot.nodes[n].tip = snapshot.canonical

\* The canonical tip is that of a node that answered completely, and at least
\* one node counts as synchronized with it; there is none only if no node did.
CanonicalIsHeld ==
    Reported # {} =>
        LET complete == { n \in Reported : snapshot.nodes[n].state \notin {"ERROR", "OFFLINE"} }
        IN  IF complete = {} THEN snapshot.canonical = NoTip
            ELSE /\ \E n \in complete : snapshot.nodes[n].tip = snapshot.canonical
                 /\ snapshot.synchronized >= 1

\* The summary is about the canonical block: the time of the latest block is that
\* block's, the reward is the subsidy the indexer stores with it, the next halving is
\* ahead of it and halves that reward; and a node that answered completely is counted
\* as synchronized, catching up or divergent.
SummaryOfCanonical ==
    Reported # {} /\ snapshot.canonical # NoTip =>
        LET c == snapshot.canonical
            e == snapshot.economics
            complete == { n \in Reported : snapshot.nodes[n].state \notin {"ERROR", "OFFLINE"} }
        IN  /\ \E t \in Tip : TipOf(t) = c /\ t.time = snapshot.latest
            /\ c.h > 0 => e.reward = BlockSubsidy(c.h)
            /\ c.h < e.next /\ BlockSubsidy(e.next) = e.reward \div 2
            /\ Cardinality(complete) <=
                 snapshot.synchronized + snapshot.catchingUp + snapshot.divergent

\* "height history for block rate": a rate above zero means that some node
\* moved to a higher block since the monitor began to watch.
RateMeansBlocks == snapshot.rate > 0 => grew > 0

-------------------------------------------------------------------------------
(* The inductive invariant behind the safety properties: what the answers of a *)
(* refresh may look like when the last of them arrives.                       *)

\* A complete answer holds a tip some node had; what is left of an incomplete
\* one never has the time of a block.
AnswerOK(s) ==
    /\ s \in [online : BOOLEAN, state : {"OFFLINE", "ERROR", "HEALTHY"},
              tip : {NoTip} \cup { TipOf(t) : t \in Tip }, time : Nat, fork : BOOLEAN]
    /\ IF s.state = "HEALTHY"
       THEN s.online /\ \E t \in Tip : s.tip = TipOf(t) /\ s.time = t.time
       ELSE s.time = 0
    /\ s.state = "OFFLINE" => ~s.online

PolledOK ==
    /\ tip \in [Node -> Tip]
    /\ DOMAIN polled \subseteq Node
    /\ \A n \in DOMAIN polled : AnswerOK(polled[n])

IInv == PolledOK /\ GoodNodesAgree /\ CanonicalIsHeld /\ SummaryOfCanonical
===============================================================================
