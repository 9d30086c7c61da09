--------------------------- MODULE IndexerRun_proofs ---------------------------
(***************************************************************************)
(* Proofs about IndexerRun, for any inventory, any ranks, any base and     *)
(* ceiling of the backoff, and any number of faults.                       *)
(***************************************************************************)
EXTENDS IndexerRun, Lemmas, TLAPS

-------------------------------------------------------------------------------
(* The targets *)

\* The place of a node in the inventory identifies it.
LEMMA PositionIdentifies ==
    /\ \A n \in Node : Position(n) \in Nat /\ Rank(n) \in Nat
    /\ \A n, m \in Node : Position(n) = Position(m) => n = m
  <1>1. ASSUME NEW n \in Node
        PROVE  Position(n) \in DOMAIN Inventory /\ Inventory[Position(n)] = n
    BY DEF Node, Position
  <1>2. DOMAIN Inventory \subseteq Nat
    BY ConstantsAssumption
  <1>3. \A n \in Node : Rank(n) \in Nat
    BY DEF Rank
  <1> QED
    BY <1>1, <1>2, <1>3

\* There are finitely many nodes.
LEMMA NodesFinite == IsFiniteSet(Node) /\ IsFiniteSet(HasCredentials)
  <1>1. PICK k \in Nat : DOMAIN Inventory = 1..k
    BY ConstantsAssumption
  <1> DEFINE f == [i \in 1..k |-> Inventory[i]]
  <1>2. f \in Surjection(1..k, Node)
    <2>1. f \in [1..k -> Node]
      BY <1>1 DEF Node
    <2>2. \A n \in Node : \E i \in 1..k : f[i] = n
      BY <1>1 DEF Node
    <2> QED
      BY <2>1, <2>2 DEF Surjection
  <1>3. IsFiniteSet(Node)
    <2>1. IsFiniteSet(1..k)
      BY FS_Interval
    <2> QED
      BY <1>2, <2>1, FS_Surjection
  <1> QED
    BY <1>3, ConstantsAssumption, FS_Subset

\* newRPCPool sorts the nodes with a readable credential file by rank, stably.
\* There is such an order, and every one of these nodes is a target in it: the
\* pool asks the preferred node first, and leaves none out.
THEOREM TargetsCorrect ==
    /\ Len(Targets) = Cardinality(HasCredentials)
    /\ Len(Targets) \in Nat \ {0}
    /\ Targets \in [1..Len(Targets) -> HasCredentials]
    /\ \A i, j \in 1..Len(Targets) : i < j => Before(Targets[i], Targets[j])
    /\ \A n \in HasCredentials : \E i \in 1..Len(Targets) : Targets[i] = n
  <1> DEFINE k == Cardinality(HasCredentials)
             R == { p \in Node \X Node : Before(p[1], p[2]) }
  <1>0. HasCredentials \subseteq Node
    BY ConstantsAssumption
  <1>1. \A n, m \in HasCredentials : <<n, m>> \in R <=> Before(n, m)
    BY <1>0
  <1>2. /\ \A n, m \in HasCredentials : n # m => <<n, m>> \in R \/ <<m, n>> \in R
        /\ \A l, n, m \in HasCredentials : <<l, n>> \in R /\ <<n, m>> \in R => <<l, m>> \in R
        /\ \A n \in HasCredentials : ~(<<n, n>> \in R)
    <2> USE PositionIdentifies, <1>0, <1>1
    <2>1. ASSUME NEW n \in HasCredentials, NEW m \in HasCredentials, n # m
          PROVE  <<n, m>> \in R \/ <<m, n>> \in R
      BY <2>1 DEF Before
    <2>2. ASSUME NEW l \in HasCredentials, NEW n \in HasCredentials, NEW m \in HasCredentials,
                 <<l, n>> \in R, <<n, m>> \in R
          PROVE  <<l, m>> \in R
      BY <2>2 DEF Before
    <2>3. ASSUME NEW n \in HasCredentials PROVE ~(<<n, n>> \in R)
      BY DEF Before
    <2> QED
      BY <2>1, <2>2, <2>3
  <1> HIDE DEF R
  <1>3. k \in Nat \ {0}
    BY NodesFinite, ConstantsAssumption, FS_CardinalityType, FS_EmptySet
  <1>4. \E s \in [1..k -> HasCredentials] :
          \A i, j \in 1..k : i < j => <<s[i], s[j]>> \in R
    BY <1>2, NodesFinite, SortedEnumeration
  <1>5. \E s \in [1..k -> HasCredentials] :
          \A i, j \in DOMAIN s : i < j => Before(s[i], s[j])
    BY <1>1, <1>4
  <1>6. /\ Targets \in [1..k -> HasCredentials]
        /\ \A i, j \in DOMAIN Targets : i < j => Before(Targets[i], Targets[j])
    BY <1>5, Zenon DEF Targets
  <1> HIDE DEF k
  <1>7. Targets \in Seq(HasCredentials) /\ DOMAIN Targets = 1..k /\ Len(Targets) = k
    BY <1>3, <1>6
  <1>8. \A i, j \in 1..k : i < j => <<Targets[i], Targets[j]>> \in R
    BY <1>1, <1>6
  <1>9. \A n \in HasCredentials : \E i \in 1..k : Targets[i] = n
    <2>1. IsFiniteSet(HasCredentials)
      BY NodesFinite
    <2>2. Targets \in [1..Cardinality(HasCredentials) -> HasCredentials]
      BY <1>6 DEF k
    <2>3. \A i, j \in 1..Cardinality(HasCredentials) : Targets[i] = Targets[j] => i = j
      <3> SUFFICES ASSUME NEW i \in 1..k, NEW j \in 1..k, Targets[i] = Targets[j],
                          i < j \/ j < i
                   PROVE  FALSE
        BY <1>3 DEF k
      <3> QED
        BY <1>2, <1>6, <1>8
    <2>4. \A n \in HasCredentials : \E i \in 1..Cardinality(HasCredentials) : Targets[i] = n
      BY <2>1, <2>2, <2>3, EnumerationComplete
    <2> QED
      BY <2>4 DEF k
  <1> QED
    BY <1>3, <1>6, <1>7, <1>9 DEF k

-------------------------------------------------------------------------------
(* The backoff *)

\* The loop of backoff(), written as a recursive function, has a solution.
LEMMA BackoffExists ==
    ASSUME NEW n \in Nat
    PROVE  \E g : g = [i \in 0..n |->
                         IF i = 0 THEN Base
                         ELSE IF g[i - 1] < Ceiling THEN g[i - 1] * 2 ELSE g[i - 1]]
  <1> USE ConstantsAssumption
  <1> DEFINE Twice == [v \in Nat |-> IF v < Ceiling THEN v * 2 ELSE v]
  <1>1. Base \in Nat /\ Twice \in [Nat -> Nat]
    OBVIOUS
  <1>2. \A v \in Nat : Twice[v] = IF v < Ceiling THEN v * 2 ELSE v
    OBVIOUS
  <1> HIDE DEF Twice
  <1>3. PICK f \in [Nat -> Nat] : f[0] = Base /\ \A i \in Nat : f[i + 1] = Twice[f[i]]
    BY <1>1, IteratedFunction, ZenonT(60)
  <1> DEFINE g == [i \in 0..n |-> f[i]]
  <1>4. ASSUME NEW i \in 0..n
        PROVE  f[i] = IF i = 0 THEN Base
                      ELSE IF g[i - 1] < Ceiling THEN g[i - 1] * 2 ELSE g[i - 1]
    <2>1. CASE i = 0
      BY <2>1, <1>3
    <2>2. CASE i # 0
      <3>1. i - 1 \in Nat /\ i - 1 \in 0..n /\ (i - 1) + 1 = i
        BY <2>2
      <3>2. f[(i - 1) + 1] = Twice[f[i - 1]] /\ f[i - 1] = g[i - 1] /\ f[i - 1] \in Nat
        BY <3>1, <1>3
      <3> HIDE DEF g
      <3> QED
        BY <2>2, <3>1, <3>2, <1>2
    <2> QED
      BY <2>1, <2>2
  <1>5. g = [i \in 0..n |->
               IF i = 0 THEN Base
               ELSE IF g[i - 1] < Ceiling THEN g[i - 1] * 2 ELSE g[i - 1]]
    BY <1>4
  <1> QED
    BY <1>5

\* The loop of backoff() doubles until the ceiling is reached and then cuts: the
\* result is the smaller of 2^n times the base and the ceiling.
THEOREM BackoffCorrect ==
    ASSUME NEW n \in Nat
    PROVE  /\ Backoff(n) \in 0..Ceiling
           /\ Backoff(n) = IF Base * Pow2[n] < Ceiling THEN Base * Pow2[n] ELSE Ceiling
  <1> USE ConstantsAssumption
  <1> DEFINE doubled[i \in 0..n] ==
               IF i = 0 THEN Base
               ELSE IF doubled[i - 1] < Ceiling THEN doubled[i - 1] * 2 ELSE doubled[i - 1]
  <1>1. doubled = [i \in 0..n |->
                     IF i = 0 THEN Base
                     ELSE IF doubled[i - 1] < Ceiling THEN doubled[i - 1] * 2 ELSE doubled[i - 1]]
    BY BackoffExists
  <1>2. Backoff(n) = IF doubled[n] > Ceiling THEN Ceiling ELSE doubled[n]
    BY DEF Backoff
  <1> HIDE DEF doubled
  \* As long as the ceiling is not reached the value is the power of two; from
  \* then on both stay above it.
  <1> DEFINE Bound(i) ==
               /\ doubled[i] \in Nat
               /\ \/ doubled[i] = Base * Pow2[i]
                  \/ doubled[i] >= Ceiling /\ Base * Pow2[i] >= Ceiling
             T == { i \in Nat : i <= n => Bound(i) }
  <1>3. 0 \in T
    <2>1. doubled[0] = Base
      BY <1>1
    <2>2. Base * Pow2[0] = Base
      BY Pow2Facts
    <2> QED
      BY <2>1, <2>2
  <1>4. ASSUME NEW i \in Nat, i \in T PROVE i + 1 \in T
    <2> SUFFICES ASSUME i + 1 <= n PROVE Bound(i + 1)
      OBVIOUS
    <2>1. i + 1 \in 0..n /\ i + 1 # 0 /\ (i + 1) - 1 = i
      OBVIOUS
    <2>2. doubled[i + 1] = IF doubled[i] < Ceiling THEN doubled[i] * 2 ELSE doubled[i]
      BY <1>1, <2>1
    <2>3. Bound(i)
      BY <1>4
    <2> DEFINE p == Base * Pow2[i]
    <2>4. p \in Nat /\ Base * Pow2[i + 1] = 2 * p
      <3>1. Pow2[i] \in Nat /\ Pow2[i + 1] = 2 * Pow2[i]
        BY Pow2Facts
      <3> QED
        BY <3>1
    <2> HIDE DEF p
    <2>5. \/ doubled[i] = p
          \/ doubled[i] >= Ceiling /\ p >= Ceiling
      BY <2>3 DEF p
    <2> QED
      BY <2>2, <2>3, <2>4, <2>5
  <1>5. Bound(n)
    <2>1. n \in T
      <3> HIDE DEF T
      <3> QED
        BY <1>3, <1>4, SetInduction
    <2> QED
      BY <2>1
  <1>6. Base * Pow2[n] \in Nat
    <2>1. Pow2[n] \in Nat
      BY Pow2Facts
    <2> QED
      BY <2>1
  <1> QED
    BY <1>2, <1>5, <1>6

-------------------------------------------------------------------------------
(* The recorded duration *)

\* A duration written with three decimals is off by less than one of them, and
\* no time at all is written as none.
LEMMA RoundedIs ==
    ASSUME NEW d \in 0..MaxTime
    PROVE  /\ Rounded(d) \in 0..(MaxTime + Grain)
           /\ Rounded(d) # 0 => d # 0
  <1> USE ConstantsAssumption
  <1> DEFINE h == Grain \div 2
             q == (d + h) \div Grain
  <1>1. h \in Nat /\ h < Grain
    OBVIOUS
  <1> HIDE DEF h
  <1>2. /\ q \in Nat
        /\ q * Grain <= d + h
        /\ d + h < Grain => q = 0
    <2>1. d + h \in Nat
      BY <1>1
    <2> QED
      BY <2>1, SMTT(30)
  <1> HIDE DEF q
  <1>3. Rounded(d) = q * Grain
    BY DEF Rounded, q, h
  <1>4. q * Grain \in Nat /\ (q = 0 => q * Grain = 0)
    BY <1>2
  <1> QED
    BY <1>1, <1>2, <1>3, <1>4

-------------------------------------------------------------------------------
(* The inductive invariant: what each action does to it *)

\* Everything but the call in progress, the status and the faults.
rest == <<health, known, attempt, delay, lastError, caughtUp, initial, meta, now>>

\* A step begins at the first target; there is one.
LEMMA FirstTarget == 1 \in 1..Len(Targets)
  BY TargetsCorrect

LEMMA InitCorrect == Init => IInv
  <1> SUFFICES ASSUME Init PROVE IInv
    OBVIOUS
  <1>1. TypeOK
    <2>1. /\ MaxAttempt \in Nat /\ MaxTime \in Nat \ {0} /\ MaxFaults \in Nat /\ Ceiling \in Nat
          /\ Grain \in Nat
      BY ConstantsAssumption
    <2>2. {started, now} \subseteq 0..MaxTime /\ initial \in 0..(MaxTime + Grain)
      BY <2>1 DEF Init
    <2>3. {policy, lastError, synced, caughtUp} \subseteq BOOLEAN
      BY DEF Init
    <2> QED
      BY <2>1, <2>2, <2>3, FirstTarget DEF Init, TypeOK, Methods
  <1> QED
    BY <1>1 DEF Init, IInv, CallsInOrder, StoredIsKnown, StartedBefore, BackoffDoubles,
                PolicyAssetFirst

\* A step begins with the policy asset unless it is known, and then with the
\* chain.
LEMMA BeginStepCorrect == IInv /\ BeginStep => IInv'
  <1> SUFFICES ASSUME IInv, BeginStep PROVE IInv'
    OBVIOUS
  <1>1. TypeOK'
    BY TargetsCorrect DEF IInv, TypeOK, BeginStep, FirstCall, Ask, Methods, known
  <1>2. CallsInOrder' /\ PolicyAssetFirst'
    BY DEF IInv, TypeOK, StoredIsKnown, BeginStep, FirstCall, Ask, known, CallsInOrder,
           PolicyAssetFirst
  <1> QED
    BY <1>1, <1>2 DEF IInv, BeginStep, known, StoredIsKnown, StartedBefore, BackoffDoubles

\* The policy asset is known from its answer on, whether it could be stored or
\* not.
LEMMA ResolvePolicyAssetCorrect == IInv /\ ResolvePolicyAsset => IInv'
  <1> SUFFICES ASSUME IInv, ResolvePolicyAsset PROVE IInv'
    OBVIOUS
  <1>1. /\ policy' = TRUE /\ meta'.initial = meta.initial
        /\ \/ pc' = pc /\ pc = "call" /\ method' = "chaininfo"
           \/ pc' = "failed"
        /\ UNCHANGED <<attempt, delay, initial, started, unread, now>>
    BY DEF IInv, TypeOK, ResolvePolicyAsset, Answered, Ask, call
  <1>2. TypeOK'
    <2>1. meta' \in [policy : BOOLEAN, initial : 0..(MaxTime + Grain)] /\ faults' \in 0..MaxFaults
      <3>1. meta \in [policy : BOOLEAN, initial : 0..(MaxTime + Grain)] /\ faults \in 0..MaxFaults
        BY DEF IInv, TypeOK
      <3>2. CASE meta' = [meta EXCEPT !.policy = TRUE] /\ UNCHANGED faults
        BY <3>1, <3>2
      <3>3. CASE faults < MaxFaults /\ faults' = faults + 1 /\ UNCHANGED meta
        BY <3>1, <3>3, ConstantsAssumption
      <3> QED
        BY <3>2, <3>3 DEF ResolvePolicyAsset
    <2>2. {policy, lastError, synced, caughtUp}' \subseteq BOOLEAN
      BY DEF IInv, TypeOK, ResolvePolicyAsset
    <2> QED
      BY <2>1, <2>2, FirstTarget
      DEF IInv, TypeOK, ResolvePolicyAsset, Answered, Ask, call, Methods
  <1> QED
    BY <1>1, <1>2 DEF IInv, CallsInOrder, StoredIsKnown, StartedBefore, BackoffDoubles,
                      PolicyAssetFirst

\* Every other step of a call: it asks the next target or makes a later call of
\* the step, or the step ends, and nothing is learnt or stored in the meta table.
CallGoesOn ==
    /\ pc = "call" /\ pc' \in {"call", "done", "failed"}
    /\ method' \in Methods /\ at' \in 1..Len(Targets)
    /\ method' # method => method' # "policy" /\ method # "policy"
    /\ pc' = "done" => method # "policy"
    /\ synced' \in BOOLEAN
    /\ faults' \in 0..MaxFaults
    /\ UNCHANGED rest

LEMMA CallGoesOnCorrect == IInv /\ CallGoesOn => IInv'
  <1> SUFFICES ASSUME IInv, CallGoesOn PROVE IInv'
    OBVIOUS
  <1>1. TypeOK'
    BY DEF IInv, TypeOK, CallGoesOn, rest, known
  <1> QED
    BY <1>1 DEF IInv, CallGoesOn, rest, known, CallsInOrder, StoredIsKnown, StartedBefore,
                BackoffDoubles, PolicyAssetFirst

\* A refusal, a hang or contents that are rejected: the next target, or the end
\* of the step.
LEMMA NoAnswerCorrect == IInv /\ (CallRefused \/ CallHangs \/ ContentsRejected) => CallGoesOn
  <1> SUFFICES ASSUME IInv, CallRefused \/ CallHangs \/ ContentsRejected PROVE CallGoesOn
    OBVIOUS
  <1>1. CASE CallRefused
    BY <1>1, TargetsCorrect DEF IInv, TypeOK, CallRefused, NextTarget, CallGoesOn, rest
  <1>2. CASE CallHangs \/ ContentsRejected
    BY <1>2 DEF IInv, TypeOK, CallHangs, ContentsRejected, call, CallGoesOn, rest
  <1> QED
    BY <1>1, <1>2

\* The calls after the policy asset, and a failure of the store after any of
\* them.
LEMMA AnswerCorrect ==
    ASSUME IInv, ChainInfo \/ RefreshMempool \/ RollbackOrWait \/ NextBlocks \/ FinishBlocks
                 \/ StoreFails
    PROVE  CallGoesOn
  <1> USE DEF CallGoesOn, rest, Answered, Methods
  <1>1. CASE ChainInfo
    BY <1>1, FirstTarget DEF IInv, TypeOK, ChainInfo, Ask
  <1>2. CASE NextBlocks
    BY <1>2, FirstTarget DEF IInv, TypeOK, NextBlocks, Ask
  <1>3. CASE RefreshMempool \/ RollbackOrWait \/ FinishBlocks
    BY <1>3 DEF IInv, TypeOK, RefreshMempool, RollbackOrWait, FinishBlocks, Done, call
  <1>4. CASE StoreFails
    <2>1. faults' \in 0..MaxFaults
      <3>1. faults \in 0..MaxFaults /\ faults < MaxFaults /\ faults' = faults + 1
        BY <1>4 DEF IInv, TypeOK, StoreFails
      <3> QED
        BY <3>1, ConstantsAssumption
    <2>2. synced' \in BOOLEAN
      BY <1>4 DEF IInv, TypeOK, StoreFails
    <2> QED
      BY <1>4, <2>1, <2>2 DEF IInv, TypeOK, StoreFails, call
  <1> QED
    BY <1>1, <1>2, <1>3, <1>4

\* The first catch-up is timed only when no time is known, and a time that is
\* stored is known if it could be read.
LEMMA RecordInitialSyncCorrect ==
    ASSUME IInv, RecordInitialSync
    PROVE  /\ initial' \in 0..(MaxTime + Grain)
           /\ meta' \in [policy : BOOLEAN, initial : 0..(MaxTime + Grain)]
           /\ meta'.policy = meta.policy
           /\ meta'.initial # 0 /\ "initial" \notin unread => initial' # 0
           /\ meta.initial # 0 /\ "initial" \notin unread => meta'.initial = meta.initial
           /\ faults' \in 0..MaxFaults
  <1> DEFINE d == now - started
  <1>0. d \in 0..MaxTime /\ d \in 0..(MaxTime + Grain)
    BY ConstantsAssumption, SMTT(30) DEF IInv, TypeOK, StartedBefore
  <1>1. Rounded(d) \in 0..(MaxTime + Grain) /\ (Rounded(d) # 0 => d # 0)
    BY <1>0, RoundedIs
  <1> HIDE DEF d
  <1>2. meta \in [policy : BOOLEAN, initial : 0..(MaxTime + Grain)] /\ faults \in 0..MaxFaults
    BY DEF IInv, TypeOK
  <1>3. meta.initial # 0 /\ "initial" \notin unread => initial # 0
    BY DEF IInv, StoredIsKnown
  <1>4. CASE MustRecord
    <2>1. initial = 0 /\ initial' = d
      BY <1>4 DEF MustRecord, RecordInitialSync, d
    <2>2. CASE meta' = [meta EXCEPT !.initial = Rounded(d)] /\ UNCHANGED faults
      BY <2>1, <2>2, <1>0, <1>1, <1>2, <1>3
    <2>3. CASE faults < MaxFaults /\ faults' = faults + 1 /\ UNCHANGED meta
      BY <2>1, <2>3, <1>0, <1>2, <1>3, ConstantsAssumption
    <2> QED
      BY <1>4, <2>2, <2>3 DEF RecordInitialSync, d
  <1>5. CASE ~MustRecord
    BY <1>2, <1>3, <1>5 DEF IInv, TypeOK, RecordInitialSync
  <1> QED
    BY <1>4, <1>5

LEMMA StepSucceedsCorrect == IInv /\ StepSucceeds => IInv'
  <1> SUFFICES ASSUME IInv, StepSucceeds PROVE IInv'
    OBVIOUS
  <1>1. RecordInitialSync
    BY DEF StepSucceeds
  <1>2. TypeOK'
    <2>1. /\ initial' \in 0..(MaxTime + Grain) /\ faults' \in 0..MaxFaults
          /\ meta' \in [policy : BOOLEAN, initial : 0..(MaxTime + Grain)]
      BY <1>1, RecordInitialSyncCorrect
    <2>2. attempt' \in 0..MaxAttempt /\ {started, now}' \subseteq 0..MaxTime
      BY ConstantsAssumption DEF IInv, TypeOK, StepSucceeds, known
    <2>3. {policy, lastError, synced, caughtUp}' \subseteq BOOLEAN
      BY DEF IInv, TypeOK, StepSucceeds, known
    <2> QED
      BY <2>1, <2>2, <2>3, FirstTarget DEF IInv, TypeOK, StepSucceeds, ForgetCall, known, Methods
  <1>3. StoredIsKnown'
    BY <1>1, RecordInitialSyncCorrect DEF IInv, StoredIsKnown, StepSucceeds, known
  <1> QED
    BY <1>2, <1>3 DEF IInv, StepSucceeds, ForgetCall, known, CallsInOrder, StartedBefore,
                      BackoffDoubles, PolicyAssetFirst

\* The delay is that of the failures in a row so far.
LEMMA StepFailsCorrect == IInv /\ StepFails => IInv'
  <1> SUFFICES ASSUME IInv, StepFails PROVE IInv'
    OBVIOUS
  <1>1. attempt \in Nat /\ MaxAttempt \in Nat \ {0} /\ attempt <= MaxAttempt
    BY ConstantsAssumption DEF IInv, TypeOK
  <1>2. /\ delay' \in 0..Ceiling
        /\ delay' = IF Base * Pow2[attempt] < Ceiling THEN Base * Pow2[attempt] ELSE Ceiling
    BY <1>1, BackoffCorrect DEF StepFails
  <1>3. TypeOK'
    BY <1>1, <1>2, FirstTarget DEF IInv, TypeOK, StepFails, ForgetCall, known, Methods
  <1>4. BackoffDoubles'
    <2>1. /\ attempt' > 0
          /\ attempt' < MaxAttempt => attempt' - 1 = attempt
      BY <1>1 DEF StepFails
    <2> QED
      BY <1>2, <2>1 DEF BackoffDoubles
  <1> QED
    BY <1>3, <1>4 DEF IInv, StepFails, ForgetCall, known, CallsInOrder, StoredIsKnown, StartedBefore,
                      PolicyAssetFirst

LEMMA SleepEndsCorrect == IInv /\ SleepEnds => IInv'
  <1> SUFFICES ASSUME IInv, SleepEnds PROVE IInv'
    OBVIOUS
  <1>1. TypeOK'
    BY ConstantsAssumption DEF IInv, TypeOK, SleepEnds, call, known
  <1> QED
    BY <1>1 DEF IInv, SleepEnds, call, known, CallsInOrder, StoredIsKnown, StartedBefore, BackoffDoubles,
                PolicyAssetFirst

\* A new process knows what is stored, as far as it could read it, and nothing
\* else.
LEMMA RestartCorrect == IInv /\ Restart => IInv'
  <1> SUFFICES ASSUME IInv, Restart PROVE IInv'
    OBVIOUS
  <1>1. PICK failing \in SUBSET {"policy", "initial"} :
          /\ unread' = failing
          /\ policy' = Stored(failing).policy
          /\ initial' = Stored(failing).initial
    BY DEF Restart
  <1>2. /\ meta.policy \in BOOLEAN /\ meta.initial \in 0..(MaxTime + Grain)
        /\ policy' \in BOOLEAN /\ initial' \in 0..(MaxTime + Grain)
        /\ meta.policy /\ "policy" \notin unread' => policy'
        /\ meta.initial # 0 /\ "initial" \notin unread' => initial' # 0
    BY <1>1, ConstantsAssumption DEF IInv, TypeOK, Stored
  <1>3. TypeOK'
    <2>1. faults' \in 0..MaxFaults /\ attempt' \in 0..MaxAttempt /\ delay' \in 0..Ceiling
      BY ConstantsAssumption DEF IInv, TypeOK, Restart
    <2>2. {started, now}' \subseteq 0..MaxTime
      BY ConstantsAssumption DEF IInv, TypeOK, Restart
    <2>3. {policy, lastError, synced, caughtUp}' \subseteq BOOLEAN
      BY <1>2 DEF Restart
    <2> QED
      BY <1>1, <1>2, <2>1, <2>2, <2>3, FirstTarget DEF IInv, TypeOK, Restart, ForgetCall, Methods
  <1>4. StartedBefore'
    BY ConstantsAssumption DEF IInv, TypeOK, Restart, StartedBefore
  <1>5. StoredIsKnown'
    BY <1>2 DEF Restart, StoredIsKnown
  <1> QED
    BY <1>3, <1>4, <1>5 DEF IInv, Restart, CallsInOrder, BackoffDoubles, PolicyAssetFirst

LEMMA NodeChangesCorrect == IInv /\ NodeChanges => IInv'
  <1> SUFFICES ASSUME IInv, NodeChanges PROVE IInv'
    OBVIOUS
  <1>1. TypeOK'
    BY DEF IInv, TypeOK, NodeChanges, run, call, known
  <1> QED
    BY <1>1 DEF IInv, NodeChanges, run, call, known, CallsInOrder, StoredIsKnown, StartedBefore,
                BackoffDoubles, PolicyAssetFirst

LEMMA TickCorrect == IInv /\ Tick => IInv'
  <1> SUFFICES ASSUME IInv, Tick PROVE IInv'
    OBVIOUS
  <1>1. TypeOK' /\ StartedBefore'
    BY ConstantsAssumption DEF IInv, TypeOK, StartedBefore, Tick, run, call, known
  <1> QED
    BY <1>1 DEF IInv, Tick, run, call, known, CallsInOrder, StoredIsKnown, BackoffDoubles,
                PolicyAssetFirst

LEMMA StutterCorrect == IInv /\ UNCHANGED vars => IInv'
  BY DEF IInv, vars, run, call, known, TypeOK, CallsInOrder, StoredIsKnown, StartedBefore, BackoffDoubles,
         PolicyAssetFirst

-------------------------------------------------------------------------------
(* The theorems *)

\* The invariant of the loop: a process knows what is stored, asks in order, and
\* waits as long as the failures in a row demand.
THEOREM InductiveInvariant == Spec => []IInv
  <1>1. Init => IInv
    BY InitCorrect
  <1>2. IInv /\ [Next]_vars => IInv'
    BY BeginStepCorrect, NoAnswerCorrect, ResolvePolicyAssetCorrect, AnswerCorrect,
       CallGoesOnCorrect, StepSucceedsCorrect, StepFailsCorrect, SleepEndsCorrect,
       RestartCorrect, NodeChangesCorrect, TickCorrect, StutterCorrect DEF Next, Loop
  <1> QED
    BY <1>1, <1>2, PTL DEF Spec

\* Every variable has its type; in particular the pool never reads past its last
\* target (`at`) and no delay exceeds the ceiling.
THEOREM TypeCorrect == Spec => []TypeOK
  <1>1. IInv => TypeOK
    BY DEF IInv
  <1> QED
    BY <1>1, InductiveInvariant, PTL

\* Run() waits the smaller of 2^(n-1) seconds and the ceiling after the n-th
\* failure in a row.
THEOREM BackoffHolds == Spec => []BackoffDoubles
  <1>1. IInv => BackoffDoubles
    BY DEF IInv
  <1> QED
    BY <1>1, InductiveInvariant, PTL

\* step() asks for no block before resolvePolicyAsset has succeeded, and
\* resolves a stored asset again only in a process that failed to read it.
THEOREM PolicyAssetHolds == Spec => []PolicyAssetFirst
  <1>1. IInv => PolicyAssetFirst
    BY DEF IInv
  <1> QED
    BY <1>1, InductiveInvariant, PTL

\* A stored duration, other than 0.000, is replaced only by a process that
\* failed to read it when it started.
THEOREM InitialSyncHolds == Spec => InitialSyncWrittenOnce
  <1> DEFINE Kept == meta.initial # 0 /\ "initial" \notin unread => meta'.initial = meta.initial
  <1>1. IInv /\ [Next]_vars => [Kept]_vars
    <2> SUFFICES ASSUME IInv, Next PROVE Kept
      OBVIOUS
    <2>1. CASE StepSucceeds
      BY <2>1, RecordInitialSyncCorrect DEF StepSucceeds
    <2>2. CASE ResolvePolicyAsset
      BY <2>2 DEF IInv, TypeOK, ResolvePolicyAsset
    <2>3. CASE ~StepSucceeds /\ ~ResolvePolicyAsset
      <3>1. UNCHANGED meta
        BY <2>3 DEF Next, Loop, BeginStep, CallRefused, CallHangs, ContentsRejected, ChainInfo,
                    RefreshMempool, RollbackOrWait, FinishBlocks, Done, NextBlocks, StoreFails,
                    StepFails, SleepEnds, Restart, NodeChanges, Tick
      <3> QED
        BY <3>1
    <2> QED
      BY <2>1, <2>2, <2>3
  <1> QED
    BY <1>1, InductiveInvariant, PTL DEF Spec, InitialSyncWrittenOnce
===============================================================================
