------------------------------ MODULE IndexerRun ------------------------------
(***************************************************************************)
(* The loop around the indexer's steps (explorer/indexer.go: Run, and the  *)
(* beginning of step) and the RPC pool every call goes through             *)
(* (explorer/rpc.go).  What a step does to the index is ChainIndexer's     *)
(* subject; here a step is the calls it makes, all under one deadline, and *)
(* its outcome.                                                            *)
(*                                                                         *)
(* A node answers, refuses (no connection, an error, a malformed or        *)
(* incomplete batch), hangs, or garbles: its batch is well formed and what *)
(* it says is not, which fails the step whatever the other nodes would     *)
(* say.  The deadline of a step and the timeout of the HTTP client are the *)
(* same duration, so a call that hangs lasts until the deadline of the     *)
(* step it belongs to.                                                     *)
(*                                                                         *)
(* Definitions whose name starts with Slip are wrong variants of the       *)
(* definition that follows them, used to test the properties.              *)
(***************************************************************************)
EXTENDS Integers, Sequences, FiniteSets, Powers

CONSTANTS
    Inventory,      \* the nodes of inventory.json, in its order
    HasCredentials, \* those whose credential file can be read
    Preferred,      \* EXPLORER_PRIMARY_NODE
    TxIndex,        \* those with the txindex capability
    Base, Ceiling,  \* the backoff: 1 s and 60 s
    MaxAttempt,     \* bound: failed steps in a row
    Grain,          \* the clock's units in a thousandth of a second
    MaxTime,        \* bound: the clock
    MaxFaults       \* bound: restarts and failures of the store

Node == { Inventory[i] : i \in DOMAIN Inventory }

ASSUME ConstantsAssumption ==
    /\ Inventory \in Seq(Node)
    /\ HasCredentials \subseteq Node
    /\ HasCredentials # {}          \* otherwise newRPCPool fails and main exits
    /\ {Base, Grain} \subseteq Nat \ {0} /\ Ceiling \in Nat
    /\ {MaxAttempt, MaxTime} \subseteq Nat \ {0} /\ MaxFaults \in Nat

-------------------------------------------------------------------------------
(* newRPCPool: a stable sort of the nodes by rank *)

Rank(n) == IF n = Preferred THEN 0 ELSE IF n \in TxIndex THEN 1 ELSE 2

Position(n) == CHOOSE i \in DOMAIN Inventory : Inventory[i] = n

Before(n, m) == Rank(n) < Rank(m) \/ (Rank(n) = Rank(m) /\ Position(n) < Position(m))

Targets ==
    CHOOSE s \in [1..Cardinality(HasCredentials) -> HasCredentials] :
        \A i, j \in DOMAIN s : i < j => Before(s[i], s[j])

-------------------------------------------------------------------------------
(* backoff: double until the ceiling is reached, then cut *)

SlipBackoff(n) == IF n = 0 THEN Base ELSE Ceiling
Backoff(n) ==
    LET doubled[i \in 0..n] ==
          IF i = 0 THEN Base
          ELSE IF doubled[i - 1] < Ceiling THEN doubled[i - 1] * 2 ELSE doubled[i - 1]
    IN  IF doubled[n] > Ceiling THEN Ceiling ELSE doubled[n]

-------------------------------------------------------------------------------
VARIABLES
    health,     \* health[n]: what node n does with a call
    pc,         \* "step", "call", "done", "failed", "backoff" or "poll"
    method,     \* the call in progress
    at,         \* position in Targets of the node being asked
    policy,     \* cfg.PolicyAsset is known
    attempt,    \* failed steps in a row
    delay,      \* the sleep Run() is in
    lastError,  \* status.LastError is set
    synced,     \* status.Synchronized
    caughtUp,   \* the local of Run()
    started,    \* when this process started
    initial,    \* status.InitialSyncSeconds, 0 when not known
    unread,     \* keys of the meta table this process failed to read when it started
    meta,       \* the meta table: policy_asset and initial_sync_seconds
    now,        \* the clock
    faults      \* restarts and failures of the store so far

call == <<method, at>>
known == <<policy, started, unread>>
run == <<pc, call, known, attempt, delay, lastError, synced, caughtUp, initial>>
vars == <<health, run, meta, now, faults>>

Conditions == {"ok", "refuses", "hangs", "garbles"}
Methods == {"policy", "chaininfo", "mempool", "blockhash", "hashes", "blocks"}

Init ==
    /\ health \in [HasCredentials -> Conditions]
    /\ pc = "step" /\ method = "policy" /\ at = 1
    /\ policy = FALSE
    /\ attempt = 0 /\ delay = 0
    /\ lastError = FALSE /\ synced = FALSE /\ caughtUp = FALSE
    /\ started = 0 /\ initial = 0 /\ unread = {}
    /\ meta = [policy |-> FALSE, initial |-> 0]
    /\ now = 1
    /\ faults = 0

-------------------------------------------------------------------------------
(* call and callTarget *)

SlipFirstCall == "chaininfo"
FirstCall == IF policy THEN "chaininfo" ELSE "policy"

Ask(m) == method' = m /\ at' = 1

BeginStep ==
    /\ pc = "step" /\ pc' = "call"
    /\ Ask(FirstCall)
    /\ UNCHANGED <<health, known, attempt, delay, lastError, synced, caughtUp, initial, meta, now,
                   faults>>

\* A refusal moves on to the next target; after the last one the call fails.
SlipNextTarget == at' = at + 1 /\ UNCHANGED pc
SlipNoFailover == pc' = "failed" /\ UNCHANGED at
NextTarget ==
    IF at < Len(Targets)
    THEN at' = at + 1 /\ UNCHANGED pc
    ELSE pc' = "failed" /\ UNCHANGED at

CallRefused ==
    /\ pc = "call"
    /\ health[Targets[at]] = "refuses"
    /\ NextTarget
    /\ UNCHANGED <<health, method, known, attempt, delay, lastError, synced, caughtUp, initial, meta,
                   now, faults>>

\* The deadline of the step passes: call() returns ctx.Err() and asks no other
\* target.
CallHangs ==
    /\ pc = "call"
    /\ health[Targets[at]] = "hangs"
    /\ pc' = "failed"
    /\ UNCHANGED <<health, call, known, attempt, delay, lastError, synced, caughtUp, initial, meta,
                   now, faults>>

\* The batch is complete, so call() has succeeded; the step then rejects what
\* is in it: an asset or a hash of the wrong length, a negative height, JSON of
\* another shape, a block at another height.
ContentsRejected ==
    /\ pc = "call"
    /\ health[Targets[at]] = "garbles"
    /\ pc' = "failed"
    /\ UNCHANGED <<health, call, known, attempt, delay, lastError, synced, caughtUp, initial, meta,
                   now, faults>>

-------------------------------------------------------------------------------
(* The calls of a step *)

Answered(m) == pc = "call" /\ method = m /\ health[Targets[at]] = "ok"

\* resolvePolicyAsset: known from now on, and stored, or the step fails.
ResolvePolicyAsset ==
    /\ Answered("policy")
    /\ policy' = TRUE
    /\ \/ /\ meta' = [meta EXCEPT !.policy = TRUE]
          /\ Ask("chaininfo")
          /\ UNCHANGED <<pc, faults>>
       \/ /\ faults < MaxFaults /\ faults' = faults + 1
          /\ pc' = "failed"
          /\ UNCHANGED <<call, meta>>
    /\ UNCHANGED <<health, started, unread, attempt, delay, lastError, synced, caughtUp, initial, now>>

\* The tip is published, and the cursor is read: it is the tip, or it is another
\* block and checked first, or the index is empty.
ChainInfo ==
    /\ Answered("chaininfo")
    /\ synced' \in BOOLEAN
    /\ \/ Ask("mempool")
       \/ ~synced' /\ \E m \in {"blockhash", "hashes"} : Ask(m)
    /\ UNCHANGED <<health, pc, known, attempt, delay, lastError, caughtUp, initial, meta, now, faults>>

\* The mempool is replaced; or the canonical block at the cursor's height sends
\* the step to a rollback, or leaves it nothing to fetch.
Done(m) ==
    /\ Answered(m)
    /\ pc' = "done"
    /\ UNCHANGED <<health, call, known, attempt, delay, lastError, caughtUp, initial, meta, now, faults>>

RefreshMempool == Done("mempool") /\ UNCHANGED synced
RollbackOrWait == Done("blockhash") /\ synced' \in BOOLEAN

\* The batch is applied, or its first block does not follow and the top is
\* rolled back.  Either may bring the index to the tip.
FinishBlocks == Done("blocks") /\ synced' \in BOOLEAN

\* The cursor's block is canonical: the hashes of the next ones; then the blocks.
NextBlocks ==
    /\ \/ Answered("blockhash") /\ Ask("hashes")
       \/ Answered("hashes") /\ Ask("blocks")
    /\ UNCHANGED <<health, pc, known, attempt, delay, lastError, synced, caughtUp, initial, meta, now,
                   faults>>

\* The store fails after an answer: reading the cursor, or writing the mempool,
\* a rollback or the blocks.  The tip has been published by then.
StoreFails ==
    /\ \E m \in Methods \ {"policy", "hashes"} : Answered(m)
    /\ faults < MaxFaults /\ faults' = faults + 1
    /\ pc' = "failed"
    /\ synced' \in IF method = "chaininfo" THEN BOOLEAN ELSE {synced}
    /\ UNCHANGED <<health, call, known, attempt, delay, lastError, caughtUp, initial, meta, now>>

-------------------------------------------------------------------------------
(* Run, after a step *)

\* A call and its target are forgotten with the step.
ForgetCall == method' = "policy" /\ at' = 1

\* recordInitialSync stores the seconds as text with three decimals.
Rounded(d) == ((d + Grain \div 2) \div Grain) * Grain

\* The first time the index is at the tip in this process.  A failed write is
\* ignored, and a stored 0.000 is as good as none.
FirstCatchUp == ~caughtUp /\ synced
SlipMustRecord == FirstCatchUp
MustRecord == FirstCatchUp /\ initial = 0

RecordInitialSync ==
    IF MustRecord
    THEN /\ initial' = now - started
         /\ \/ meta' = [meta EXCEPT !.initial = Rounded(now - started)] /\ UNCHANGED faults
            \/ faults < MaxFaults /\ faults' = faults + 1 /\ UNCHANGED meta
    ELSE UNCHANGED <<initial, meta, faults>>

\* A step that moved the index is followed by the next one at once, any other by
\* a sleep; one that ended with the block hash may have done either.
StepSucceeds ==
    /\ pc = "done"
    /\ attempt' = 0
    /\ lastError' = FALSE
    /\ caughtUp' = (caughtUp \/ synced)
    /\ RecordInitialSync
    /\ \/ method # "mempool" /\ pc' = "step"
       \/ method # "blocks" /\ pc' = "poll"
    /\ ForgetCall
    /\ UNCHANGED <<health, known, delay, synced, now>>

StepFails ==
    /\ pc = "failed"
    /\ attempt' = IF attempt < MaxAttempt THEN attempt + 1 ELSE attempt
    /\ delay' = Backoff(attempt)
    /\ lastError' = TRUE
    /\ pc' = "backoff"
    /\ ForgetCall
    /\ UNCHANGED <<health, known, synced, caughtUp, initial, meta, now, faults>>

\* sleepContext
SleepEnds ==
    /\ pc \in {"backoff", "poll"}
    /\ pc' = "step" /\ delay' = 0
    /\ UNCHANGED <<health, call, known, attempt, lastError, synced, caughtUp, initial, meta, now, faults>>

\* main again: newIndexer reads what is stored.  It ignores a read that fails,
\* and goes on as if nothing were stored.
Stored(failing) ==
    [policy |-> meta.policy /\ "policy" \notin failing,
     initial |-> IF "initial" \in failing THEN 0 ELSE meta.initial]

Restart ==
    /\ faults < MaxFaults /\ faults' = faults + 1
    /\ pc' = "step" /\ ForgetCall
    /\ \E failing \in SUBSET {"policy", "initial"} :
         /\ unread' = failing
         /\ policy' = Stored(failing).policy
         /\ initial' = Stored(failing).initial
    /\ attempt' = 0 /\ delay' = 0
    /\ lastError' = FALSE /\ synced' = FALSE /\ caughtUp' = FALSE
    /\ started' = now
    /\ now < MaxTime /\ now' = now + 1
    /\ UNCHANGED <<health, meta>>

-------------------------------------------------------------------------------
(* The nodes and the clock (external) *)

NodeChanges ==
    /\ \E n \in HasCredentials, h \in Conditions : health' = [health EXCEPT ![n] = h]
    /\ UNCHANGED <<run, meta, now, faults>>

Tick ==
    /\ now < MaxTime
    /\ now' = now + 1
    /\ UNCHANGED <<health, run, meta, faults>>

Loop ==
    \/ BeginStep \/ CallRefused \/ CallHangs \/ ContentsRejected \/ ResolvePolicyAsset
    \/ ChainInfo \/ RefreshMempool \/ RollbackOrWait \/ NextBlocks \/ FinishBlocks
    \/ StoreFails \/ StepSucceeds \/ StepFails \/ SleepEnds

Next == Loop \/ Restart \/ NodeChanges \/ Tick

Spec == Init /\ [][Next]_vars

\* Run() is a goroutine that always has something to do.
FairSpec == Spec /\ WF_vars(Loop)

-------------------------------------------------------------------------------
(* Properties *)

TypeOK ==
    /\ health \in [HasCredentials -> Conditions]
    /\ pc \in {"step", "call", "done", "failed", "backoff", "poll"}
    /\ method \in Methods
    /\ at \in 1..Len(Targets)
    /\ attempt \in 0..MaxAttempt
    /\ delay \in 0..Ceiling
    /\ {policy, lastError, synced, caughtUp} \subseteq BOOLEAN
    /\ {started, now} \subseteq 0..MaxTime
    /\ initial \in 0..(MaxTime + Grain)
    /\ unread \subseteq {"policy", "initial"}
    /\ meta \in [policy : BOOLEAN, initial : 0..(MaxTime + Grain)]
    /\ faults \in 0..MaxFaults

\* "A bounded exponential backoff (1 s doubling to a 60 s ceiling)": the n-th
\* failure in a row is followed by the smaller of 2^(n-1) seconds and 60, and a
\* success starts over.
BackoffDoubles ==
    pc = "backoff" =>
        /\ attempt > 0
        /\ attempt < MaxAttempt =>
             LET doubled == Base * Pow2[attempt - 1]
             IN  delay = IF doubled < Ceiling THEN doubled ELSE Ceiling

\* The duration of the initial synchronisation, once stored, is not replaced:
\* neither by later catch-ups nor by those of later processes, whatever writes
\* failed.  The exceptions are a duration stored as 0.000, which counts as none,
\* and a process that could not read what was stored.
InitialSyncWrittenOnce ==
    [][meta.initial # 0 /\ "initial" \notin unread => meta'.initial = meta.initial]_vars

\* No block is asked for before the asset that fees are paid in is known, and a
\* policy asset that is stored is asked for again only by a process that failed
\* to read it when it started.
PolicyAssetFirst ==
    /\ method \in {"blockhash", "hashes", "blocks"} /\ pc \in {"call", "done"} => policy
    /\ pc = "call" /\ method = "policy" /\ meta.policy => "policy" \in unread

\* One node that answers is enough, if those before it in the order refuse at
\* worst: steps keep succeeding, whatever the nodes after it do.
OneNodeSuffices ==
    \A n \in HasCredentials :
        (<>[](/\ health[n] = "ok"
              /\ \A m \in HasCredentials : Before(m, n) => health[m] \in {"ok", "refuses"}))
        => []<>(pc = "done")

\* "Every call walks that order and fails over on transport or protocol
\* failure": one node that answers is enough if no node garbles, which is
\* neither.
FailsOver ==
    \A n \in HasCredentials :
        (<>[](health[n] = "ok" /\ \A m \in HasCredentials : health[m] # "garbles"))
        => []<>(pc = "done")

-------------------------------------------------------------------------------
(* The inductive invariant behind the safety properties.                      *)

\* The calls of a step are made in order: past the first one the policy asset is
\* known.
CallsInOrder == pc \in {"call", "done"} /\ method # "policy" => policy

\* A process knows what is stored, unless it failed to read it: it reads it when
\* it starts, and keeps it.
StoredIsKnown ==
    /\ meta.policy /\ "policy" \notin unread => policy
    /\ meta.initial # 0 /\ "initial" \notin unread => initial # 0

\* A process began in the past.
StartedBefore == started <= now

IInv ==
    /\ TypeOK
    /\ CallsInOrder
    /\ StoredIsKnown
    /\ StartedBefore
    /\ BackoffDoubles
    /\ PolicyAssetFirst
===============================================================================
