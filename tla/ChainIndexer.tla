----------------------------- MODULE ChainIndexer -----------------------------
(***************************************************************************)
(* The chain follower of the explorer (explorer/indexer.go), with the part *)
(* of the SQLite store it depends on for its position (explorer/store.go:  *)
(* the blocks table and the cursor kept in the meta table).                *)
(*                                                                         *)
(* One process loops over step().  A step is a sequence of RPC calls, each *)
(* answered by whichever configured node is reachable at that moment, so   *)
(* between two answers the chain may move, and two answers of one step may *)
(* come from nodes on different branches.  The node's answers of one       *)
(* getblockhash batch are not a snapshot either.  The process may be       *)
(* killed between any two steps; what SQLite committed survives.           *)
(*                                                                         *)
(* A block is an opaque value that stands for its hash: Height and Prev    *)
(* are the "height" and "previousblockhash" a node prints for that hash.   *)
(*                                                                         *)
(* Definitions whose name starts with Slip are wrong variants of the       *)
(* definition that follows them.  Nothing uses them: they are put in its   *)
(* place to make sure that the properties notice.                          *)
(***************************************************************************)
EXTENDS Integers, Sequences, FiniteSets

CONSTANTS
    Block,      \* every block of every branch
    NoBlock,    \* the empty hash: no block
    Height,     \* Height[b] \in Nat
    Prev,       \* Prev[b], NoBlock for a genesis block
    Node,       \* the nodes of the RPC pool
    Primary,    \* the rank-0 target: the one that answers while it is healthy
    BatchSize,  \* EXPLORER_BATCH_SIZE
    Branches,   \* the chains a node may be on, genesis first
    MaxFaults   \* bound: failed calls, failovers, wrong answers and crashes

ASSUME ConstantsAssumption ==
    /\ NoBlock \notin Block
    /\ Height \in [Block -> Nat]
    /\ Prev \in [Block -> Block \cup {NoBlock}]
    /\ \A b \in Block :
         IF Prev[b] = NoBlock THEN Height[b] = 0
                              ELSE Height[b] = Height[Prev[b]] + 1
    /\ Primary \in Node
    /\ BatchSize \in Nat \ {0}
    /\ MaxFaults \in Nat
    /\ \A s \in Branches :
         /\ s \in Seq(Block) /\ s # <<>>
         /\ Prev[s[1]] = NoBlock
         /\ \A i \in 2..Len(s) : Prev[s[i]] = s[i - 1]

VARIABLES
    chain,      \* chain[n]: the active chain of node n, genesis first
    rows,       \* the blocks table, a set of blocks (height is its key)
    cursor,     \* meta.indexed_height and meta.indexed_hash
    pc,         \* where step() is: the call it waits for, or the write it does
    info,       \* the getblockchaininfo answer of this step
    server,     \* the node that answers the running getblockhash batch
    hashes,     \* the getblockhash answers received so far
    batch,      \* the validated blocks about to be written
    status,     \* the IndexerStatus the API serves
    faults      \* faults so far (bounded by MaxFaults)

store == <<rows, cursor>>
locals == <<info, server, hashes, batch>>
vars == <<chain, store, pc, locals, status, faults>>

-------------------------------------------------------------------------------
(* Chains and cursors *)

TipHeight(s) == Len(s) - 1
BlockAt(s, h) == s[h + 1]

NoCursor == [height |-> -1, hash |-> NoBlock]
CursorOf(b) == [height |-> Height[b], hash |-> b]
Cursors == [height : Nat \cup {-1}, hash : Block \cup {NoBlock}]

\* SELECT height, hash FROM blocks ORDER BY height DESC LIMIT 1
Highest(r) == CHOOSE b \in r : \A c \in r : Height[c] <= Height[b]

SlipCursorAfterRollback(r) == IF r = {} THEN cursor ELSE CursorOf(Highest(r))
CursorAfterRollback(r) == IF r = {} THEN NoCursor ELSE CursorOf(Highest(r))

-------------------------------------------------------------------------------
(* Initial state: an empty database, nodes anywhere in the tree *)

\* update(): the tip last seen, the position last published, and whether they
\* are the same block.  Synchronized stays false until a tip is known.
SlipIsSynchronized(tip, c) == tip.height >= 0 /\ c.height = tip.height
IsSynchronized(tip, c) ==
    tip.height >= 0 /\ c.height = tip.height /\ c.hash = tip.hash
Statuses == [chain : Cursors, indexed : Cursors, synchronized : BOOLEAN]
StatusOf(tip, c) ==
    [chain |-> tip, indexed |-> c, synchronized |-> IsSynchronized(tip, c)]

\* newIndexer: the position comes from the store, the chain is not known yet.
FreshStatus(c) == StatusOf(NoCursor, c)

Init ==
    /\ chain \in [Node -> Branches]
    /\ rows = {}
    /\ cursor = NoCursor
    /\ pc = "chaininfo"
    /\ info = NoCursor
    /\ server = Primary
    /\ hashes = <<>>
    /\ batch = <<>>
    /\ status = FreshStatus(NoCursor)
    /\ faults = 0

-------------------------------------------------------------------------------
(* The nodes (external): a node leaves its chain only for a longer one *)

NodeAdvances(n) ==
    /\ \E s \in Branches :
         /\ Len(s) > Len(chain[n])
         /\ chain' = [chain EXCEPT ![n] = s]
    /\ UNCHANGED <<store, pc, locals, status, faults>>

-------------------------------------------------------------------------------
(* The RPC pool.  The primary is asked first.  Another node answers when the *)
(* primary is unreachable, which is a fault, or when the primary rejects the *)
(* request because its own chain ends below the height h asked for.         *)

InRange(n, h) == h <= TipHeight(chain[n])

Answers(n, h) ==
    IF n = Primary \/ ~InRange(Primary, h)
    THEN faults' = faults
    ELSE faults < MaxFaults /\ faults' = faults + 1

-------------------------------------------------------------------------------
(* step() *)

\* The range of the next batch.
From == cursor.height + 1
To == IF From + BatchSize - 1 > info.height THEN info.height ELSE From + BatchSize - 1

AtTip(i) == cursor.height = i.height /\ cursor.hash = i.hash

\* getblockchaininfo answered: publish the tip, then compare it with the cursor.
ChainInfo(n) ==
    /\ pc = "chaininfo"
    /\ Answers(n, 0)
    /\ LET tip == CursorOf(BlockAt(chain[n], TipHeight(chain[n]))) IN
         /\ info' = tip
         /\ status' = StatusOf(tip, status.indexed)
         /\ pc' = CASE AtTip(tip) -> "mempool"
                    [] ~AtTip(tip) /\ cursor.height >= 0 -> "blockhash"
                    [] OTHER -> "hashes"
    /\ UNCHANGED <<chain, store, server, hashes, batch>>

\* At the tip the step only refreshes the mempool table.
RefreshMempool(n) ==
    /\ pc = "mempool"
    /\ Answers(n, 0)
    /\ pc' = "chaininfo"
    /\ UNCHANGED <<chain, store, locals, status>>

\* Does the answer to getblockhash(min(cursor, tip)) orphan the cursor?
SlipOrphaned(canonical) == cursor.height <= info.height /\ canonical # cursor.hash
Orphaned(canonical) == cursor.height > info.height \/ canonical # cursor.hash

CheckHeight == IF cursor.height < info.height THEN cursor.height ELSE info.height

\* Continuity check.  A node whose chain is shorter answers with an error.
CheckCursor(n) ==
    /\ pc = "blockhash"
    /\ Answers(n, CheckHeight)
    /\ InRange(n, CheckHeight)
    /\ LET canonical == BlockAt(chain[n], CheckHeight)
       IN  pc' = CASE Orphaned(canonical) -> "rollback"
                   [] ~Orphaned(canonical) /\ To < From -> "chaininfo"
                   [] OTHER -> "hashes"
    /\ UNCHANGED <<chain, store, locals, status>>

\* One answer of the getblockhash batch; the whole batch comes from one node.
NextHash(b) ==
    /\ hashes' = Append(hashes, b)
    /\ pc' = IF Len(hashes') = To - From + 1 THEN "blocks" ELSE "hashes"
    /\ UNCHANGED <<chain, store, info, batch, status>>

FetchHash(n) ==
    /\ pc = "hashes"
    /\ IF hashes = <<>> THEN Answers(n, To) ELSE n = server /\ faults' = faults
    /\ server' = n
    /\ InRange(n, From + Len(hashes))
    /\ NextHash(BlockAt(chain[n], From + Len(hashes)))

\* A faulty node answers with the hash of some other block.
FetchWrongHash(n) ==
    /\ pc = "hashes"
    /\ faults < MaxFaults
    /\ faults' = faults + 1
    /\ hashes = <<>> \/ n = server
    /\ server' = n
    /\ \E b \in Block : NextHash(b)

\* The node asked has no block at that height (the tip came from a taller one)
\* and no other node helps: the call fails without any fault.
OutOfRange ==
    /\ \/ pc = "blockhash" /\ ~InRange(Primary, CheckHeight)
       \/ pc = "hashes" /\ hashes = <<>> /\ ~InRange(Primary, To)
       \/ pc = "hashes" /\ hashes # <<>> /\ ~InRange(server, To)
    /\ pc' = "chaininfo"
    /\ hashes' = <<>>
    /\ UNCHANGED <<chain, store, info, server, batch, status, faults>>

\* Validation of the fetched blocks, in the order of the loop.
HeightOk(i) == Height[hashes[i]] = From + i - 1
Expected(i) == IF i = 1 THEN cursor.hash ELSE hashes[i - 1]
SlipFollows(i) == i = 1 /\ From > 0 => Prev[hashes[1]] = cursor.hash
Follows(i) ==
    (From + i - 1 > 0 /\ Expected(i) # NoBlock) => Prev[hashes[i]] = Expected(i)
SlipGoodUpTo(k) == k > 0 => HeightOk(1) /\ Follows(1)
GoodUpTo(k) == \A i \in 1..k : HeightOk(i) /\ Follows(i)

\* The longest linked prefix is kept: all of it, or up to a broken link.
AcceptBlocks ==
    /\ pc = "blocks"
    /\ \E k \in 1..Len(hashes) :
         /\ GoodUpTo(k)
         /\ k < Len(hashes) => HeightOk(k + 1) /\ ~Follows(k + 1)
         /\ batch' = SubSeq(hashes, 1, k)
    /\ pc' = "apply"
    /\ hashes' = <<>>
    /\ UNCHANGED <<chain, store, info, server, status, faults>>

\* The first block does not build on the cursor: the branch changed.
RejectFirst ==
    /\ pc = "blocks"
    /\ HeightOk(1) /\ ~Follows(1)
    /\ pc' = "rollback"
    /\ hashes' = <<>>
    /\ UNCHANGED <<chain, store, info, server, batch, status, faults>>

\* "node returned a block at an unexpected height": the step ends in an error.
RejectHeight ==
    /\ pc = "blocks"
    /\ \E k \in 0..(Len(hashes) - 1) : GoodUpTo(k) /\ ~HeightOk(k + 1)
    /\ pc' = "chaininfo"
    /\ hashes' = <<>>
    /\ UNCHANGED <<chain, store, info, server, batch, status, faults>>

-------------------------------------------------------------------------------
(* The writes: each one is a single SQLite transaction *)

BatchRange == { batch[i] : i \in 1..Len(batch) }

\* No row of the batch meets an existing key (height is the primary key, hash
\* is unique) or another row of the batch.
Insertable ==
    /\ \A b \in BatchRange, r \in rows : Height[b] # Height[r] /\ b # r
    /\ \A i, j \in 1..Len(batch) : i # j => Height[batch[i]] # Height[batch[j]]

ApplyBlocks ==
    /\ pc = "apply"
    /\ Insertable
    /\ rows' = rows \cup BatchRange
    /\ cursor' = CursorOf(batch[Len(batch)])
    /\ pc' = "written"
    /\ batch' = <<>>
    /\ UNCHANGED <<chain, info, server, hashes, status, faults>>

\* DELETE FROM blocks WHERE height = ?
SlipWithout(h) == { b \in rows : Height[b] < h - 1 }
Without(h) == { b \in rows : Height[b] # h }

RollbackBlock ==
    /\ pc = "rollback"
    /\ rows' = Without(cursor.height)
    /\ cursor' = CursorAfterRollback(rows')
    /\ pc' = "written"
    /\ UNCHANGED <<chain, locals, status, faults>>

\* What the step reports after its commit: the cursor it has just stored.
SlipPublished == [cursor EXCEPT !.height = @ - 1]
Published == cursor

\* After the commit, and in a step of its own: the API may read in between.
PublishCursor ==
    /\ pc = "written"
    /\ status' = StatusOf(status.chain, Published)
    /\ pc' = "chaininfo"
    /\ UNCHANGED <<chain, store, locals, faults>>

-------------------------------------------------------------------------------
(* Failures *)

\* A call failed on every node, or the transaction was rolled back: Run()
\* waits and starts a new step.
StepFails ==
    /\ pc \notin {"written"}
    /\ faults < MaxFaults
    /\ faults' = faults + 1
    /\ pc' = "chaininfo"
    /\ hashes' = <<>>
    /\ batch' = <<>>
    /\ UNCHANGED <<chain, store, info, server, status>>

\* The process dies anywhere and comes back with what was committed.  newIndexer
\* ignores a cursor it cannot read, and then reports an empty index until the
\* index next changes.
CrashRestart ==
    /\ faults < MaxFaults
    /\ faults' = faults + 1
    /\ pc' = "chaininfo"
    /\ info' = NoCursor
    /\ server' = Primary
    /\ hashes' = <<>>
    /\ batch' = <<>>
    /\ \E shown \in {cursor, NoCursor} : status' = FreshStatus(shown)
    /\ UNCHANGED <<chain, store>>

-------------------------------------------------------------------------------
Step ==
    \/ \E n \in Node :
         ChainInfo(n) \/ RefreshMempool(n) \/ CheckCursor(n) \/ FetchHash(n)
    \/ OutOfRange \/ AcceptBlocks \/ RejectFirst \/ RejectHeight
    \/ ApplyBlocks \/ RollbackBlock \/ PublishCursor

Fault == StepFails \/ CrashRestart \/ \E n \in Node : FetchWrongHash(n)

Next == Step \/ Fault \/ \E n \in Node : NodeAdvances(n)

Spec == Init /\ [][Next]_vars

\* Run() is a loop: while a step of the indexer is possible, one is taken.
FairSpec == Spec /\ WF_vars(Step)
-------------------------------------------------------------------------------
(* Properties *)

TypeOK ==
    /\ chain \in [Node -> Branches]
    /\ rows \in SUBSET Block
    /\ cursor \in Cursors
    /\ pc \in {"chaininfo", "mempool", "blockhash", "hashes", "blocks", "apply",
               "rollback", "written"}
    /\ info \in Cursors
    /\ server \in Node
    /\ hashes \in Seq(Block)
    /\ batch \in Seq(Block)
    /\ status \in Statuses
    /\ faults \in 0..MaxFaults

\* The blocks table is one branch: at most one block per height, and every
\* block's parent is there too, down to a genesis block.  (applyBlocks checks
\* nothing itself; this rests on step()'s validation across several answers.)
IndexIsOneBranch ==
    /\ \A a, b \in rows : Height[a] = Height[b] => a = b
    /\ \A b \in rows : Prev[b] # NoBlock => Prev[b] \in rows

\* The cursor names the top of that branch, or nothing when it is empty.  A
\* crash between two writes never separates them.
CursorIsTop ==
    IF rows = {}
    THEN cursor = NoCursor
    ELSE /\ cursor.hash \in rows
         /\ cursor.height = Height[cursor.hash]
         /\ \A b \in rows : Height[b] <= cursor.height

\* A validated batch can always be inserted: the writer never meets a primary
\* key or UNIQUE conflict, which Run() would retry for ever.
BatchInsertable == pc = "apply" => Insertable

\* The status never claims "synchronized" unless the top of the index is the
\* tip it reports, not even between a commit and the status update after it.
SynchronizedIsTrue ==
    status.synchronized =>
        /\ cursor = status.chain
        /\ cursor.hash \in rows

\* The index changes only as IndexAbs says: it grows by a linked run of at most
\* BatchSize blocks or drops its top block.
Abs == INSTANCE IndexAbs WITH top <- cursor.hash
AbsSpec == Abs!Spec

\* Once nodes stop failing, the index ends up at the primary's tip and stays
\* there: no cycle of rollbacks, errors and refetches is endless.  It reports so,
\* unless the last process could not read the cursor when it started and the
\* index has not changed since.
CatchesUp ==
    <>[](/\ cursor.hash = chain[Primary][Len(chain[Primary])]
         /\ status.synchronized \/ status.indexed = NoCursor)

-------------------------------------------------------------------------------
(* The inductive invariant behind the safety properties: what each phase of a *)
(* step may rely on although the chain moved since the phase before it.       *)

\* The cursor was found orphaned, or is being checked: there is one.
PhaseOK == pc \in {"blockhash", "rollback"} => rows # {}

\* A batch of hashes stays within the range that was asked for.
HashesOK ==
    /\ pc \notin {"hashes", "blocks"} => hashes = <<>>
    /\ pc = "hashes" => Len(hashes) <= To - From
    /\ pc = "blocks" => Len(hashes) \in 1..BatchSize

\* A validated batch is a run of blocks on top of the cursor.
BatchOK ==
    pc = "apply" =>
        /\ Len(batch) \in 1..BatchSize
        /\ \A i \in 1..Len(batch) :
             /\ Height[batch[i]] = cursor.height + i
             /\ Prev[batch[i]] = IF i = 1 THEN cursor.hash ELSE batch[i - 1]

\* The status lags the cursor only between a commit and PublishCursor, or shows
\* none, and a step that goes past the tip comparison has already withdrawn
\* "synchronized".
StatusOK ==
    /\ pc # "written" => status.indexed \in {cursor, NoCursor}
    /\ status.synchronized =>
          /\ pc \in {"chaininfo", "mempool"}
          /\ status.chain.height >= 0
          /\ status.indexed = status.chain

IInv ==
    /\ TypeOK
    /\ IndexIsOneBranch
    /\ CursorIsTop
    /\ PhaseOK
    /\ HashesOK
    /\ BatchOK
    /\ StatusOK
===============================================================================
