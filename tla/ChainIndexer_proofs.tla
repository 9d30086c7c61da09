-------------------------- MODULE ChainIndexer_proofs --------------------------
(***************************************************************************)
(* Proofs about ChainIndexer, for every block tree, every set of nodes and *)
(* every batch size.                                                       *)
(***************************************************************************)
EXTENDS ChainIndexer, TLAPS

\* The consequences of the assumption on the block tree that the proofs cite.
LEMMA TreeFacts ==
    /\ NoBlock \notin Block
    /\ \A b \in Block : Height[b] \in Nat
    /\ \A b \in Block : Prev[b] \in Block \cup {NoBlock}
    /\ \A b \in Block : Prev[b] = NoBlock => Height[b] = 0
    /\ \A b \in Block : Prev[b] # NoBlock => Height[b] = Height[Prev[b]] + 1
  BY ConstantsAssumption

\* A batch may hold at least one block.
LEMMA BatchSizePositive == BatchSize \in Nat \ {0}
  BY ConstantsAssumption

\* Every entry of a node's chain is a block.
LEMMA BranchFacts ==
    ASSUME NEW s \in Branches
    PROVE  /\ s \in Seq(Block)
           /\ Len(s) \in Nat \ {0}
           /\ TipHeight(s) \in Nat
           /\ \A h \in 0..TipHeight(s) : BlockAt(s, h) \in Block
  <1>1. s \in Seq(Block) /\ s # <<>>
    BY ConstantsAssumption
  <1>2. Len(s) \in Nat \ {0}
    BY <1>1
  <1>3. \A h \in 0..TipHeight(s) : BlockAt(s, h) \in Block
    BY <1>1, <1>2 DEF TipHeight, BlockAt
  <1> QED
    BY <1>1, <1>2, <1>3 DEF TipHeight

\* SELECT ... ORDER BY height DESC LIMIT 1 finds the only row of greatest height.
LEMMA HighestFact ==
    ASSUME NEW r \in SUBSET Block, NEW t \in r,
           \A b \in r : Height[b] <= Height[t],
           \A a, b \in r : Height[a] = Height[b] => a = b
    PROVE  Highest(r) = t
  <1>1. \E b \in r : \A c \in r : Height[c] <= Height[b]
    OBVIOUS
  <1>2. Highest(r) \in r /\ \A c \in r : Height[c] <= Height[Highest(r)]
    BY <1>1 DEF Highest
  <1>3. Height[t] <= Height[Highest(r)] /\ Height[Highest(r)] <= Height[t]
    BY <1>2
  <1>4. Height[t] \in Nat /\ Height[Highest(r)] \in Nat
    BY <1>2, TreeFacts
  <1> QED
    BY <1>2, <1>3, <1>4

\* The status that update() leaves behind.
LEMMA StatusFacts ==
    ASSUME NEW tip \in Cursors, NEW c \in Cursors
    PROVE  /\ StatusOf(tip, c) \in Statuses
           /\ StatusOf(tip, c).chain = tip
           /\ StatusOf(tip, c).indexed = c
           /\ StatusOf(tip, c).synchronized => tip.height >= 0 /\ c = tip
           /\ tip.height >= 0 /\ c = tip => StatusOf(tip, c).synchronized
  <1>1. IsSynchronized(tip, c) \in BOOLEAN
    BY DEF IsSynchronized
  <1>2. StatusOf(tip, c) \in Statuses
    BY <1>1, Zenon DEF StatusOf, Statuses
  <1>3. /\ StatusOf(tip, c).chain = tip
        /\ StatusOf(tip, c).indexed = c
        /\ StatusOf(tip, c).synchronized = IsSynchronized(tip, c)
    BY Zenon DEF StatusOf
  <1>4. c.height = tip.height /\ c.hash = tip.hash => c = tip
    BY DEF Cursors
  <1>5. IsSynchronized(tip, c) <=> tip.height >= 0 /\ c = tip
    BY <1>4 DEF IsSynchronized
  <1> QED
    BY <1>2, <1>3, <1>5, Zenon

-------------------------------------------------------------------------------
(* The inductive invariant holds initially *)

LEMMA InitIInv == Init => IInv
  <1> SUFFICES ASSUME Init PROVE IInv
    OBVIOUS
  <1>1. NoCursor \in Cursors /\ NoCursor.height = -1 /\ NoCursor.hash = NoBlock
    BY DEF NoCursor, Cursors
  <1>2. /\ status \in Statuses /\ status.indexed = NoCursor
        /\ ~status.synchronized
    BY <1>1, StatusFacts DEF Init, FreshStatus
  <1>3. TypeOK
    BY <1>1, <1>2, ConstantsAssumption DEF Init, TypeOK
  <1>4. IndexIsOneBranch /\ CursorIsTop
    BY DEF Init, IndexIsOneBranch, CursorIsTop
  <1>5. PhaseOK /\ HashesOK /\ BatchOK
    BY DEF Init, PhaseOK, HashesOK, BatchOK
  <1>6. StatusOK
    BY <1>2 DEF Init, StatusOK
  <1> QED
    BY <1>3, <1>4, <1>5, <1>6 DEF IInv

-------------------------------------------------------------------------------
(* Every action preserves it *)

\* The cursor is empty exactly when the table is.
LEMMA CursorFacts ==
    ASSUME IInv
    PROVE  /\ cursor.height \in Nat \cup {-1}
           /\ cursor.hash \in Block \cup {NoBlock}
           /\ rows = {} <=> cursor.hash = NoBlock
           /\ rows = {} <=> cursor.height = -1
           /\ cursor = [height |-> cursor.height, hash |-> cursor.hash]
           /\ From \in Nat
  BY TreeFacts DEF IInv, TypeOK, Cursors, CursorIsTop, NoCursor, From

\* The range of a batch is a range of integers.
LEMMA RangeFacts ==
    ASSUME IInv
    PROVE  To \in Int /\ From \in Int
  <1>1. From \in Int
    BY CursorFacts
  <1>2. info.height \in Int
    BY DEF IInv, TypeOK, Cursors
  <1>3. BatchSize \in Int
    BY BatchSizePositive
  <1> QED
    BY <1>1, <1>2, <1>3 DEF To

\* Steps that write neither the store nor the batch keep what the invariant
\* says of the store.
LEMMA StoreUnchanged ==
    ASSUME IInv, UNCHANGED store
    PROVE  IndexIsOneBranch' /\ CursorIsTop'
  BY DEF IInv, store, IndexIsOneBranch, CursorIsTop

LEMMA AnswersType ==
    ASSUME TypeOK, NEW n, NEW h, Answers(n, h)
    PROVE  faults' \in 0..MaxFaults
  BY ConstantsAssumption DEF TypeOK, Answers

LEMMA ChainInfoStep ==
    ASSUME IInv, NEW n \in Node, ChainInfo(n)
    PROVE  IInv'
  <1> DEFINE tip == CursorOf(BlockAt(chain[n], TipHeight(chain[n])))
  <1>1. chain[n] \in Branches
    BY DEF IInv, TypeOK
  <1>2. BlockAt(chain[n], TipHeight(chain[n])) \in Block
    BY <1>1, BranchFacts
  <1>3. /\ tip \in Cursors /\ tip.height \in Nat /\ tip.hash \in Block
        /\ tip = [height |-> tip.height, hash |-> tip.hash]
    BY <1>2, TreeFacts DEF CursorOf, Cursors
  <1> HIDE DEF tip
  <1>4. /\ info' = tip /\ status' = StatusOf(tip, status.indexed)
        /\ pc' = CASE AtTip(tip) -> "mempool"
                   [] ~AtTip(tip) /\ cursor.height >= 0 -> "blockhash"
                   [] OTHER -> "hashes"
        /\ UNCHANGED <<chain, store, server, hashes, batch>>
        /\ pc = "chaininfo" /\ Answers(n, 0)
    BY DEF ChainInfo, tip
  <1>5. \/ pc' = "mempool" /\ AtTip(tip)
        \/ pc' = "blockhash" /\ ~AtTip(tip) /\ cursor.height >= 0
        \/ pc' = "hashes" /\ ~AtTip(tip) /\ cursor.height = -1
    BY <1>4, CursorFacts
  <1>6. status.indexed \in {cursor, NoCursor} /\ status.indexed \in Cursors
    BY <1>4, CursorFacts DEF IInv, StatusOK, TypeOK, Statuses
  <1>7. AtTip(tip) <=> cursor = tip
    BY <1>3, CursorFacts DEF AtTip
  <1>8. /\ status'.chain = tip /\ status'.indexed \in {cursor, NoCursor}
        /\ status'.synchronized => status'.indexed = tip /\ cursor = tip
        /\ status' \in Statuses
    <2>1. NoCursor.height = -1
      BY DEF NoCursor
    <2> QED
      BY <2>1, <1>3, <1>4, <1>6, StatusFacts
  <1>9. TypeOK'
    BY <1>3, <1>4, <1>5, <1>8, AnswersType DEF IInv, TypeOK, store
  <1>10. IndexIsOneBranch' /\ CursorIsTop'
    BY <1>4, StoreUnchanged
  <1>11. PhaseOK' /\ BatchOK'
    BY <1>4, <1>5, CursorFacts DEF PhaseOK, BatchOK, store
  <1>12. HashesOK'
    <2>1. hashes' = <<>>
      BY <1>4 DEF IInv, HashesOK
    <2>2. pc' = "hashes" => 0 <= (To - From)'
      BY <1>3, <1>4, <1>5, BatchSizePositive DEF To, From, store
    <2> QED
      BY <1>5, <2>1, <2>2 DEF HashesOK
  <1>13. StatusOK'
    BY <1>3, <1>4, <1>5, <1>7, <1>8 DEF StatusOK, store
  <1> QED
    BY <1>9, <1>10, <1>11, <1>12, <1>13 DEF IInv

\* Steps that only move the program counter within a step, or end it, leaving
\* the store, the batch and the status as they are.
LEMMA QuietStep ==
    ASSUME IInv, UNCHANGED <<chain, store, info, status>>,
           pc # "written",
           pc' \in {"chaininfo", "blockhash", "hashes", "blocks", "rollback"},
           server' \in Node, hashes' \in Seq(Block), batch' \in Seq(Block),
           faults' \in 0..MaxFaults,
           pc' # "chaininfo" => pc \notin {"chaininfo", "mempool"},
           PhaseOK', HashesOK'
    PROVE  IInv'
  <1>1. TypeOK'
    BY DEF IInv, TypeOK, store
  <1>2. IndexIsOneBranch' /\ CursorIsTop'
    BY StoreUnchanged
  <1>3. BatchOK'
    BY DEF BatchOK
  <1>4. StatusOK'
    BY DEF IInv, StatusOK, store
  <1> QED
    BY <1>1, <1>2, <1>3, <1>4 DEF IInv

LEMMA RefreshMempoolStep ==
    ASSUME IInv, NEW n \in Node, RefreshMempool(n)
    PROVE  IInv'
  <1>1. /\ pc = "mempool" /\ pc' = "chaininfo" /\ Answers(n, 0)
        /\ UNCHANGED <<chain, store, info, server, hashes, batch, status>>
    BY DEF RefreshMempool, locals
  <1>2. PhaseOK' /\ HashesOK'
    BY <1>1 DEF IInv, PhaseOK, HashesOK
  <1> QED
    BY <1>1, <1>2, QuietStep, AnswersType DEF IInv, TypeOK

LEMMA CheckCursorStep ==
    ASSUME IInv, NEW n \in Node, CheckCursor(n)
    PROVE  IInv'
  <1>1. /\ pc = "blockhash" /\ Answers(n, CheckHeight)
        /\ UNCHANGED <<chain, store, info, server, hashes, batch, status>>
    BY DEF CheckCursor, locals
  <1>2. \/ pc' = "rollback"
        \/ pc' = "chaininfo"
        \/ pc' = "hashes" /\ ~(To < From)
    BY DEF CheckCursor
  <1>3. PhaseOK'
    BY <1>1, <1>2 DEF IInv, PhaseOK, store
  <1>4. HashesOK'
    <2>1. hashes' = <<>>
      BY <1>1 DEF IInv, HashesOK
    <2>2. To \in Int /\ From \in Int
      BY RangeFacts
    <2>3. To' = To /\ From' = From
      BY <1>1 DEF To, From, store
    <2> QED
      BY <1>2, <2>1, <2>2, <2>3 DEF HashesOK
  <1> QED
    BY <1>1, <1>2, <1>3, <1>4, QuietStep, AnswersType DEF IInv, TypeOK

LEMMA NextHashStep ==
    ASSUME IInv, pc = "hashes", NEW b \in Block, NextHash(b),
           server' \in Node, faults' \in 0..MaxFaults
    PROVE  IInv'
  <1>1. /\ hashes' = Append(hashes, b)
        /\ UNCHANGED <<chain, store, info, batch, status>>
        /\ pc' = IF Len(hashes') = To - From + 1 THEN "blocks" ELSE "hashes"
    BY DEF NextHash
  <1>2. hashes \in Seq(Block) /\ hashes' \in Seq(Block) /\ Len(hashes') = Len(hashes) + 1
    BY <1>1 DEF IInv, TypeOK
  <1>3. To \in Int /\ From \in Int /\ To' = To /\ From' = From /\ To - From < BatchSize
    <2>1. cursor' = cursor /\ info' = info
      BY <1>1 DEF store
    <2>2. info.height \in Int /\ From \in Int
      BY CursorFacts DEF IInv, TypeOK, Cursors
    <2>3. To' = To /\ From' = From
      BY <2>1 DEF To, From
    <2> QED
      BY <2>2, <2>3, BatchSizePositive DEF To
  <1>4. Len(hashes) <= To - From /\ Len(hashes) \in Nat
    BY <1>2 DEF IInv, HashesOK
  <1>5. HashesOK'
    BY <1>1, <1>2, <1>3, <1>4, BatchSizePositive DEF HashesOK
  <1>6. PhaseOK'
    BY <1>1 DEF PhaseOK
  <1>7. batch' \in Seq(Block)
    BY <1>1 DEF IInv, TypeOK
  <1> QED
    BY <1>1, <1>2, <1>5, <1>6, <1>7, QuietStep

LEMMA FetchHashStep ==
    ASSUME IInv, NEW n \in Node, FetchHash(n)
    PROVE  IInv'
  <1>1. faults' \in 0..MaxFaults
    BY AnswersType DEF FetchHash, IInv, TypeOK
  <1>2. BlockAt(chain[n], From + Len(hashes)) \in Block
    <2>1. chain[n] \in Branches /\ Len(hashes) \in Nat
      BY DEF IInv, TypeOK
    <2>2. From + Len(hashes) \in 0..TipHeight(chain[n])
      BY <2>1, CursorFacts, BranchFacts DEF FetchHash, InRange
    <2> QED
      BY <2>1, <2>2, BranchFacts
  <1> QED
    BY <1>1, <1>2, NextHashStep DEF FetchHash

LEMMA FetchWrongHashStep ==
    ASSUME IInv, NEW n \in Node, FetchWrongHash(n)
    PROVE  IInv'
  <1>1. faults' \in 0..MaxFaults
    BY ConstantsAssumption DEF FetchWrongHash, IInv, TypeOK
  <1> QED
    BY <1>1, NextHashStep DEF FetchWrongHash

LEMMA StepEnds ==
    ASSUME IInv, OutOfRange \/ RejectHeight \/ StepFails
    PROVE  IInv'
  <1>1. /\ pc # "written" /\ pc' = "chaininfo" /\ hashes' = <<>>
        /\ UNCHANGED <<chain, store, info, server, status>>
        /\ batch' \in {batch, <<>>}
    BY DEF OutOfRange, RejectHeight, StepFails
  <1>0. faults' \in 0..MaxFaults
    <2>1. faults \in 0..MaxFaults /\ MaxFaults \in Nat
      BY ConstantsAssumption DEF IInv, TypeOK
    <2>2. faults' = faults \/ (faults < MaxFaults /\ faults' = faults + 1)
      BY DEF OutOfRange, RejectHeight, StepFails
    <2> QED
      BY <2>1, <2>2
  <1>2. PhaseOK' /\ HashesOK'
    BY <1>1 DEF PhaseOK, HashesOK
  <1>3. batch' \in Seq(Block) /\ hashes' \in Seq(Block) /\ server' \in Node
    <2>1. batch \in Seq(Block) /\ <<>> \in Seq(Block) /\ server \in Node
      BY DEF IInv, TypeOK
    <2> QED
      BY <1>1, <2>1
  <1> QED
    BY <1>0, <1>1, <1>2, <1>3, QuietStep

LEMMA RejectFirstStep ==
    ASSUME IInv, RejectFirst
    PROVE  IInv'
  <1>1. /\ pc = "blocks" /\ pc' = "rollback" /\ hashes' = <<>> /\ ~Follows(1)
        /\ UNCHANGED <<chain, store, info, server, batch, status, faults>>
    BY DEF RejectFirst
  <1>2. rows # {}
    BY <1>1, CursorFacts DEF Follows, Expected
  <1>3. PhaseOK' /\ HashesOK'
    BY <1>1, <1>2 DEF PhaseOK, HashesOK, store
  <1>4. server' \in Node /\ batch' \in Seq(Block) /\ hashes' \in Seq(Block)
        /\ faults' \in 0..MaxFaults
    BY <1>1 DEF IInv, TypeOK
  <1> QED
    BY <1>1, <1>3, <1>4, QuietStep

\* Validation: a block at height cursor + i whose predecessor is the previous
\* block of the batch, or the cursor.
LEMMA AcceptBlocksStep ==
    ASSUME IInv, AcceptBlocks
    PROVE  IInv'
  <1>1. PICK k \in 1..Len(hashes) :
          GoodUpTo(k) /\ batch' = SubSeq(hashes, 1, k)
    BY DEF AcceptBlocks
  <1>2. /\ pc = "blocks" /\ pc' = "apply" /\ hashes' = <<>>
        /\ UNCHANGED <<chain, store, info, server, status, faults>>
    BY DEF AcceptBlocks
  <1>3. hashes \in Seq(Block) /\ Len(hashes) \in 1..BatchSize
    BY <1>2 DEF IInv, TypeOK, HashesOK
  <1>4. /\ batch' \in Seq(Block) /\ Len(batch') = k
        /\ \A i \in 1..k : batch'[i] = hashes[i]
    BY <1>1, <1>3
  <1>5. ASSUME NEW i \in 1..k
        PROVE  /\ Height[hashes[i]] = cursor.height + i
               /\ Prev[hashes[i]] = IF i = 1 THEN cursor.hash ELSE hashes[i - 1]
    <2>1. HeightOk(i) /\ Follows(i)
      BY <1>1 DEF GoodUpTo
    <2>2. Height[hashes[i]] = cursor.height + i
      BY <2>1, CursorFacts, <1>1 DEF HeightOk, From
    <2>3. hashes[i] \in Block
      BY <1>1, <1>3
    <2>4. CASE i = 1 /\ cursor.hash = NoBlock
      BY <2>2, <2>3, <2>4, CursorFacts, TreeFacts
    <2>5. CASE i = 1 /\ cursor.hash # NoBlock
      BY <2>1, <2>2, <2>5, CursorFacts DEF Follows, Expected, From
    <2>6. CASE i # 1
      <3>1. hashes[i - 1] \in Block
        BY <2>6, <1>1, <1>3
      <3>2. From + i - 1 > 0
        BY <2>6, CursorFacts, <1>1
      <3>3. Expected(i) = hashes[i - 1] /\ Expected(i) # NoBlock
        BY <2>6, <3>1, TreeFacts DEF Expected
      <3>4. Prev[hashes[i]] = Expected(i)
        BY <2>1, <3>2, <3>3 DEF Follows
      <3> QED
        BY <2>2, <2>6, <3>3, <3>4
    <2> QED
      BY <2>2, <2>4, <2>5, <2>6
  <1>6. BatchOK'
    <2>1. Len(batch') \in 1..BatchSize
      BY <1>1, <1>3, <1>4, BatchSizePositive
    <2>2. cursor' = cursor
      BY <1>2 DEF store
    <2>3. \A i \in 1..Len(batch') :
             /\ Height[batch'[i]] = cursor.height + i
             /\ Prev[batch'[i]] = IF i = 1 THEN cursor.hash ELSE batch'[i - 1]
      BY <1>1, <1>4, <1>5
    <2> QED
      BY <2>1, <2>2, <2>3 DEF BatchOK
  <1>7. TypeOK'
    BY <1>2, <1>4 DEF IInv, TypeOK, store
  <1>8. IndexIsOneBranch' /\ CursorIsTop'
    BY <1>2, StoreUnchanged
  <1>9. PhaseOK' /\ HashesOK'
    BY <1>2 DEF PhaseOK, HashesOK
  <1>10. StatusOK'
    BY <1>2 DEF IInv, StatusOK, store
  <1> QED
    BY <1>6, <1>7, <1>8, <1>9, <1>10 DEF IInv

\* A run of blocks on top of the cursor meets no key of the table.
LEMMA BatchFacts ==
    ASSUME IInv, pc = "apply"
    PROVE  /\ Insertable
           /\ batch[Len(batch)] \in Block
           /\ Height[batch[Len(batch)]] = cursor.height + Len(batch)
           /\ \A i \in 1..Len(batch) : batch[i] \in Block
  <1>1. /\ batch \in Seq(Block) /\ Len(batch) \in 1..BatchSize
        /\ \A i \in 1..Len(batch) : Height[batch[i]] = cursor.height + i
    BY DEF IInv, TypeOK, BatchOK
  <1>2. \A i \in 1..Len(batch) : batch[i] \in Block
    BY <1>1
  <1>3. \A r \in rows : Height[r] <= cursor.height /\ Height[r] \in Nat
    BY TreeFacts DEF IInv, TypeOK, CursorIsTop
  <1>4. cursor.height \in Int
    BY CursorFacts
  <1>5. ASSUME NEW i \in 1..Len(batch), NEW r \in rows
        PROVE  Height[batch[i]] # Height[r]
    <2>1. Height[batch[i]] = cursor.height + i
      BY <1>1
    <2>2. Height[r] <= cursor.height /\ Height[r] \in Nat
      BY <1>3
    <2> QED
      BY <1>4, <2>1, <2>2
  <1>6. ASSUME NEW i \in 1..Len(batch), NEW j \in 1..Len(batch), i # j
        PROVE  Height[batch[i]] # Height[batch[j]]
    BY <1>1, <1>4, <1>6
  <1>7. \A b \in BatchRange, r \in rows : Height[b] # Height[r] /\ b # r
    BY <1>5 DEF BatchRange
  <1>8. Insertable
    BY <1>6, <1>7 DEF Insertable
  <1> QED
    BY <1>1, <1>2, <1>8, BatchSizePositive

LEMMA ApplyBlocksStep ==
    ASSUME IInv, ApplyBlocks
    PROVE  IInv'
  <1>1. /\ pc = "apply" /\ pc' = "written" /\ batch' = <<>>
        /\ rows' = rows \cup BatchRange
        /\ cursor' = CursorOf(batch[Len(batch)])
        /\ UNCHANGED <<chain, info, server, hashes, status, faults>>
    BY DEF ApplyBlocks
  <1>2. /\ batch \in Seq(Block) /\ Len(batch) \in Nat \ {0}
        /\ \A i \in 1..Len(batch) :
             /\ batch[i] \in Block
             /\ Height[batch[i]] = cursor.height + i
             /\ Prev[batch[i]] = IF i = 1 THEN cursor.hash ELSE batch[i - 1]
    <2>1. batch \in Seq(Block) /\ Len(batch) \in 1..BatchSize
      BY <1>1 DEF IInv, TypeOK, BatchOK
    <2>2. \A i \in 1..Len(batch) :
             /\ Height[batch[i]] = cursor.height + i
             /\ Prev[batch[i]] = IF i = 1 THEN cursor.hash ELSE batch[i - 1]
      BY <1>1 DEF IInv, BatchOK
    <2>3. \A i \in 1..Len(batch) : batch[i] \in Block
      BY <2>1
    <2>4. Len(batch) \in Nat \ {0}
      BY <2>1, BatchSizePositive
    <2> QED
      BY <2>1, <2>2, <2>3, <2>4
  <1>3. /\ \A r \in rows : Height[r] <= cursor.height /\ Height[r] \in Nat /\ r \in Block
        /\ cursor.hash # NoBlock => cursor.hash \in rows
    BY TreeFacts, CursorFacts DEF IInv, TypeOK, CursorIsTop
  <1>4. /\ cursor'.hash = batch[Len(batch)]
        /\ cursor'.height = cursor.height + Len(batch)
        /\ cursor'.height = Height[cursor'.hash]
        /\ cursor' \in Cursors
    BY <1>1, BatchFacts, TreeFacts DEF CursorOf, Cursors
  <1>5. \A b \in BatchRange : \E i \in 1..Len(batch) :
           b = batch[i] /\ Height[b] = cursor.height + i
    BY <1>2 DEF BatchRange
  <1>6. TypeOK'
    <2>1. rows' \in SUBSET Block
      BY <1>1, <1>2, <1>3 DEF BatchRange
    <2> QED
      BY <1>1, <1>4, <2>1 DEF IInv, TypeOK
  <1>7. IndexIsOneBranch'
    <2>1. ASSUME NEW a \in rows', NEW b \in rows', Height[a] = Height[b]
          PROVE  a = b
      <3>1. CASE a \in rows /\ b \in rows
        BY <2>1, <3>1 DEF IInv, IndexIsOneBranch
      <3>2. CASE a \in BatchRange /\ b \in BatchRange
        BY <2>1, <3>2, <1>5, CursorFacts
      <3>3. CASE a \in rows /\ b \in BatchRange
        BY <2>1, <3>3, <1>3, <1>5, CursorFacts
      <3>4. CASE a \in BatchRange /\ b \in rows
        BY <2>1, <3>4, <1>3, <1>5, CursorFacts
      <3> QED
        BY <1>1, <3>1, <3>2, <3>3, <3>4
    <2>2. ASSUME NEW b \in rows', Prev[b] # NoBlock
          PROVE  Prev[b] \in rows'
      <3>1. CASE b \in rows
        BY <1>1, <2>2, <3>1 DEF IInv, IndexIsOneBranch
      <3>2. CASE b \in BatchRange
        <4>1. PICK i \in 1..Len(batch) : b = batch[i]
          BY <3>2 DEF BatchRange
        <4>2. CASE i = 1
          BY <1>1, <1>2, <1>3, <2>2, <4>1, <4>2
        <4>3. CASE i # 1
          <5>1. i - 1 \in 1..Len(batch) /\ Prev[b] = batch[i - 1]
            BY <1>2, <4>1, <4>3
          <5> QED
            BY <1>1, <5>1 DEF BatchRange
        <4> QED
          BY <4>2, <4>3
      <3> QED
        BY <1>1, <3>1, <3>2
    <2> QED
      BY <2>1, <2>2 DEF IndexIsOneBranch
  <1>8. CursorIsTop'
    <2>1. cursor'.hash \in rows'
      BY <1>1, <1>2, <1>4 DEF BatchRange
    <2>2. \A b \in rows' : Height[b] <= cursor'.height
      BY <1>1, <1>2, <1>3, <1>4, <1>5, CursorFacts
    <2> QED
      BY <1>4, <2>1, <2>2 DEF CursorIsTop
  <1>9. PhaseOK' /\ BatchOK' /\ HashesOK'
    BY <1>1 DEF IInv, PhaseOK, BatchOK, HashesOK
  <1>10. StatusOK'
    BY <1>1 DEF IInv, StatusOK
  <1> QED
    BY <1>6, <1>7, <1>8, <1>9, <1>10 DEF IInv

\* What a rollback leaves: the parent of the block that was the top.
LEMMA RollbackFacts ==
    ASSUME IInv, rows # {}
    PROVE  LET r == Without(cursor.height) IN
           /\ r = rows \ {cursor.hash}
           /\ r = {} => Prev[cursor.hash] = NoBlock /\ CursorAfterRollback(r) = NoCursor
           /\ r # {} => /\ Prev[cursor.hash] \in r
                        /\ \A b \in r : Height[b] <= Height[Prev[cursor.hash]]
                        /\ CursorAfterRollback(r) = CursorOf(Prev[cursor.hash])
  <1> DEFINE r == Without(cursor.height)
             t == cursor.hash
             p == Prev[t]
  <1>1. /\ t \in rows /\ t \in Block /\ cursor.height = Height[t]
        /\ \A b \in rows : b \in Block /\ Height[b] \in Nat /\ Height[b] <= Height[t]
        /\ \A a, b \in rows : Height[a] = Height[b] => a = b
        /\ \A b \in rows : Prev[b] # NoBlock => Prev[b] \in rows
    BY TreeFacts DEF IInv, TypeOK, CursorIsTop, IndexIsOneBranch
  <1>2. r = rows \ {t}
    BY <1>1 DEF Without
  <1>3. CASE p = NoBlock
    <2>1. Height[t] = 0
      BY <1>1, <1>3, TreeFacts
    <2>2. r = {}
      BY <1>1, <1>2, <2>1
    <2> QED
      BY <1>2, <1>3, <2>2 DEF CursorAfterRollback
  <1>4. CASE p # NoBlock
    <2>1. p \in rows /\ p \in Block /\ Height[t] = Height[p] + 1 /\ Height[p] \in Nat
      BY <1>1, <1>4, TreeFacts
    <2>2. p \in r
      BY <1>2, <2>1
    <2>3. \A b \in r : Height[b] <= Height[p]
      BY <1>1, <1>2, <2>1
    <2>4. Highest(r) = p
      BY <1>1, <1>2, <2>2, <2>3, HighestFact
    <2> QED
      BY <1>2, <2>2, <2>3, <2>4 DEF CursorAfterRollback
  <1> QED
    BY <1>3, <1>4

LEMMA RollbackStep ==
    ASSUME IInv, RollbackBlock
    PROVE  IInv'
  <1>1. /\ pc = "rollback" /\ pc' = "written"
        /\ rows' = Without(cursor.height) /\ cursor' = CursorAfterRollback(rows')
        /\ UNCHANGED <<chain, info, server, hashes, batch, status, faults>>
    BY DEF RollbackBlock, locals
  <1>2. rows # {}
    BY <1>1 DEF IInv, PhaseOK
  <1>3. /\ rows' = rows \ {cursor.hash}
        /\ rows' = {} => cursor' = NoCursor
        /\ rows' # {} => /\ Prev[cursor.hash] \in rows'
                         /\ \A b \in rows' : Height[b] <= Height[Prev[cursor.hash]]
                         /\ cursor' = CursorOf(Prev[cursor.hash])
    BY <1>1, <1>2, RollbackFacts
  <1>4. /\ \A b \in rows : b \in Block /\ Height[b] \in Nat /\ Height[b] <= cursor.height
        /\ cursor.hash \in rows /\ cursor.height = Height[cursor.hash]
        /\ \A b \in rows : Prev[b] # NoBlock => Prev[b] \in rows
        /\ \A a, b \in rows : Height[a] = Height[b] => a = b
    BY <1>2, TreeFacts DEF IInv, TypeOK, CursorIsTop, IndexIsOneBranch
  <1>5. CursorIsTop' /\ cursor' \in Cursors
    <2>1. CASE rows' = {}
      BY <1>3, <2>1 DEF CursorIsTop, NoCursor, Cursors
    <2>2. CASE rows' # {}
      <3>1. Prev[cursor.hash] \in Block /\ Height[Prev[cursor.hash]] \in Nat
        BY <1>3, <1>4, <2>2
      <3>2. cursor'.hash = Prev[cursor.hash] /\ cursor'.height = Height[Prev[cursor.hash]]
            /\ cursor' \in Cursors
        BY <1>3, <2>2, <3>1 DEF CursorOf, Cursors
      <3> QED
        BY <1>3, <2>2, <3>2 DEF CursorIsTop
    <2> QED
      BY <2>1, <2>2
  <1>6. TypeOK'
    BY <1>1, <1>3, <1>4, <1>5 DEF IInv, TypeOK
  <1>7. IndexIsOneBranch'
    <2>1. ASSUME NEW b \in rows', Prev[b] # NoBlock
          PROVE  Prev[b] # cursor.hash
      BY <1>3, <1>4, <2>1, TreeFacts
    <2> QED
      BY <1>3, <1>4, <2>1 DEF IndexIsOneBranch
  <1>8. PhaseOK' /\ BatchOK' /\ HashesOK'
    BY <1>1 DEF IInv, PhaseOK, BatchOK, HashesOK
  <1>9. StatusOK'
    BY <1>1 DEF IInv, StatusOK
  <1> QED
    BY <1>5, <1>6, <1>7, <1>8, <1>9 DEF IInv

LEMMA PublishStep ==
    ASSUME IInv, PublishCursor
    PROVE  IInv'
  <1>1. /\ pc = "written" /\ pc' = "chaininfo"
        /\ status' = StatusOf(status.chain, cursor)
        /\ UNCHANGED <<chain, rows, cursor, info, server, hashes, batch, faults>>
    BY DEF PublishCursor, Published, store, locals
  <1>2. status.chain \in Cursors /\ cursor \in Cursors
    BY DEF IInv, TypeOK, Statuses
  <1>3. /\ status' \in Statuses /\ status'.indexed = cursor /\ status'.chain = status.chain
        /\ status'.synchronized => status.chain.height >= 0 /\ cursor = status.chain
    BY <1>1, <1>2, StatusFacts
  <1>4. TypeOK'
    BY <1>1, <1>3 DEF IInv, TypeOK
  <1>5. IndexIsOneBranch' /\ CursorIsTop'
    BY <1>1, StoreUnchanged DEF store
  <1>6. PhaseOK' /\ BatchOK' /\ HashesOK'
    BY <1>1 DEF IInv, PhaseOK, BatchOK, HashesOK
  <1>7. StatusOK'
    BY <1>1, <1>3 DEF StatusOK
  <1> QED
    BY <1>4, <1>5, <1>6, <1>7 DEF IInv

LEMMA CrashStep ==
    ASSUME IInv, CrashRestart
    PROVE  IInv'
  <1>0. PICK shown \in {cursor, NoCursor} : status' = StatusOf(NoCursor, shown)
    BY DEF CrashRestart, FreshStatus
  <1>1. /\ pc' = "chaininfo" /\ info' = NoCursor /\ server' = Primary
        /\ hashes' = <<>> /\ batch' = <<>>
        /\ UNCHANGED <<chain, rows, cursor>>
        /\ faults < MaxFaults /\ faults' = faults + 1
    BY DEF CrashRestart, store
  <1>2. cursor \in Cursors /\ NoCursor \in Cursors /\ NoCursor.height = -1
    BY DEF IInv, TypeOK, NoCursor, Cursors
  <1>3. status' \in Statuses /\ status'.indexed \in {cursor, NoCursor} /\ ~status'.synchronized
    BY <1>0, <1>2, StatusFacts
  <1>4. TypeOK'
    BY <1>1, <1>2, <1>3, ConstantsAssumption DEF IInv, TypeOK
  <1>5. IndexIsOneBranch' /\ CursorIsTop'
    BY <1>1, StoreUnchanged DEF store
  <1>6. PhaseOK' /\ BatchOK' /\ HashesOK'
    BY <1>1 DEF PhaseOK, BatchOK, HashesOK
  <1>7. StatusOK'
    BY <1>1, <1>3 DEF StatusOK
  <1> QED
    BY <1>4, <1>5, <1>6, <1>7 DEF IInv

\* Steps that change nothing but the nodes' chains, and stuttering.
LEMMA EnvironmentStep ==
    ASSUME IInv, chain' \in [Node -> Branches],
           UNCHANGED <<store, pc, locals, status, faults>>
    PROVE  IInv'
  <1>1. UNCHANGED <<rows, cursor, pc, info, server, hashes, batch, status, faults>>
    BY DEF store, locals
  <1>2. TypeOK'
    BY <1>1 DEF IInv, TypeOK
  <1>3. IndexIsOneBranch' /\ CursorIsTop'
    BY StoreUnchanged
  <1>4. PhaseOK' /\ BatchOK' /\ HashesOK' /\ StatusOK'
    BY <1>1 DEF IInv, PhaseOK, BatchOK, HashesOK, StatusOK, To, From
  <1> QED
    BY <1>2, <1>3, <1>4 DEF IInv

LEMMA NextIInv == IInv /\ [Next]_vars => IInv'
  <1> SUFFICES ASSUME IInv, [Next]_vars PROVE IInv'
    OBVIOUS
  <1>1. ASSUME NEW n \in Node,
               ChainInfo(n) \/ RefreshMempool(n) \/ CheckCursor(n) \/ FetchHash(n)
        PROVE  IInv'
    BY <1>1, ChainInfoStep, RefreshMempoolStep, CheckCursorStep, FetchHashStep
  <1>2. CASE OutOfRange \/ RejectHeight \/ StepFails
    BY <1>2, StepEnds
  <1>3. CASE AcceptBlocks
    BY <1>3, AcceptBlocksStep
  <1>4. CASE RejectFirst
    BY <1>4, RejectFirstStep
  <1>5. CASE ApplyBlocks
    BY <1>5, ApplyBlocksStep
  <1>6. CASE RollbackBlock
    BY <1>6, RollbackStep
  <1>7. CASE PublishCursor
    BY <1>7, PublishStep
  <1>8. CASE CrashRestart
    BY <1>8, CrashStep
  <1>9. ASSUME NEW n \in Node, FetchWrongHash(n) PROVE IInv'
    BY <1>9, FetchWrongHashStep
  <1>10. ASSUME NEW n \in Node, NodeAdvances(n) PROVE IInv'
    <2>1. chain' \in [Node -> Branches]
      BY <1>10 DEF NodeAdvances, IInv, TypeOK
    <2> QED
      BY <1>10, <2>1, EnvironmentStep DEF NodeAdvances
  <1>11. CASE UNCHANGED vars
    <2>1. chain' \in [Node -> Branches]
      BY <1>11 DEF vars, IInv, TypeOK
    <2> QED
      BY <1>11, <2>1, EnvironmentStep DEF vars
  <1> QED
    BY <1>1, <1>2, <1>3, <1>4, <1>5, <1>6, <1>7, <1>8, <1>9, <1>10, <1>11
       DEF Next, Step, Fault

-------------------------------------------------------------------------------
(* Theorems *)

\* The inductive invariant: what every phase of a step relies on.
THEOREM InductiveInvariant == Spec => []IInv
  BY InitIInv, NextIInv, PTL DEF Spec

\* Every variable keeps its type.
THEOREM TypeCorrect == Spec => []TypeOK
  <1>1. IInv => TypeOK
    BY DEF IInv
  <1> QED
    BY <1>1, InductiveInvariant, PTL

\* Whatever the nodes answer, and wherever the process is killed, the blocks
\* table is one branch of the block tree.
THEOREM OneBranch == Spec => []IndexIsOneBranch
  <1>1. IInv => IndexIsOneBranch
    BY DEF IInv
  <1> QED
    BY <1>1, InductiveInvariant, PTL

\* The cursor that the next step, or the next process, starts from is the top of
\* the blocks table.
THEOREM CursorCorrect == Spec => []CursorIsTop
  <1>1. IInv => CursorIsTop
    BY DEF IInv
  <1> QED
    BY <1>1, InductiveInvariant, PTL

\* applyBlocks never meets a key conflict.
THEOREM NeverConflicts == Spec => []BatchInsertable
  <1>1. IInv => BatchInsertable
    BY BatchFacts DEF BatchInsertable
  <1> QED
    BY <1>1, InductiveInvariant, PTL

\* A status that says synchronized is true of the tables at that moment.
THEOREM StatusHonest == Spec => []SynchronizedIsTrue
  <1>1. IInv => SynchronizedIsTrue
    <2> SUFFICES ASSUME IInv, status.synchronized
                 PROVE  cursor = status.chain /\ cursor.hash \in rows
      BY DEF SynchronizedIsTrue
    <2>1. cursor = status.chain /\ cursor.height >= 0
      BY DEF IInv, StatusOK, NoCursor
    <2>2. rows # {}
      BY <2>1, CursorFacts
    <2> QED
      BY <2>1, <2>2 DEF IInv, CursorIsTop
  <1> QED
    BY <1>1, InductiveInvariant, PTL

-------------------------------------------------------------------------------
(* Implementation of IndexAbs *)

\* One transaction of applyBlocks is one Grow step of the abstract index.
LEMMA ApplyGrows ==
    ASSUME IInv, ApplyBlocks
    PROVE  Abs!Grow
  <1> DEFINE n == Len(batch)
  <1>1. /\ batch \in Seq(Block) /\ n \in 1..BatchSize
        /\ \A i \in 1..n : Prev[batch[i]] = IF i = 1 THEN cursor.hash ELSE batch[i - 1]
    BY DEF ApplyBlocks, IInv, TypeOK, BatchOK
  <1>2. cursor'.hash = batch[n]
    BY DEF ApplyBlocks, CursorOf
  <1>3. batch \in [1..n -> Block] /\ n \in Nat /\ 1 \in 1..n
    BY <1>1, ConstantsAssumption
  <1>4. \A i \in 2..n : Prev[batch[i]] = batch[i - 1]
    BY <1>1, <1>3
  <1>5. batch \in Abs!Runs(n)
    BY <1>3, <1>4 DEF Abs!Runs
  <1>6. Prev[batch[1]] = cursor.hash
    BY <1>1, <1>3
  <1> QED
    BY <1>1, <1>2, <1>5, <1>6 DEF Abs!Grow

\* One transaction of rollbackBlock is one DropTop step.
LEMMA RollbackDrops ==
    ASSUME IInv, RollbackBlock
    PROVE  Abs!DropTop
  <1>1. rows # {}
    BY DEF IInv, PhaseOK, RollbackBlock
  <1>2. cursor' = CursorAfterRollback(Without(cursor.height))
    BY DEF RollbackBlock
  <1>3. cursor'.hash = Prev[cursor.hash]
    BY <1>1, <1>2, RollbackFacts DEF CursorOf, NoCursor
  <1>4. cursor.hash # NoBlock
    BY <1>1, CursorFacts
  <1> QED
    BY <1>3, <1>4 DEF Abs!DropTop

LEMMA NextRefines ==
    ASSUME IInv, [Next]_vars
    PROVE  [Abs!Next]_(cursor.hash)
  <1>1. CASE ApplyBlocks
    BY <1>1, ApplyGrows DEF Abs!Next
  <1>2. CASE RollbackBlock
    BY <1>2, RollbackDrops DEF Abs!Next
  <1>3. CASE ~ApplyBlocks /\ ~RollbackBlock
    <2>1. cursor' = cursor
      BY <1>3 DEF Next, Step, Fault, vars, store, ChainInfo, RefreshMempool,
         CheckCursor, FetchHash, FetchWrongHash, NextHash, OutOfRange, AcceptBlocks,
         RejectFirst, RejectHeight, PublishCursor, StepFails, CrashRestart, NodeAdvances
    <2> QED
      BY <2>1
  <1> QED
    BY <1>1, <1>2, <1>3

\* The indexer implements the abstract index: whatever the nodes answer, a
\* reader of the committed tables sees a branch that grows by linked runs of at
\* most BatchSize blocks or loses its top block.
THEOREM ImplementsIndexAbs == Spec => AbsSpec
  <1>1. Init => Abs!Init
    BY DEF Init, Abs!Init, NoCursor
  <1>2. IInv /\ [Next]_vars => [Abs!Next]_(cursor.hash)
    BY NextRefines
  <1> QED
    BY <1>1, <1>2, InductiveInvariant, PTL DEF Spec, AbsSpec, Abs!Spec
===============================================================================
