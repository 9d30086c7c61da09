# TLA+ verification of elements-localnet

elements-localnet runs a private Elements (Liquid-type) blockchain in Docker: a set
of nodes, one block producer, and one explorer process that indexes the chain into
SQLite, monitors the nodes and serves a read-only API and browser client. This
directory holds a formal model of the parts that keep state and run concurrently,
the TLC configurations that check it on small instances, and TLAPS proofs that hold
for every instance. Paths below are relative to the repository root; the
correspondence line by line is in `PROJECT.json` ("map").

Definitions whose name starts with `Slip` are wrong variants of the definition that
follows them. No specification uses them. Each is put in the place of the right one
to see that the property named in `PROJECT.json` ("mutants") notices.

## 1. Inventory

| Part | Code | State it keeps | Operations | What makes it correct |
|---|---|---|---|---|
| Chain indexer | `explorer/indexer.go`, `step` | the cursor in SQLite, the status in memory, the answers of the step in progress | compare tip and cursor, roll one block back, fetch and validate a batch, write it, publish the status | the index is one branch of the chain, the cursor its top, the status true, and it catches up |
| Index store | `explorer/store.go`, `schema.go` | nine tables, several derived from others | `applyBlocks`, `rollbackBlock`, `replaceMempool`, each one transaction | after any history the tables say exactly what the indexed branch says |
| Run loop and RPC pool | `indexer.go` `Run`, `rpc.go` | failed steps in a row, policy asset, initial sync duration, target order | call, fail over, back off, record | bounded doubling backoff, failover, values written once |
| Block producer | `producer/block-producer.sh`, `healthcheck.sh` | a lock, shell variables, pids for the trap, a status file | generate with retries, sleep, trap TERM, write the status | one producer at a time, one block per iteration, a status that is true |
| Management commands | `manage.sh` | none | start and stop the producer, mine by hand | a stop leaves a true status behind |
| Network telemetry | `explorer/telemetry.go` | the last snapshot, a window of heights | poll all nodes concurrently, elect a tip, classify, count, warn, compute reward and rate | every disagreement is flagged, the elected tip does not depend on map order, the summary is about that tip, rates mean blocks |
| Explorer API | `api.go`, `queries.go`, `queries_more.go` | none (reads), but several statements per reply and several replies per listing | listings, details, search, aggregates | a reply is about one block, transaction, address or asset; a client that follows the pages sees every row; nothing shown is contradicted by the same reply |
| Transaction decoding, asset identifiers, registry | `elements.go`, `assetid.go`, `registry.go` | none after start | pure functions, one file read | encode and decode as Elements does |
| Explorer process | `main.go` | configuration | wiring, shutdown | restart resumes from the store |
| Browser client | `explorer/static/app.js` | current view, a render token, a refresh timer | route, fetch, render | what is shown belongs to the address, and is refreshed |
| Setup, wallet, credentials, verification | `setup-network.sh`, `scripts/*.sh` | generated files, the payout wallet | sequential scripts | can be run again after a failure |

**Interactions.** The indexer calls the nodes through the RPC pool and writes the
store; the API and the telemetry read. The telemetry polls all nodes and reads the
producer's status file. The browser asks the API. The producer and `manage.sh mine`
both send `generatetoaddress` to node-01. Docker starts, stops and kills the containers.

**What is hard here.** A step of the indexer is several calls to nodes that move and
may answer one after the other from different branches; a batch of `getblockhash` is
not a snapshot; the process may die between any two statements; derived tables are
undone by other statements than those that filled them. The producer is a shell
script with a signal trap that runs between any two commands, retries a call that is
not idempotent, and is killed ten seconds after a stop. The telemetry compares
snapshots of concurrent polls, some of which never answered. The API answers with
several statements outside a transaction while batches and rollbacks are committed.
The browser's renders overlap and finish in any order. The complete list, at
the line where each bites, is in `PROJECT.json` ("hazards").

## 2. Modules

| Module | Models | Extends / uses |
|---|---|---|
| `IndexAbs` | what the index promises its readers: one branch that grows by linked runs of at most `BatchSize` blocks or loses its top | - |
| `ChainIndexer` | `step()` and the part of the store that is its position | instance of `IndexAbs` |
| `ChainIndexer_proofs` | the theorems about it | `ChainIndexer`, TLAPS |
| `IndexStore` | the tables, the three transactions, the check of asset identifiers | - |
| `IndexStore_proofs` | the theorems about it | `IndexStore`, `Lemmas` |
| `ApiReads` | every handler that reads the index, statement by statement, beside the writer; the client that follows its pages | `IndexStore` |
| `ApiReads_proofs` | the theorems about it | `ApiReads`, `IndexStore_proofs` |
| `Powers` | the powers of two, as a recursive function | - |
| `IndexerRun` | `Run()`, deadlines, failover, backoff, policy asset, initial sync | `Powers` |
| `IndexerRun_proofs` | the theorems about it | `IndexerRun`, `Lemmas` |
| `Producer` | the script, its trap and lock, the health check, the heartbeat, Docker and `manage.sh` | `Powers` |
| `Producer_proofs` | the theorems about it | `Producer`, `Lemmas` |
| `CanonicalVote` | the loop of `canonical` over a Go map | - |
| `CanonicalVote_proofs` | the theorems about it | `CanonicalVote`, TLAPS |
| `Telemetry` | `refresh`, `pollNode`, `aggregate`, `classify`, `economics`, `blockSubsidy` | uses the result of `CanonicalVote` |
| `Telemetry_proofs` | the theorems about it | `Telemetry`, `Lemmas` |
| `Lemmas` | induction over numbers by sets, recursive functions, powers of two, finite sets in order | `Powers`, TLAPS library |
| `Browser` | `render`, `navigate`, `start` and the refresh interval of `app.js` | - |
| `MC...` | a block tree, transactions, tips and model values for TLC | the module of that name |

### ChainIndexer
`pc` is the call the step waits for or the write it does next: `chaininfo`,
`mempool`, `blockhash` (the continuity check), `hashes`, `blocks` (validation),
`apply`, `rollback`, `written` (committed, status not updated). A block stands for
its hash; `Height` and `Prev` are the header fields any node prints for that hash.
Nodes move (`NodeAdvances`) between any two calls, and only to longer chains.
`Answers` is the RPC pool: the primary answers, another node does when the primary is
unreachable (a fault) or refuses because its chain ends below the height asked for.
`FetchWrongHash` lets a node answer with any hash, the genesis block of another
network included. `getblock` by hash is not a separate step: its answer is
determined by the hash. `CrashRestart` may happen anywhere; `store` survives. The new
process shows the stored cursor in its status, or an empty index (`NoCursor`) when
`newIndexer` could not read it, an error the code ignores; the next commit puts that right.
With nothing to commit it stays, so `CatchesUp` demands that the index reaches the tip and
that the status says so, unless it is still that of such a process.

### IndexStore
The tables are sets of records, statements are set expressions, and the joins and
`INSERT OR IGNORE` of `insertBlock` are kept. A batch is any linked run on top of the
cursor, which `ChainIndexer` establishes. `txs`, the contents of the blocks, is chosen
in the initial state among all valid ways to spread the transactions over the tree,
so that the same transaction may be on both sides of a fork, at another height, in
another position. The properties recompute every table from the blocks alone.
An asset may be issued by different transactions on the two branches, explicitly on
one and blinded on the other; the identifiers derived from its entropy come from
`FastMerkle`, which stands for the hash. Scripts and sizes are left out: no property
speaks of them.

### ApiReads
Composes the tables of `IndexStore`, with all their writes, with the handlers. A
statement (`Query`; `Answer` when it runs) sees one committed version of the tables, which is what SQLite
gives it; a handler is the sequence of its statements (`HandleBlock` and the others),
and between any two of them the indexer may commit a batch, a rollback or a mempool,
or update the status (`WriteBlocks`, `WriteMempool`, `PublishStatus`, in the order of
its one goroutine). A client asks, then follows `nextOffset` or `nextCursor` to the
end or leaves; `from` is where the page it asked for begins. When the explorer restarts
(`RestartExplorer`) the request in progress is lost and the client asks for the same page again; the
status may be that of an empty index, as in `ChainIndexer`. Every answer carries the version it saw; `seen` keeps the versions
since the client began. The properties compare replies with the blocks, not with the
tables. Requests do not influence one another, so one client is enough. `Lower` is what
`handleSearch` does to a query, a conversion rather than the identity. `SampleBlocks` counts the
blocks `chainStats` takes its averages over: at most `SampleWindow` (500 in the code), and none while
there are fewer than two. The `asset` listing orders issuances by height and transaction only; issuances of one
transaction are taken to come in one order on every page, which SQLite's plan gives and SQL does
not promise.

### Browser
A pending render knows its path, the answers it still waits for and whether it is the
newest: the token is only ever compared with the newest one. `ViewWrites` and `Finish`
do not look at it, as in the code, `RequestFails` and the busy flag do. `TimerFires`
is the interval of ten seconds. `Redirect` is a search with one match, whose page is rendered
inside the search's own render; a search for nothing is rendered in one go (`RenderAtOnce`).

### IndexerRun
A node answers, refuses, hangs or garbles. A garbled batch is complete and well formed, so the pool
is content with it and asks nobody else; the step rejects what it says (`ContentsRejected`). The
deadline of a step and the timeout of the HTTP client are one duration, so a call that hangs lasts
until the deadline. `Targets` is the stable sort by rank. Each call of `step()` is an action
(`ResolvePolicyAsset`, `ChainInfo`, `RefreshMempool`, `RollbackOrWait`, `NextBlocks`,
`FinishBlocks`); what it does to the index is abstracted to where the step goes next and whether it ends
at the tip. The store may fail between any two of them (`StoreFails`, and the second half of
`ResolvePolicyAsset` and `RecordInitialSync`). `Restart` reads the meta table; `unread`
remembers which of its reads failed, errors `newIndexer` ignores. A duration is stored as text with three
decimals: the clock's unit is a `Grain`th of a millisecond, and `Rounded` is what reads back.

### Producer
A process is a run of the script. `Goto` forgets the pid, `NotePid` is the assignment
after `&`: a TERM between the two finds no pid to kill, so the wait goes on. `grace`
counts the seconds Docker still waits; only waits (curl, sleep) take time. `file` is the
status file, replaced by rename. `made` counts the blocks of the running iteration and
`answered` separates what node-01 did from what the script learns of it. TERM before
the trap is installed has no effect, the script being process 1 of its container. TERM
between the last check for a stop and the write of a success is followed by
`RecordSuccess` and `WriteSuccess`, which say "running" and name a next attempt. TERM inside
`write_status` moves the temporary file away and the rest of the write fails: `StopInWrite`
ends the script where `set -e` is in force, and elsewhere it is as if TERM had come after the write.

### CanonicalVote and Telemetry
A hash is a natural number, of which only the order matters; 0 is the empty string.
`CanonicalVote` visits the keys of the map in every order. `Telemetry` takes its
result as a definition (`Canonical`), polls each node in a step of its own with every
outcome `pollNode` and `decodeNode` tell apart, and publishes. `BlockSubsidy` is the
indexer's own function, to compare with the reward the telemetry shows. `grew` is a history
variable: it records when a node really moved.

## 3. Runs

| Run | Result | What it shows |
|---|---|---|
| `indexer` | holds | `IndexIsOneBranch`, `CursorIsTop`, `BatchInsertable`, `SynchronizedIsTrue`, the refinement `AbsSpec`, and `CatchesUp`, over two nodes on any of eight chains, two faults |
| `store_tables` | holds | spent markers, address history, assets (origin, blinding, checked identifiers, aggregates) and fees are those of the indexed branch after any applied batches and rollbacks |
| `run_loop` | holds | the backoff doubles to its ceiling and starts over, the policy asset comes first, the initial sync is recorded once, across rejected answers, failed reads and writes of the store, and restarts; steps keep succeeding when a node answers and those before it in the order refuse at worst, whatever the nodes after it do |
| `run_failover` | violated | a node that hangs stops the indexer although another answers and none garbles |
| `producer` | holds | the status file is right about a stop and a clean exit, a healthy producer has produced, at most one block per attempt, and production resumes |
| `producer_one_block` | violated | one iteration generates two blocks |
| `producer_heartbeat` | violated | a dead producer stays "running" |
| `canonical_vote` | holds | every visiting order returns the elected tip, five voters |
| `telemetry_nodes` | holds | three nodes: nodes shown as good agree with the canonical tip, which some node that answered holds, and the counts, block time and reward are about it |
| `telemetry_rate` | violated | a block rate without any block |
| `api_reads` | holds | what block, transaction, asset, address, search and overview replies mean while the index changes and the explorer restarts, and what a client sees that follows `/blocks` or an offset listing to its end |
| `browser_refresh` | violated | a late answer of a page that was left stops the refresh of the current page |

### Bounds
* `indexer`: nine blocks give forks at two heights, a reorganisation deeper than
  one block, a longer and a shorter competing branch, and a foreign genesis block.
  `BatchSize = 2` makes batches that end inside a fork; two faults combine a wrong
  answer or a failover with a crash. The theorems remove all these bounds for the
  safety properties.
* `store_tables`: five transactions with a chain of spends, two competing issuances of
  one asset, a blinded and an explicit reissuance, at most two per block, on a fork of depth one and two.
  Every statement has rows on both sides of the fork to confuse.
* `run_loop`: delays of 1, 2, 3 and 3 show a doubling, a doubling that is cut at the ceiling, and the
  ceiling (the theorem is about every base and ceiling). With three clock units in a millisecond (`Grain`) and
  readings up to 3 a duration is recorded as 0.000 or 0.001, and two of them can be told apart;
  two faults combine a failed read or write with a restart. `attempt` stays at its bound when
  it gets there, so nothing is cut off. `run_failover` has smaller bounds, since its
  behaviour needs neither a counter nor a fault of the store.
* `producer`: the real constants (5 attempts, 5 s calls, 60 s interval, 10 s
  grace); failures are counted up to 2, where the health check changes its mind; one
  unexplained kill. One container and one one-shot compete for the lock.
  `producer_heartbeat` has the container alone.
* `telemetry_nodes`: three nodes are the least with a majority below the highest tip;
  four tips give a tie at one height and cross a halving. The nodes are interchangeable
  (a symmetry set), since nothing in a refresh depends on their order. One refresh, during which the
  clock and the nodes move. `telemetry_rate` uses one node and up to three refreshes with
  a window of two.
* `api_reads`: two commits while a client is served, enough for a rollback followed by
  the block that replaces it, or for two blocks; a fork that carries the same
  transaction at two heights; pages of one to four rows, so that walks take several
  requests, a sample window of two blocks, which three indexed ones exceed. Longer walks repeat these steps.
* `browser_refresh`: two renders waiting at a time and six kinds of page.

### Deadlock and fairness
Deadlock is checked in the indexer, store, API, run loop, producer and browser. The vote ends when
the map is visited and the telemetry runs stop at the bound of the clock.
* `ChainIndexer`: weak fairness of `Step`. `Run` is a loop that starts a step after
  every outcome of the last; faults and the movement of nodes are not fair, and
  bounded. `CatchesUp` is therefore about what happens after the last fault.
* `IndexerRun`: weak fairness of `Loop`, for the same reason. Nothing is assumed of nodes; `OneNodeSuffices` and `FailsOver` state their conditions themselves.
* `Producer`: weak fairness of the script's commands, of node-01 executing what it
  receives while it is up, of Docker's kill after the grace period and of time. Nobody
  has to start, stop or restart anything, and node-01 does not have to come back.
* `Browser`: `start()` runs, an interval that is set fires again and again, and every
  request is answered or fails in the end, as the browser and the server's timeouts
  make sure. Users and the visibility of the tab are free.

## 4. Findings

1. **A hanging node defeats failover** (`run_failover`). `step` gives all its calls one
   deadline, as long as the HTTP client's own timeout. When a target hangs, the
   context has expired when the call returns, and `call` returns its error without
   trying the next target; the next step begins with the same target. The
   architecture document promises failover on every transport failure. It works
   while the nodes before the answering one refuse, and neither hang nor garble (`OneNodeSuffices`).
2. **One iteration can generate several blocks** (`producer_one_block`).
   `generatetoaddress` is sent again when its answer is lost. At most five blocks come
   of one iteration (`BoundedBlocks`).
3. **A dead producer can stay "running"** (`producer_heartbeat`). `readProducer`
   lets a status expire only if it names a next attempt. The status has none until
   the first success, and again after a stop: the trap clears it, and the failure path
   of the interrupted call writes `running: true` before a delay of up to 16 s that
   Docker cuts at 10 s. TERM before the trap is installed is lost and leads to
   the same kill.
4. **A block rate out of an outage** (`telemetry_rate`): a refresh in which no node
   can be polled records height -1 as a sample.
5. **A page that is not refreshed any more** (`browser_refresh`). `render()` checks its
   token only when a request fails and for the busy flag. When the answer of a page that
   was left arrives after the answer of the page that replaced it, its contents are
   written over the new page, and `clearInterval` ends the new page's refresh. With
   a token check before the last lines of `render()` the property holds.

### Observations without a run
What `api_reads` had to leave out of its properties, each seen as a counterexample
before its condition was added:
* A rollback between the statements of `blockDetail` or `transactionDetail` gives a
  reply that mixes two blocks, or a transaction without its inputs. Hence `Grown` in
  `BlockReplyWhole` and `TransactionReplyWhole`.
* `total` is counted before the page is read. A batch committed in between shifts the
  page but not the total, and a client that trusts `nextOffset` stops one page early.
* The unspent outputs and the mempool also lose rows, so a client that follows their
  offsets may miss rows whenever anything is committed.
* The public supply of an asset may stand beside a blinded issuance indexed after the
  record was read.
* A search looks into the transactions before the mempool, and misses a transaction
  that a commit moves from the second to the first in between.
* `handleSearch` lower-cases the query, so an address with capitals (base58) is never
  found, although its own message invites a search for an address.
* An overview read between a commit and the status update shows blocks up to a batch
  above the indexed height it reports.
* After a start that could not read the cursor, the height shown is that of an empty index until
  the next commit. Hence the exceptions of `Behind` and `NotFarAbove`.

Elsewhere:
* `newIndexer` ignores a cursor, a policy asset and a duration it cannot read
  (`explorer/indexer.go:52`). The first shows an empty index, the second is asked for again, and
  in place of the third the duration of this process's catch-up is stored. `PolicyAssetFirst`
  and `InitialSyncWrittenOnce` except such a process.
* A catch-up within half a millisecond is stored as 0.000, which the next process takes for none and replaces.
* A preferred node whose answers are complete and unusable (another JSON shape, a hash of the wrong length,
  a block at another height) stops the indexer, since those errors come after the pool's choice
  (`explorer/rpc.go:185`). The documentation promises failover for transport and protocol failures only.
* `confidential_reissuance` is true for an asset whose initial issuance was blinded and
  whose reissuances are all explicit (`explorer/store.go:453`).
* The recorded initial sync duration is that of the process which finishes it, not of
  those that were restarted before (`docs/EXPLORER_SCHEMA.md:54` calls it that of the first catch-up).
* TERM inside `write_status` ends a one-shot, or the container at its first write, with an error instead of
  the clean exit of the script, since `mv` does not find the file the trap has moved.
* A search that is answered late takes the user from the page that replaced it to its match
  (`explorer/static/app.js:762`), as it does not look at the token either.
* The first refresh of the telemetry compares its height with that of the zero snapshot,
  0, so a start with the producer stopped warns of generation (`explorer/telemetry.go:217`).
* `manage.sh mine` asks Docker once whether the producer runs and does not take its
  lock, so the producer may start beside it (`manage.sh:69`).
* With no node answering, `economics` shows the reward of the first era: an unknown
  height counts as 0.

## 5. Proofs

### ChainIndexer
Assumed: only `ConstantsAssumption`, that is, a block's height is one more than its
parent's and a chain is linked from a genesis block. The block tree, the nodes, the
batch size and the number of faults are arbitrary.

`IndexIsOneBranch` is not inductive: `ApplyBlocks` inserts whatever is in `batch`, and
that it may rests on what validation saw earlier. The invariant `IInv` adds
* `CursorIsTop`, since validation compares with the cursor, not with the table;
* `HashesOK`: a batch of hashes stays within its range, and is empty elsewhere, so that
  validation speaks of the batch that was asked for;
* `BatchOK`: a validated batch is a linked run on top of the cursor. It is
  established in `AcceptBlocks` from `GoodUpTo`, and nothing between there and
  `ApplyBlocks` moves the cursor;
* `PhaseOK`: a rollback is only decided with something indexed;
* `StatusOK`: the published position is the cursor's or, in a process that could not read it, that of an
  empty index; it lags only while `pc = "written"`, and
  a step that goes past the tip comparison has withdrawn "synchronized".

One lemma per action shows that it preserves `IInv`; lemmas on linked runs and on the
highest row of a branch carry the two writes. Theorems: `InductiveInvariant`,
`TypeCorrect`, `OneBranch`, `CursorCorrect`, `NeverConflicts`, `StatusHonest`, and
`ImplementsIndexAbs`: with `top <- cursor.hash`, `ApplyBlocks` is `Grow`,
`RollbackBlock` is `DropTop` (because the row below the top is the top's parent), and
every other action stutters. In words: whatever nodes answer, and wherever the process is
killed, readers of the committed tables see one branch.

### IndexStore
Assumed, besides a block tree as in `ChainIndexer`: lists are finite, SQL's NULL is
neither an outpoint, a spent marker, an amount nor an identifier, an amount a node prints is not blinded
(`TransactionsAssumption`), and what the nodes
validate before they hand out a block (`ContentsAssumption`): on a branch no transaction appears twice, an
input spends an output made at an earlier place, no two inputs spend the same one, and an asset is
issued for the first time by exactly one input (`Consensus`). The tree, the transactions, their addresses and fees and the contents of
the blocks are arbitrary; so is the sequence of batches and rollbacks.

The properties are not inductive by themselves: what `rollbackBlock` leaves is only right if the
rows it finds were right, and its statements select rows by height. `IInv` therefore says of
every table of blocks, down to `issuances` and `assets` row by row, that it is that of one branch, and adds
`BranchStored`, that this branch ends with the cursor and has no two blocks of one height. The
argument, bottom up:
* `MarkedRow`, `NewRow`: the transaction at the next place marks an output exactly as the longer branch has
  it, and its own outputs are unspent, since nothing spends before it is made;
* `FilledRows`, `InsertedStored`: the loops over the transactions of a block and the blocks
  of a batch, by induction on the position, the rows after each round being those of the places so far;
* `JoinedRows`, `AddressesInserted`: the two joins give the addresses paid and spent from at the new
  height, and `INSERT OR IGNORE` only ignores rows that are equal to what is there;
* `FeesCorrect`: the accumulated fee is the sum;
* `UnmarkedRow`, `RowsLeft`: clearing the markers of one height and deleting its rows leaves the tables of
  the branch without its last block, because exactly one input may have set a marker;
* `TopLeft`: the highest row left is the parent;
* `InsertTransactionAssets`: `ON CONFLICT DO NOTHING` never applies, so during a batch the table holds the
  old rows with their old aggregates and a fresh row per new asset (`AssetsGrown`);
* `GrownRefreshable`, `LeftRefreshable`, `RefreshedToFull`: refreshing the assets a batch or a rollback
  touches makes the aggregates of all assets right, since an untouched one has the same issuances before and after;
* `AssetRowCorrect`: the aggregates of SQL rows are counts and sums over the issuances themselves, because
  rows and issuances correspond one to one (`RowOfInjective`, `SupplyCorrect`).

Theorems: `TablesFollowTheBranch`, `SpentMarkersCorrect`, `HistoryCorrect`,
`FeesAreTheSum`, `AssetsCorrect`.

### ApiReads
Assumed, besides the assumptions of `IndexStore`: a request is one that `routes` dispatches, and a
limit is a number when `pageParams` reads it (`RequestsAssumption`); every block has a coinbase,
amounts, transactions and assets that can be listed have an order, and a mempool is finite
(`RowsAssumption`). The requests, their number, the page sizes and `MaxCommits` are arbitrary: any number of
batches, rollbacks and mempools may be committed between two statements, and a walk may be of any length.

`ReadersOnlyRead`: beside its readers the index does what it does alone (`ApiSpec => Spec`), so the
theorems about `IndexStore` hold here. With them, `ReaderInv` says
* `Version`: each version that a statement may have seen is, row by row, the tables of one branch;
* `Answered`: the answers so far are those of the handler's first statements, each right for
  the version it saw, and no version is older than that of the statement before;
* `Walked`: every page of a walk began where the page before it said, was answered in full, and saw nothing
  older than the page before it;
* `VersionsKept`, `StatusFollows`: the newest version is the current one, and the status lags
  behind it by one batch at most, or is that of an empty index (`Behind`).

`QueryOf` is what keeps `Answered` true while a handler goes on: what a statement gives depends on
answers that are already there. A commit only adds a version (`AnsweredByMore`). The properties follow from
`ReaderInv` alone, each in one state:
* details: a transaction, block or asset found in a version is in every later one that has its blocks
  (`GrownVersion`, `GrownBlocks`), and each part is what the branch says (`InputsOfTransaction`, `SpendersAre`,
  `HeaderRow`, `BlindedWithheld`). Two blocks of one height in one version are the same, which is why the
  header and the transactions each are of one block even when something was rolled back in between;
* `BalancesAre`: the rows to an address are the outputs the branch pays to it, one for one, and marked exactly
  when the branch spends them;
* `/blocks`: whatever version a page came from, it is a run of heights that ends above its next cursor
  (`BlocksShown`), so pages cannot overlap (`PagesFall`); of versions that grew, the last block of a page
  and the first of the next are linked (`PagesGrow`, `PagesMeet`);
* offsets: a new block can only push a row down, that is, the number of rows before it (`RankOf`) does not
  shrink (`HistoryKept`, `RankGrows`). The page where the rank first falls below the next offset
  has the row (`SomePageCovers`), and the last page reaches the total, which exceeds the
  rank because it was counted in the version the page was read from (`RowOnPage`).

Theorems: `ReadersOnlyRead`, `RepliesRead`, and one for each of the eight properties of the run
`api_reads`: `BlockReplyCorrect`, `TransactionReplyCorrect`, `CursorWalkCorrect`, `OffsetWalkCorrect`,
`SupplyReplyCorrect`, `BalancesCorrect`, `SearchReplyCorrect`, `OverviewCorrect`.

### CanonicalVote
For every finite set of voters and every set of tips. `LoopInv` says that `best` is the winner
among the keys visited so far, with its count. `CanonicalIsElected` and
`OrderIrrelevant` follow: the elected tip is returned, and since there is only one,
the order of the map cannot show.

### Producer
Assumed: manual runs are runs, at least one attempt, a positive interval, the rest
natural numbers. Any number of processes may start, be stopped and be killed.

What the properties say is about one process, but the status file and the counter of blocks are
shared by all of them. So `IInv` begins with the lock (`OneProducer`, flock on the first line of
the script), without which no step of one process could be kept from disturbing what is known of
another. `TrapNotInstalled` is what makes a TERM before the trap harmless to the status;
`IterationOK` and `AttemptsOK` follow the blocks of an iteration through the phases of `mine_once`: an
attempt has made at most one block more than there were attempts before it, and a failure
without a block has left its error in the status file or is a stop. Theorems: `TypeCorrect`, `LockHolds`,
`StoppedCorrect`, `CleanExitCorrect`, `HealthyCorrect`, `BlocksBounded`.

### IndexerRun
Assumed: the inventory is a sequence of nodes of which at least one has credentials (`newRPCPool`
fails otherwise), the base of the backoff is positive, the ceiling any natural number.

`TargetsCorrect`: the order of the stable sort exists, contains exactly the nodes with
credentials, and is sorted by rank and then by position, so `Targets`, a CHOOSE, denotes what
the code computes. `BackoffCorrect`: the loop of `backoff`
returns the smaller of 2^n times the base and the ceiling, for every n, and not only for
the four TLC tries. `IInv` relates the process to the database: `StoredIsKnown`
(what is in the meta table was read at the start or written by this process, unless it could not be
read) is what
`InitialSyncWrittenOnce`, a property of steps, rests on, since the code decides on its own
copy whether to write, and on numbers rather than the text it stores: a duration that rounds to something was
something (`Rounded`); `CallsInOrder` is what `PolicyAssetFirst` rests on; `StartedBefore` keeps durations
from being negative. Theorems: `TypeCorrect`, `BackoffHolds`, `PolicyAssetHolds`,
`InitialSyncHolds`.

### Telemetry
Assumed: finitely many nodes and at least one; a hash names one block, as in the whole
project; a positive interval; and that the reward is less than 2^63 (`Shifted[63] = 0`),
which is what `blockSubsidy` returning an int64 means.

A snapshot is computed in one step, from answers collected in many, so `IInv` has one part about the
answers (`PolledOK`: a complete answer has the tip and the time of one block, an
incomplete one counts for nothing) and the three properties, each of which follows from
it when the snapshot is published. `CanonicalElected`: if somebody votes, one tip
wins against every other (the maximum of a lexicographic order on a finite set), so
`Canonical` denotes it. `EconomicsCorrect`: the halving announced is ahead of the height, and the
subsidy there is half of the reward, also past the 63rd halving. Theorems: `GoodNodesCorrect`, `CanonicalCorrect`, `SummaryCorrect`.

### Lemmas
The library's induction theorems take the predicate as a parameter, which the provers
cannot instantiate. Induction over natural numbers is still possible about a *set*:
`LeastNat` and `SetInduction` come from the well-foundedness of `<`, and a property is proved for
every n by applying them to the set of n that have it. `IteratedFunction` gives the
existence of a function defined by primitive recursion on numbers, hence `Pow2Exists`, the backoff and the
halvings. `SortedEnumeration` puts a finite set of numbers into increasing
order, `GreatestElement`, `ImageFinite`, `ImageSize`, `UnionBound` and `CoverBound` are about finite sets.
`SubsetInduction` is induction over the subsets of a finite set; with it `SumUnique` and `SumIs` show that the
library's sum over a set does not depend on the order it chooses, and `SumAdd`, `SumAgree` and `SumRenamed`
are the rules one calculates with. `SumDifference` is the balance of an address: what was paid less
what was spent of it.

### Only model-checked
Liveness (`CatchesUp`, `OneNodeSuffices`, `ProducesAgain`): the prover has no support
for fairness and ENABLED. `Browser` only has the violated property, which is one of liveness. Every
invariant that a passing run checks, and the refinement, is also proved.
The five violated properties are, of course, only shown by TLC.

Every inductive invariant was checked by TLC, with the configuration of its module's run, before
it was proved (that of `IndexStore` without `txs \in Contents`, which never changes; of that of `ApiReads`
the parts about answers and walks, with the beginning of each page computed from the page before it).

## 6. Plan

Done: `IndexAbs`, `ChainIndexer`, `IndexStore`, `IndexerRun`, `Producer`, `CanonicalVote`, `Telemetry`,
`ApiReads`, `Browser`, with proofs of every safety property of every run that holds. What could come next:
1. `manage.sh mine` beside the producer, when it is given the producer's lock.
2. `migrate()` with a crash between two migrations, when the schema gets a second version.
3. The liveness properties, when the prover supports fairness.

## 7. Not modelled

The API's raw JSON (passed through from a node), health and readiness; transaction
decoding (JSON shapes and exact decimal parsing, no state); SHA-256 behind the asset
identifiers (out of TLC's reach, a constant function here); the registry (a file read
once); the process's wiring and the backup, which is one SQLite statement; what the
browser's views print and its status strip; the setup, wallet, credential and
verification scripts (sequential, their state is files and a node's wallet); topology
and the sums over peers and mempools; `manage.sh` commands that print, mine or start
containers. SQLite is taken to commit a transaction as a whole, to keep it, and to let
a statement see one committed state; Docker to deliver TERM and KILL as documented.
