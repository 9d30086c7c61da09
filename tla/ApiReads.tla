------------------------------- MODULE ApiReads -------------------------------
(***************************************************************************)
(* The read side of the explorer: the handlers of explorer/api.go and the  *)
(* queries of queries.go and queries_more.go, over the tables of           *)
(* IndexStore while the indexer goes on writing them.                      *)
(*                                                                         *)
(* A statement sees one committed state of the index.  A handler runs      *)
(* several, outside of any transaction, so what it puts together may come  *)
(* from different states; a client that follows the pages of a listing     *)
(* sees still more of them.  The properties say what a reply means         *)
(* nevertheless, and compare it with the blocks, not with the tables.      *)
(*                                                                         *)
(* Handlers only read, so requests do not influence one another: one       *)
(* client is enough.  Columns no property speaks of are left out (sizes,   *)
(* times, the averages of chainStats, confirmations).                      *)
(*                                                                         *)
(* Definitions whose name starts with Slip are wrong variants of the       *)
(* definition that follows them, used to test the properties.              *)
(***************************************************************************)
EXTENDS IndexStore

CONSTANTS
    Request,        \* what clients ask for: [op, id, limit, ...]
    Amount,         \* Amount[t][o]: [asset, sats] of an output, Null where blinded
    Rank,           \* the order of transaction and asset identifiers
    Lower,          \* Lower[q]: a search query in lower case
    NotFound,       \* errNotFound, or parameters that are refused: the handler stops
    MaxPageSize, MaxPageOffset,     \* of api.go
    OverviewRows,   \* blocks and transactions on the overview
    SampleWindow,   \* the blocks chainStats takes its averages over
    MaxCommits      \* bound: commits while one client follows one listing

Operations == {"block", "tx", "address", "asset", "utxos", "assets", "assettxs", "mempool",
               "blocks", "transactions", "overview", "explorer", "search"}
Listings == {"block", "address", "asset", "utxos", "assets", "assettxs", "mempool"}

\* A limit is a number when a handler reads it; the absence of a row is no row.
ASSUME RequestsAssumption ==
    /\ \A r \in Request :
         /\ r # Null /\ r.op \in Operations
         /\ r.op \in Listings \cup {"blocks", "transactions"} => r.limit \in Int
         /\ r.op = "search" => r.form \in {"number", "hex", "text"}
    /\ MaxPageSize \in Nat \ {0} /\ OverviewRows \in Nat \ {0} /\ MaxPageOffset \in Nat
    /\ SampleWindow \in Nat /\ SampleWindow > 1
    /\ Null \notin Int
    /\ NotFound \notin [transactions : Nat, outputs : Nat, unspent : Nat]

\* Every block has a coinbase; identifiers have an order, the mempool is finite.
ASSUME RowsAssumption ==
    /\ \A c \in Contents, b \in Block : Len(c[b]) > 0
    /\ \A t \in Tx :
         /\ Rank[t] \in Int
         /\ \A v \in IssuingInputs(t) : Rank[Vin[t][v].issuance.asset] \in Int
         /\ \A o \in DOMAIN Vout[t] : Amount[t][o].sats # Null => Amount[t][o].sats \in Int
    /\ \A pool \in Pending : IsFiniteSet(pool) /\ \A t \in pool : Rank[t] \in Int

VARIABLES
    published,      \* the indexed height that indexer.Status() shows
    written,        \* a batch or rollback is committed, the status not yet updated
    req,            \* the request being served, Null if none
    from,           \* where in its listing: the offset, and the cursor of /blocks
    got,            \* the answers of its queries so far, each with the version it saw
    walk,           \* the replies before it, when it follows their next page
    seen            \* the versions of the index since the walk began (for the properties)

readerVars == <<req, from, got, walk>>
apiVars == <<vars, published, written, readerVars, seen>>

-------------------------------------------------------------------------------
(* Paging *)

\* pageParams: oversized limits are clamped, the rest is refused.
PageParams(limit, offset) ==
    IF limit < 1 \/ offset < 0 \/ offset > MaxPageOffset THEN NotFound
    ELSE [limit |-> Min({limit, MaxPageSize}), offset |-> offset]

\* makePage: total is what an earlier statement counted.
SlipNextOffset(p, total) == IF p.offset + p.limit + 1 < total THEN p.offset + p.limit ELSE Null
NextOffset(p, total) == IF p.offset + p.limit < total THEN p.offset + p.limit ELSE Null

\* The order of keys, column by column.
Precedes(x, y) == \E k \in DOMAIN x : x[k] < y[k] /\ \A j \in 1..(k - 1) : x[j] = y[j]

\* ORDER BY key LIMIT ? OFFSET ?: the rows with so many rows before them
Window(rows, key, limit, offset) ==
    { r \in rows :
        LET before == Cardinality({ s \in rows : Precedes(key[s], key[r]) })
        IN  offset <= before /\ before < offset + limit }

-------------------------------------------------------------------------------
(* Queries.  Each is one statement on one version d of the tables. *)

TheRow(rows) == IF rows = {} THEN NotFound ELSE CHOOSE r \in rows : TRUE

HeightForHash(d, hash) == TheRow({ b.height : b \in { x \in d.blocks : x.hash = hash } })

\* blockDetail, first statement: the header and the block above it
BlockHeader(c, d, h) ==
    TheRow({ [hash |-> b.hash, txCount |-> Len(c[b.hash]),
              next |-> TheRow({ a.hash : a \in { x \in d.blocks : x.height = h + 1 } })]
             : b \in { x \in d.blocks : x.height = h } })

SlipTransactionsInBlock(d, h) == { t \in d.transactions : t.height <= h }
TransactionsInBlock(d, h) == { t \in d.transactions : t.height = h }

\* address_txs a JOIN transactions t
AddressTransactions(d, a) ==
    { t \in d.transactions : \E r \in d.addressTxs : r.address = a /\ r.txid = t.txid }

OutputsTo(d, a) == { o \in d.outputs : o.address = a }
AddressUTXOs(d, a) == { o \in OutputsTo(d, a) : o.spent = Null }

AssetOf(o) == Amount[o.txid][o.vout].asset
SatsOf(o) == Amount[o.txid][o.vout].sats
AssetTransactions(d, asset) ==
    { t \in d.transactions : \E o \in d.outputs : o.txid = t.txid /\ AssetOf(o) = asset }

AssetList(d) == d.assets
Mempool(d) == d.mempool
AssetIssuances(d, asset) == { i \in d.issuances : i.asset = asset }

\* transactionDetail: inputs LEFT JOIN outputs
SlipPrevout(d, i) ==
    TheRow({ o.address : o \in { x \in d.outputs : <<x.txid, x.vout>> = i.prev /\ x.spent = Null } })
Prevout(d, i) == TheRow({ o.address : o \in { x \in d.outputs : <<x.txid, x.vout>> = i.prev } })
IssuancesForTx(d, t) == { i.vin : i \in { x \in d.issuances : x.txid = t } }
TxInputs(d, t) ==
    { [vin |-> i.vin, prevout |-> Prevout(d, i)] : i \in { x \in d.inputs : x.txid = t } }

\* addressSummary
AddressCounts(d, a) ==
    LET c == [transactions |-> Cardinality({ r \in d.addressTxs : r.address = a }),
              outputs |-> Cardinality(OutputsTo(d, a)),
              unspent |-> Cardinality(AddressUTXOs(d, a))]
    IN  IF c.outputs = 0 /\ c.transactions = 0 THEN NotFound ELSE c

SumSats(outputs) == MapThenSumSet(SatsOf, outputs)
SlipBalances(d, a) ==
    { [asset |-> s, balance |-> SumSats({ o \in OutputsTo(d, a) : AssetOf(o) = s /\ SatsOf(o) # Null })]
      : s \in { AssetOf(o) : o \in { x \in OutputsTo(d, a) : AssetOf(x) # Null /\ SatsOf(x) # Null } } }
Balances(d, a) ==
    LET explicit == { o \in OutputsTo(d, a) : AssetOf(o) # Null /\ SatsOf(o) # Null }
        inAsset(s) == { o \in explicit : AssetOf(o) = s }
        spent(s) == { o \in inAsset(s) : o.spent # Null }
    IN  { [asset |-> s, balance |-> SumSats(inAsset(s)) - SumSats(spent(s))]
          : s \in { AssetOf(o) : o \in explicit } }

\* asset, with describe
SlipSupplyPublic(a) == ~a.confidential
SupplyPublic(a) == a.issued # Null
AssetRecord(d, asset) ==
    TheRow({ [public |-> SupplyPublic(a), issuances |-> a.issuances]
             : a \in { x \in d.assets : x.asset = asset } })

\* blockList: the page and one row more, whose height is the next cursor
BlockPage(d, limit, before) ==
    { b \in d.blocks :
        /\ b.height <= before
        /\ Cardinality({ c \in d.blocks : b.height < c.height /\ c.height <= before }) <= limit }

Above(rows, limit) == { b \in rows : Cardinality({ c \in rows : c.height > b.height }) < limit }
SlipNextCursor(rows, limit) ==
    IF Cardinality(rows) > limit THEN Min({ b.height : b \in Above(rows, limit) }) ELSE Null
NextCursor(rows, limit) ==
    IF Cardinality(rows) > limit THEN Min({ b.height : b \in rows }) ELSE Null

\* chainStats, first statement, and the total of blockList; then the newest blocks
\* within the window, of which there is no average if there is only one
IndexedBlocks(d) == Cardinality(d.blocks)
SampleBlocks(d) ==
    LET count == Min({IndexedBlocks(d), SampleWindow}) IN IF count > 1 THEN count ELSE 0

RecentTransactions(d, limit) ==
    Window(d.transactions, [t \in d.transactions |-> <<-t.height, -t.position>>], limit, 0)

\* search: what the table has under the identifier of r, if anything
Lookup(d, table, r) ==
    CASE table = "block" -> { b.hash : b \in { x \in d.blocks : x.hash = r.id } }
      [] table = "transaction" -> { t.txid : t \in { x \in d.transactions : x.txid = r.id } }
      [] table = "mempool" -> d.mempool \cap {r.id}
      [] table = "asset" -> { a.asset : a \in { x \in d.assets : x.asset = r.id } }
      [] table = "token" -> { a.asset : a \in { x \in d.assets : x.tokenId = r.id } }
      [] table = "byheight" -> { b.hash : b \in { x \in d.blocks : x.height = r.height } }
      [] table = "byaddress" -> { o.address : o \in OutputsTo(d, Lower[r.id]) }

Lookups == {"block", "transaction", "mempool", "asset", "token", "byheight", "byaddress"}

-------------------------------------------------------------------------------
(* Handlers: the statements of each, in order.  "params" is where the handler
   parses limit and offset. *)

SlipHexLookups == <<"block", "transaction", "asset", "token">>
HexLookups == <<"block", "transaction", "mempool", "asset", "token">>

HandleBlock(r) ==
    IF r.form = "hash" THEN <<"resolve", "params", "header", "count", "page">>
    ELSE <<"params", "header", "count", "page">>
HandleTransaction == <<"txrow", "issuances", "inputs", "outputs">>
HandleAddress == <<"params", "counts", "balances", "count", "page">>
HandleAsset == <<"record", "assetoutputs", "params", "count", "page">>
HandlePage == <<"params", "count", "page">>
HandleBlocks == <<"params", "total", "blocks">>
HandleRecentTransactions == <<"params", "recent">>
HandleOverview == <<"stats", "sample", "total", "blocks", "recent", "status">>
HandleExplorerStatus == <<"stats", "sample", "status">>
HandleSearch(r) ==
    CASE r.form = "number" -> <<"byheight", "byaddress">>
      [] r.form = "hex" -> HexLookups
      [] r.form = "text" -> <<"byaddress">>

Handler(r) ==
    CASE r.op = "block" -> HandleBlock(r)
      [] r.op = "tx" -> HandleTransaction
      [] r.op = "address" -> HandleAddress
      [] r.op = "asset" -> HandleAsset
      [] r.op \in {"utxos", "assets", "assettxs", "mempool"} -> HandlePage
      [] r.op = "blocks" -> HandleBlocks
      [] r.op = "transactions" -> HandleRecentTransactions
      [] r.op = "overview" -> HandleOverview
      [] r.op = "explorer" -> HandleExplorerStatus
      [] r.op = "search" -> HandleSearch(r)

(* What the statements of request r give, after the answers g, for the page that
   begins at f; c is the contents of the blocks. *)

\* The height that blockDetail is called with.
BlockHeight(r, g) == IF r.form = "hash" THEN g["resolve"].val ELSE r.height

\* The rows a paged listing goes over, and their order.  Mempool entries have no time
\* here, only an identifier.  The issuances of one transaction tie in the query; which
\* of them SQLite puts first is taken to be the same on every page.
Listing(r, g, d) ==
    CASE r.op = "block" -> TransactionsInBlock(d, BlockHeight(r, g))
      [] r.op = "address" -> AddressTransactions(d, r.id)
      [] r.op = "asset" -> AssetIssuances(d, r.id)
      [] r.op = "utxos" -> AddressUTXOs(d, r.id)
      [] r.op = "assets" -> AssetList(d)
      [] r.op = "assettxs" -> AssetTransactions(d, r.id)
      [] r.op = "mempool" -> Mempool(d)

Key(op, row) ==
    CASE op = "block" -> <<row.position>>
      [] op \in {"address", "assettxs"} -> <<-row.height, -row.position>>
      [] op = "asset" -> <<-row.height, Rank[row.txid], row.vin>>
      [] op = "utxos" -> <<-row.height, Rank[row.txid], row.vout>>
      [] op = "assets" -> <<-row.height, Rank[row.asset]>>
      [] op = "mempool" -> <<Rank[row]>>

Page(r, p, rows) == Window(rows, [x \in rows |-> Key(r.op, x)], p.limit, p.offset)

Params(r, g) == IF r.op = "overview" THEN [limit |-> OverviewRows, offset |-> 0] ELSE g["params"].val

\* The cursor of /blocks; a request without one starts at the top.
Before(f, d) == IF f.before = Null THEN Max({-1} \cup { b.height : b \in d.blocks }) ELSE f.before

Query(c, r, f, g, q, d) ==
    CASE q = "params" -> PageParams(r.limit, f.offset)
      [] q = "resolve" -> HeightForHash(d, r.id)
      [] q = "header" -> BlockHeader(c, d, BlockHeight(r, g))
      [] q = "count" -> Cardinality(Listing(r, g, d))
      [] q = "page" -> Page(r, Params(r, g), Listing(r, g, d))
      [] q = "txrow" -> TheRow({ t \in d.transactions : t.txid = r.id })
      [] q = "issuances" -> IssuancesForTx(d, r.id)
      [] q = "inputs" -> TxInputs(d, r.id)
      [] q = "outputs" -> { o \in d.outputs : o.txid = r.id }
      [] q = "counts" -> AddressCounts(d, r.id)
      [] q = "balances" -> Balances(d, r.id)
      [] q = "record" -> AssetRecord(d, r.id)
      [] q = "assetoutputs" -> Cardinality({ o \in d.outputs : AssetOf(o) = r.id })
      [] q \in {"stats", "total"} -> IndexedBlocks(d)
      [] q = "sample" -> SampleBlocks(d)
      [] q = "blocks" -> BlockPage(d, Params(r, g).limit, Before(f, d))
      [] q = "recent" -> RecentTransactions(d, Params(r, g).limit)
      [] q \in Lookups -> Lookup(d, q, r)

\* The status is read from the indexer, not from the tables.
Answer(q) == IF q = "status" THEN published ELSE Query(txs, req, from, got, q, db)

Failed(g) == \E q \in DOMAIN g : g[q].val = NotFound
Done == req # Null /\ (Failed(got) \/ Cardinality(DOMAIN got) = Len(Handler(req)))

Serve ==
    /\ req # Null /\ ~Done
    /\ LET q == Handler(req)[Cardinality(DOMAIN got) + 1]
           answer == [at |-> Len(seen), val |-> Answer(q)]
       IN  got' = [p \in DOMAIN got \cup {q} |-> IF p = q THEN answer ELSE got[p]]
    /\ UNCHANGED <<vars, published, written, req, from, walk, seen>>

-------------------------------------------------------------------------------
(* The client (external): asks, and follows the next page of a listing *)

NoAnswers == [q \in {} |-> Null]
Start == [offset |-> 0, before |-> Null]

Ask(r) ==
    /\ req = Null
    /\ req' = r /\ from' = Start
    /\ seen' = <<db>>
    /\ UNCHANGED <<vars, published, written, got, walk>>

\* What the page object of the reply says of the next page, Null if there is none.
NextOf(r, g) ==
    IF "page" \in DOMAIN g THEN NextOffset(Params(r, g), g["count"].val)
    ELSE IF r.op = "blocks" THEN NextCursor(g["blocks"].val, Params(r, g).limit)
    ELSE Null

NextFrom(r, f, g) ==
    IF r.op = "blocks" THEN [f EXCEPT !.before = NextOf(r, g)] ELSE [f EXCEPT !.offset = NextOf(r, g)]

Follow ==
    /\ Done /\ ~Failed(got) /\ NextOf(req, got) # Null
    /\ from' = NextFrom(req, from, got)
    /\ walk' = Append(walk, got)
    /\ got' = NoAnswers
    /\ UNCHANGED <<vars, published, written, req, seen>>

Leave ==
    /\ Done
    /\ req' = Null /\ from' = Start /\ got' = NoAnswers /\ walk' = <<>> /\ seen' = <<>>
    /\ UNCHANGED <<vars, published, written>>

-------------------------------------------------------------------------------
(* The indexer, as far as readers notice it: a commit, then the status *)

\* The indexer is one goroutine: it updates the status before it writes again.
SlipMayWrite == TRUE
MayWrite == ~written

\* What the bound allows, and what the properties remember.
WithinBound == req # Null => Len(seen) <= MaxCommits
Versioned == seen' = IF req = Null THEN seen ELSE Append(seen, db')

WriteBlocks ==
    /\ MayWrite /\ WithinBound
    /\ ApplyBlocks \/ RollbackBlock
    /\ written' = TRUE
    /\ Versioned
    /\ UNCHANGED <<published, readerVars>>

\* The mempool is fetched at the tip, and holds nothing the chain has.
WriteMempool ==
    /\ MayWrite /\ WithinBound
    /\ ReplaceMempool
    /\ \A t \in db'.mempool : \A r \in db.transactions : r.txid # t
    /\ Versioned
    /\ UNCHANGED <<published, written, readerVars>>

PublishStatus ==
    /\ written
    /\ published' = db.cursor.height
    /\ written' = FALSE
    /\ UNCHANGED <<vars, readerVars, seen>>

\* The process dies and comes back; the client asks for the page it was waiting for
\* again.  newIndexer ignores a cursor it cannot read and shows an empty index until
\* the next commit.
RestartExplorer ==
    /\ published' \in {db.cursor.height, -1}
    /\ written' = FALSE
    /\ got' = IF Done THEN got ELSE NoAnswers
    /\ UNCHANGED <<vars, req, from, walk, seen>>

ApiInit ==
    /\ Init
    /\ published = -1 /\ written = FALSE
    /\ req = Null /\ from = Start /\ got = NoAnswers /\ walk = <<>> /\ seen = <<>>

ApiNext ==
    \/ \E r \in Request : Ask(r)
    \/ Serve \/ Follow \/ Leave
    \/ WriteBlocks \/ WriteMempool \/ PublishStatus \/ RestartExplorer

ApiSpec == ApiInit /\ [][ApiNext]_apiVars

-------------------------------------------------------------------------------
(* What the properties speak of *)

Reply(q) == got[q].val
Replied(op) == Done /\ ~Failed(got) /\ req.op = op

\* No block was rolled back since the walk began, or since one of its queries.
GrownSince(k) == \A i \in k..(Len(seen) - 1) : seen[i].blocks \subseteq seen[i + 1].blocks
Grown == GrownSince(1)

\* The replies of a walk, the current one included; the walk has come to its end.
Replies == Append(walk, got)
AtEnd == Done /\ ~Failed(got) /\ NextOf(req, got) = Null

\* The transactions of the branch a version holds, from the blocks alone, and the
\* inputs on it that spend an output.
OnBranch(d) == UNION { { txs[b.hash][p] : p \in DOMAIN txs[b.hash] } : b \in d.blocks }
Spenders(d, t, o) ==
    UNION { { [txid |-> s, vin |-> v] : v \in { w \in DOMAIN Vin[s] : Vin[s][w].prev = <<t, o>> } }
            : s \in OnBranch(d) }

-------------------------------------------------------------------------------
(* Properties *)

\* A block reply is about one block.  Its header and the block above are always of one
\* branch, its transactions always of one block; and unless a block was rolled back
\* while blockDetail ran, they are the transactions of the header's block, as many as it
\* says, and the block is the one that was asked for by hash.
BlockReplyWhole ==
    Replied("block") =>
        LET header == Reply("header") IN
        /\ header.next # NotFound => Prev[header.next] = header.hash
        /\ \A s, t \in Reply("page") : s.block = t.block
        /\ Grown => /\ \A t \in Reply("page") : t.block = header.hash
                    /\ Reply("count") = header.txCount
                    /\ req.form = "hash" => header.hash = req.id

\* A transaction reply, put together by four statements, says of the transaction what
\* the branch says when the last of them runs, unless a block was rolled back
\* meanwhile: every spent output is resolved, every issuance found, every output
\* marked by its spender.
TransactionReplyWhole ==
    Replied("tx") /\ Grown =>
        LET t == req.id
            d == seen[got["outputs"].at]
        IN  /\ t \in OnBranch(d)
            /\ Reply("issuances") = IssuingInputs(t)
            /\ Reply("inputs") =
                 { [vin |-> v, prevout |-> IF Vin[t][v].prev = Null THEN NotFound
                                           ELSE Vout[Vin[t][v].prev[1]][Vin[t][v].prev[2]]]
                   : v \in DOMAIN Vin[t] }
            /\ \A o \in Reply("outputs") :
                 IF o.spent = Null THEN Spenders(d, t, o.vout) = {}
                 ELSE Spenders(d, t, o.vout) = {[txid |-> o.spent.txid, vin |-> o.spent.vin]}

\* The cursor of /blocks is stable: whatever the indexer does, no height is listed
\* twice; and unless a block is rolled back, the pages of a client that follows it to
\* the end are one branch from the first page's top down to the genesis block.
CursorWalkExact ==
    Done /\ ~Failed(got) /\ req.op = "blocks" =>
        LET page(i) == Above(Replies[i]["blocks"].val, Replies[i]["params"].val.limit)
            all == UNION { page(i) : i \in DOMAIN Replies }
        IN  /\ \A i, j \in DOMAIN Replies : i < j =>
                 \A b \in page(i), c \in page(j) : c.height < b.height
            /\ Grown /\ AtEnd => \A b \in all : \/ Prev[b.hash] = NoBlock
                                               \/ \E c \in all : c.hash = Prev[b.hash]

\* What identifies a row of a listing.
Id(r) ==
    CASE req.op \in {"block", "address", "assettxs"} -> r.txid
      [] req.op = "asset" -> <<r.txid, r.vin>>
      [] req.op = "utxos" -> <<r.txid, r.vout>>
      [] req.op = "assets" -> r.asset
      [] req.op = "mempool" -> r

\* Listings into which new rows only come at the front, while nothing is rolled back.
Histories == {"block", "address", "asset", "assets", "assettxs"}

\* Following the offsets of a listing to the end, a client sees every row that was
\* there when it began.  For histories new blocks between its requests do no harm:
\* only a rollback does, or a commit between the two statements of one reply,
\* because the total is counted before the page is read.  The listings that also lose
\* rows need an index at rest.
OffsetWalkMissesNothing ==
    AtEnd /\ "page" \in DOMAIN got =>
        LET whole == \A i \in DOMAIN Replies : Replies[i]["count"].at = Replies[i]["page"].at
            pages == UNION { Replies[i]["page"].val : i \in DOMAIN Replies }
        IN  (IF req.op \in Histories THEN Grown /\ whole ELSE Len(seen) = 1) =>
              { Id(r) : r \in Listing(req, got, seen[1]) } \subseteq { Id(r) : r \in pages }

\* "An asset whose issuance amount is blinded is never reported with a public supply":
\* in one reply, a supply shown as public never stands beside a blinded issuance that
\* was already indexed when the asset's record was read, unless a block was rolled back
\* between the statements.
SupplyNotContradicted ==
    Replied("asset") /\ GrownSince(got["record"].at) =>
        \A i \in Reply("page") :
            i.amount = Null /\ i.height <= seen[got["record"].at].cursor.height =>
                ~Reply("record").public

\* The balance shown for an address is the sum of the explicit outputs to it that no
\* transaction of the branch spends, on the branch of the moment it was read, after
\* any reorganisation, and every asset it was explicitly paid in is shown; an address
\* is unknown only if the branch never paid it.
BalancesExact ==
    Done /\ req.op = "address" /\ "counts" \in DOMAIN got =>
        LET paid(d) == UNION { { [txid |-> t, vout |-> o] : o \in { p \in DOMAIN Vout[t] : Vout[t][p] = req.id } }
                               : t \in OnBranch(d) }
            unspent(d, s) == { o \in paid(d) : /\ AssetOf(o) = s /\ SatsOf(o) # Null
                                               /\ Spenders(d, o.txid, o.vout) = {} }
            explicit(d) == { o \in paid(d) : AssetOf(o) # Null /\ SatsOf(o) # Null }
        IN  /\ Reply("counts") = NotFound => paid(seen[got["counts"].at]) = {}
            /\ ~Failed(got) =>
                 LET d == seen[got["balances"].at] IN
                 /\ { b.asset : b \in Reply("balances") } = { AssetOf(o) : o \in explicit(d) }
                 /\ \A b \in Reply("balances") : b.balance = SumSats(unspent(d, b.asset))

\* What a search for an identifier may mean, from the blocks alone.
Known(d, kind) ==
    LET inputs == UNION { { Vin[t][v].issuance : v \in IssuingInputs(t) } : t \in OnBranch(d) }
    IN  CASE kind = "block" -> { b.hash : b \in d.blocks }
          [] kind = "transaction" -> OnBranch(d)
          [] kind = "mempool" -> d.mempool
          [] kind = "asset" -> { i.asset : i \in inputs }
          [] kind = "token" -> { i.tokenId : i \in { j \in inputs : ~j.reissuance } }
          [] kind = "address" -> { o.address : o \in d.outputs }
          [] kind = "confirmed or pending" -> OnBranch(d) \cup d.mempool

\* "search never guesses between entity types ... all matches are returned": an
\* identifier that is of some kind throughout the search is found as that kind, an
\* address if it is written in lower case; and a transaction that is pending or indexed
\* throughout is missed only if a commit moves it from the mempool into a block after
\* the lookup among the transactions and before the one in the mempool.
SearchComplete ==
    Replied("search") =>
        LET throughout(kind) == \A i \in DOMAIN seen : req.id \in Known(seen[i], kind) IN
        /\ req.form = "hex" =>
             /\ \A kind \in {"block", "transaction", "mempool", "asset", "token"} :
                  throughout(kind) => \E q \in DOMAIN got : q = kind /\ Reply(q) # {}
             /\ throughout("confirmed or pending") =>
                  \/ \E q \in DOMAIN got : req.id \in Reply(q)
                  \/ \E p, q \in DOMAIN got :
                       /\ p = "transaction" /\ req.id \in seen[got[p].at].mempool
                       /\ q = "mempool" /\ req.id \in OnBranch(seen[got[q].at])
        /\ req.form = "text" /\ Lower[req.id] = req.id /\ throughout("address") =>
             Reply("byaddress") = {req.id}

\* The height shown, unless it is that of an empty index: of one that was empty when
\* the status was read, or of a process that could not read the cursor.
NotFarAbove(height) == Reply("status") = -1 \/ height - Reply("status") <= BatchSize

\* The overview, five statements and the status read last, is in order: while nothing
\* is rolled back, each part is at least as new as the one before, the averages are
\* over the chain it counts or the window, and nothing on it is further above the
\* indexed height it shows than one batch.
OverviewInOrder ==
    /\ Replied("explorer") /\ Grown => NotFarAbove(Reply("stats") - 1)
    /\ Replied("overview") /\ Grown =>
        LET top == Max({-1} \cup { b.height : b \in Reply("blocks") })
            newest == Max({-1} \cup { t.height : t \in Reply("recent") })
        IN  /\ Reply("stats") <= Reply("total")
            /\ Reply("stats") > 1 => Min({Reply("stats"), SampleWindow}) <= Reply("sample")
            /\ Reply("sample") <= Min({Reply("total"), SampleWindow})
            /\ Reply("total") <= top + 1
            /\ top <= newest
            /\ NotFarAbove(newest)
-------------------------------------------------------------------------------
(* The inductive invariant behind these properties, next to that of the tables.   *)

\* The client remembers the versions since its walk began; the last is the current one.
VersionsKept ==
    IF req = Null THEN from = Start /\ got = NoAnswers /\ walk = <<>> /\ seen = <<>>
    ELSE /\ req \in Request
         /\ Len(seen) \in Nat \ {0} /\ DOMAIN seen = 1..Len(seen)
         /\ seen[Len(seen)] = db

\* A status that lags behind version d by no more than a batch, or that of an empty index.
Behind(status, d) ==
    status \in Int /\ (status = -1 \/ d.cursor.height - status <= BatchSize)

\* The answers g to request r for the page at f, of the versions s: those of the
\* handler's statements up to some point, each right for the version it saw, and none
\* of a version older than one before it.
Answered(c, r, s, f, g) ==
    LET H == Handler(r)
        n == Cardinality(DOMAIN g)
    IN  /\ IsFiniteSet(DOMAIN g) /\ n <= Len(H)
        /\ DOMAIN g = { H[i] : i \in 1..n }
        /\ \A i \in 1..n : LET a == g[H[i]] IN
             /\ a.at \in DOMAIN s
             /\ \A j \in 1..i : g[H[j]].at <= a.at
             /\ H[i] # "status" => a.val = Query(c, r, f, g, H[i], s[a.at])
             /\ H[i] = "status" => Behind(a.val, s[a.at])
             /\ i < n => a.val # NotFound

\* The pages of the walk began at begin[1], begin[2], ..., each where the page before
\* it said; the replies before the current one are whole.
Walked(begin) ==
    LET n == Len(walk) IN
    /\ n \in Nat /\ DOMAIN walk = 1..n
    /\ begin[1] = Start /\ begin[n + 1] = from
    /\ \A i \in 1..n :
         /\ Answered(txs, req, seen, begin[i], walk[i])
         /\ Cardinality(DOMAIN walk[i]) = Len(Handler(req)) /\ ~Failed(walk[i])
         /\ NextOf(req, walk[i]) # Null
         /\ begin[i + 1] = NextFrom(req, begin[i], walk[i])
         /\ \A j \in (i + 1)..n : \A p \in DOMAIN walk[i], q \in DOMAIN walk[j] :
              walk[i][p].at <= walk[j][q].at
         /\ \A p \in DOMAIN walk[i], q \in DOMAIN got : walk[i][p].at <= got[q].at

\* The status shown lags behind by what one batch adds, while it is not yet updated, or
\* shows an empty index.
StatusFollows ==
    /\ Behind(published, db)
    /\ ~written => published \in {db.cursor.height, -1}
===============================================================================
