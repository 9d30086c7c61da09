------------------------------ MODULE IndexStore ------------------------------
(***************************************************************************)
(* The tables of the explorer's SQLite index (explorer/store.go) and the   *)
(* three transactions that change them: applyBlocks, rollbackBlock and     *)
(* replaceMempool.  When they are called, and with which blocks, is        *)
(* ChainIndexer's subject: here a batch is any linked run on top of the    *)
(* cursor and a rollback may come at any time.                             *)
(*                                                                         *)
(* The tables are sets of records.  Several of them are derived from one   *)
(* another (spent markers, address history, asset aggregates), written     *)
(* statement by statement and undone by other statements; the properties   *)
(* compare them with what the indexed branch says, defined without any     *)
(* statement at all.                                                       *)
(*                                                                         *)
(* Definitions whose name starts with Slip are wrong variants of the       *)
(* definition that follows them, used to test the properties.              *)
(***************************************************************************)
EXTENDS Integers, Sequences, FiniteSets, FiniteSetsExt, Functions

CONSTANTS
    Block, NoBlock, Height, Prev,   \* the block tree, as in ChainIndexer
    BatchSize,
    Tx,         \* transactions
    Vin,        \* Vin[t]: inputs, [prev, coinbase, issuance]
    Vout,       \* Vout[t]: the address each output pays, Null if none
    Fee,        \* Fee[t]: explicit policy-asset fee, 0 if none
    Null,       \* SQL NULL
    FastMerkle, \* FastMerkle[<<entropy, tag>>]: the identifier hashed from them
    Pending,    \* what a node's mempool may hold: sets of transactions
    Contents    \* the ways to fill the blocks with transactions

(***************************************************************************)
(* What a node's validation guarantees of the blocks it hands out, for the *)
(* contents c of the blocks and a branch B of the tree.                    *)
(***************************************************************************)

IsBranch(B) ==
    /\ \A b \in B : Prev[b] \in B \cup {NoBlock}
    /\ \A a, b \in B : Height[a] = Height[b] => a = b

\* Where each transaction of the branch is: <<block, position>>.
PlacesIn(c, B) == UNION { { <<b, p>> : p \in DOMAIN c[b] } : b \in B }
TxIn(c, q) == c[q[1]][q[2]]
HeightAt(q) == Height[q[1]]

EarlierPlace(q, r) == HeightAt(q) < HeightAt(r) \/ (q[1] = r[1] /\ q[2] < r[2])

\* The inputs at the places P: <<place, vin>>.
InputsIn(c, P) == UNION { { <<q, v>> : v \in DOMAIN Vin[TxIn(c, q)] } : q \in P }
PrevIn(c, i) == Vin[TxIn(c, i[1])][i[2]].prev
IssuanceIn(c, i) == Vin[TxIn(c, i[1])][i[2]].issuance

\* The inputs that issue an asset, for the first time or again.
IssuingIn(c, P) == { i \in InputsIn(c, P) : IssuanceIn(c, i) # Null }
OriginsIn(c, P) == { i \in IssuingIn(c, P) : ~IssuanceIn(c, i).reissuance }
SameAsset(c, i, j) == IssuanceIn(c, i).asset = IssuanceIn(c, j).asset

\* No transaction is twice on a branch; every input but a coinbase's spends an
\* output made before it, and no two spend the same; an asset has one origin, and
\* is only reissued where it has one.
Consensus(c, B) ==
    LET places == PlacesIn(c, B)
        spending == { i \in InputsIn(c, places) : PrevIn(c, i) # Null }
    IN  /\ \A q, r \in places : TxIn(c, q) = TxIn(c, r) => q = r
        /\ \A i \in spending : \E q \in places :
              /\ EarlierPlace(q, i[1])
              /\ \E o \in DOMAIN Vout[TxIn(c, q)] : PrevIn(c, i) = <<TxIn(c, q), o>>
        /\ \A i, j \in spending : PrevIn(c, i) = PrevIn(c, j) => i = j
        /\ \A i, j \in OriginsIn(c, places) : SameAsset(c, i, j) => i = j
        /\ \A i \in IssuingIn(c, places) : \E j \in OriginsIn(c, places) : SameAsset(c, i, j)

ASSUME ConstantsAssumption ==
    /\ NoBlock \notin Block
    /\ \A b \in Block : Prev[b] \in Block \cup {NoBlock}
    /\ \A b \in Block : Height[b] = IF Prev[b] = NoBlock THEN 0 ELSE Height[Prev[b]] + 1
    /\ \A b \in Block : Height[b] \in Nat
    /\ BatchSize \in Nat

\* Lists are finite; SQL NULL is neither an outpoint nor a spent marker, an amount
\* nor an identifier; a blinded amount is not printed.
ASSUME TransactionsAssumption ==
    /\ \A t \in Tx :
         /\ Len(Vin[t]) \in Nat /\ DOMAIN Vin[t] = 1..Len(Vin[t])
         /\ Len(Vout[t]) \in Nat /\ DOMAIN Vout[t] = 1..Len(Vout[t])
         /\ Fee[t] \in Nat
         /\ \A o \in DOMAIN Vout[t] : Null # <<t, o>>
         /\ \A v \in DOMAIN Vin[t], b \in Block :
              Null # [txid |-> t, vin |-> v, height |-> Height[b]]
         /\ \A v \in DOMAIN Vin[t] : LET i == Vin[t][v].issuance IN i # Null =>
              /\ i.amount # Null => i.amount \in Nat /\ ~i.blinded
              /\ i.token # Null => i.token \in Nat /\ ~i.tokenBlinded
    /\ Null # 0
    /\ \A k \in DOMAIN FastMerkle : FastMerkle[k] # Null

ASSUME ContentsAssumption ==
    \A c \in Contents :
        /\ \A b \in Block :
             /\ Len(c[b]) \in Nat /\ DOMAIN c[b] = 1..Len(c[b])
             /\ \A p \in DOMAIN c[b] : c[b][p] \in Tx
        /\ \A B \in SUBSET Block : IsBranch(B) => Consensus(c, B)

VARIABLES
    txs,        \* txs[b]: the transactions of block b (never changes)
    db          \* the tables

vars == <<txs, db>>

-------------------------------------------------------------------------------
(* insertIssuance *)

\* The identifiers Elements derives from an issuance's entropy.  The node may
\* report an entropy that is no identifier, of which nothing can be derived.
Derive(entropy, tag) ==
    IF <<entropy, tag>> \in DOMAIN FastMerkle THEN FastMerkle[<<entropy, tag>>] ELSE Null
AssetIDFromEntropy(entropy) == Derive(entropy, 0)
SlipReissuanceTokenFromEntropy(entropy, confidential) == Derive(entropy, 1)
ReissuanceTokenFromEntropy(entropy, confidential) == Derive(entropy, IF confidential THEN 2 ELSE 1)

DerivationVerified(i) ==
    LET derived == AssetIDFromEntropy(i.entropy)
        token == ReissuanceTokenFromEntropy(i.entropy, i.blinded)
    IN  derived # Null /\ derived = i.asset /\ token # Null /\ token = i.tokenId

\* An absent amount without a commitment is an explicit zero; with one, unknown.
AmountSats(amount, blinded) ==
    IF amount # Null THEN amount ELSE IF blinded THEN Null ELSE 0

IssuingInputs(t) == { v \in DOMAIN Vin[t] : Vin[t][v].issuance # Null }

IssuanceRow(t, v, h) ==
    LET i == Vin[t][v].issuance IN
    [txid |-> t, vin |-> v, asset |-> i.asset, reissuance |-> i.reissuance, height |-> h,
     amount |-> AmountSats(i.amount, i.blinded), token |-> AmountSats(i.token, i.tokenBlinded)]

\* INSERT INTO assets ... ON CONFLICT(asset_id) DO NOTHING; the aggregates keep
\* their column defaults until refreshAssets.
AssetRow(t, v, h) ==
    LET i == Vin[t][v].issuance IN
    [asset |-> i.asset, tokenId |-> i.tokenId, txid |-> t, vin |-> v, height |-> h,
     confidential |-> i.blinded, verified |-> DerivationVerified(i),
     issued |-> Null, tokens |-> Null, issuances |-> 1, reissuances |-> 0,
     confidentialReissuance |-> FALSE]

NewAssets(t, h, assets) ==
    { AssetRow(t, v, h) : v \in { w \in IssuingInputs(t) :
        /\ ~Vin[t][w].issuance.reissuance
        /\ \A a \in assets : a.asset # Vin[t][w].issuance.asset } }

-------------------------------------------------------------------------------
(* insertTransaction *)

IsCoinbase(t) == Len(Vin[t]) > 0 /\ Vin[t][1].coinbase

TxFee(t) == IF IsCoinbase(t) THEN 0 ELSE Fee[t]

\* UPDATE outputs SET spent_... WHERE txid = ? AND vout = ?
MarkSpent(outputs, t, h) ==
    { LET by == { v \in DOMAIN Vin[t] : Vin[t][v].prev = <<o.txid, o.vout>> }
      IN  IF by = {} THEN o
          ELSE [o EXCEPT !.spent = [txid |-> t, vin |-> Max(by), height |-> h]]
      : o \in outputs }

InsertTransaction(d, b, pos) ==
    LET t == txs[b][pos]
        h == Height[b]
    IN [d EXCEPT
         !.transactions = @ \cup {[txid |-> t, block |-> b, height |-> h, position |-> pos]},
         !.inputs = @ \cup
            { [txid |-> t, vin |-> v, prev |-> Vin[t][v].prev, height |-> h] : v \in DOMAIN Vin[t] },
         !.outputs = MarkSpent(@, t, h) \cup
            { [txid |-> t, vout |-> o, address |-> Vout[t][o], height |-> h, spent |-> Null]
              : o \in DOMAIN Vout[t] },
         !.issuances = @ \cup { IssuanceRow(t, v, h) : v \in IssuingInputs(t) },
         !.assets = @ \cup NewAssets(t, h, @)]

-------------------------------------------------------------------------------
(* insertBlock *)

\* INSERT OR IGNORE INTO address_txs, keyed by (address, txid)
OrIgnore(table, new) ==
    table \cup { r \in new : \A s \in table : <<s.address, s.txid>> # <<r.address, r.txid>> }

\* transactions t JOIN ... ON t.txid
AddressRows(d, pairs) ==
    { [address |-> q[1].address, txid |-> q[1].txid, height |-> q[2].height, position |-> q[2].position]
      : q \in { x \in pairs \X d.transactions : x[1].txid = x[2].txid } }

PaidTo(d, h) ==
    { [address |-> o.address, txid |-> o.txid]
      : o \in { x \in d.outputs : x.height = h /\ x.address # Null } }

SlipSpentFrom(d, h) == {}
SpentFrom(d, h) ==
    { [address |-> q[2].address, txid |-> q[1].txid]
      : q \in { x \in d.inputs \X d.outputs :
                  /\ x[1].height = h
                  /\ x[1].prev = <<x[2].txid, x[2].vout>>
                  /\ x[2].address # Null } }

WithAddresses(d, h) ==
    LET paid == OrIgnore(d.addressTxs, AddressRows(d, PaidTo(d, h)))
    IN  [d EXCEPT !.addressTxs = OrIgnore(paid, AddressRows(d, SpentFrom(d, h)))]

SlipFeesOf(b) ==
    LET sum[pos \in 0..Len(txs[b])] == IF pos = 0 THEN 0 ELSE TxFee(txs[b][pos])
    IN  sum[Len(txs[b])]
FeesOf(b) ==
    LET sum[pos \in 0..Len(txs[b])] == IF pos = 0 THEN 0 ELSE sum[pos - 1] + TxFee(txs[b][pos])
    IN  sum[Len(txs[b])]

\* The loop over the transactions of a block.
Filled(d, b) ==
    LET filled[pos \in 0..Len(txs[b])] ==
            IF pos = 0 THEN d ELSE InsertTransaction(filled[pos - 1], b, pos)
    IN  filled[Len(txs[b])]

InsertBlock(d, b) ==
    LET row == [height |-> Height[b], hash |-> b, fees |-> FeesOf(b)]
    IN  WithAddresses([Filled(d, b) EXCEPT !.blocks = @ \cup {row}], Height[b])

-------------------------------------------------------------------------------
(* refreshAssets: the aggregates of the assets in ids, from the issuances *)

SumOrNull(amount) ==    \* amount[row]
    IF \E r \in DOMAIN amount : amount[r] = Null THEN Null ELSE SumFunction(amount)

Refreshed(a, rows) ==
    LET again == { r \in rows : r.reissuance }
    IN [a EXCEPT
         !.issued = SumOrNull([r \in rows |-> r.amount]),
         !.tokens = SumOrNull([r \in rows |-> r.token]),
         !.issuances = Cardinality(rows),
         !.reissuances = Cardinality(again),
         !.confidentialReissuance = again # {} /\ \E r \in rows : r.amount = Null]

RefreshAssets(d, ids) ==
    [d EXCEPT !.assets =
        { LET rows == { r \in d.issuances : r.asset = a.asset }
          IN  IF a.asset \in ids /\ rows # {} THEN Refreshed(a, rows) ELSE a
          : a \in @ }]

-------------------------------------------------------------------------------
(* The transactions *)

NoCursor == [height |-> -1, hash |-> NoBlock]

EmptyDb ==
    [blocks |-> {}, transactions |-> {}, inputs |-> {}, outputs |-> {}, issuances |-> {},
     assets |-> {}, addressTxs |-> {}, mempool |-> {}, cursor |-> NoCursor, genesis |-> NoBlock]

AssetsAt(d, heights) == { r.asset : r \in { x \in d.issuances : x.height \in heights } }

\* The runs of n linked blocks that build on block p.
RunsOn(p, n) ==
    { run \in [1..n -> Block] :
        \A i \in 1..n : Prev[run[i]] = IF i = 1 THEN p ELSE run[i - 1] }

\* The loop over the blocks of a batch.
Inserted(d, run, n) ==
    LET inserted[i \in 0..n] == IF i = 0 THEN d ELSE InsertBlock(inserted[i - 1], run[i])
    IN  inserted[n]

ApplyBlocks ==
    \E n \in 1..BatchSize : \E run \in RunsOn(db.cursor.hash, n) :
        LET filled == Inserted(db, run, n)
            touched == AssetsAt(filled, { Height[run[i]] : i \in 1..n })
        IN  /\ db' = [RefreshAssets(filled, touched) EXCEPT
                        !.cursor = [height |-> Height[run[n]], hash |-> run[n]],
                        !.genesis = IF Height[run[1]] = 0 THEN run[1] ELSE @]
            /\ UNCHANGED txs

\* UPDATE outputs SET spent_... = NULL WHERE spent_height = ?
SlipUnmark(outputs, h) == outputs
Unmark(outputs, h) ==
    { IF o.spent # Null /\ o.spent.height = h THEN [o EXCEPT !.spent = Null] ELSE o
      : o \in outputs }

\* DELETE FROM ... WHERE height = ?
NotAt(rows, h) == { r \in rows : r.height # h }

DeleteHeight(d, h) ==
    [d EXCEPT
      !.outputs = NotAt(Unmark(@, h), h),
      !.addressTxs = NotAt(@, h),
      !.assets = NotAt(@, h),
      !.issuances = NotAt(@, h),
      !.inputs = NotAt(@, h),
      !.transactions = NotAt(@, h),
      !.blocks = NotAt(@, h)]

SlipTouchedByRollback(h) == AssetsAt(DeleteHeight(db, h), {h})
TouchedByRollback(h) == AssetsAt(db, {h})

RollbackBlock ==
    LET h == db.cursor.height
        left == RefreshAssets(DeleteHeight(db, h), TouchedByRollback(h))
        top == CHOOSE r \in left.blocks : \A s \in left.blocks : s.height <= r.height
    IN  /\ h >= 0
        /\ db' = [left EXCEPT !.cursor =
                    IF left.blocks = {} THEN NoCursor
                    ELSE [height |-> top.height, hash |-> top.hash]]
        /\ UNCHANGED txs

\* The rows of the node's mempool replace the table.
ReplaceMempool ==
    /\ \E entries \in Pending : db' = [db EXCEPT !.mempool = entries]
    /\ UNCHANGED txs

Init ==
    /\ txs \in Contents
    /\ db = EmptyDb

Next == ApplyBlocks \/ RollbackBlock \/ ReplaceMempool

Spec == Init /\ [][Next]_vars
-------------------------------------------------------------------------------
(* What the transactions at the places P of a branch make of the tables, without  *)
(* any history; c is the contents of the blocks.                              *)

\* The input that spends an output, if any.
SpentBy(c, P, t, o) ==
    LET by == { i \in InputsIn(c, P) : PrevIn(c, i) = <<t, o>> }
    IN  IF by = {} THEN Null
        ELSE LET i == CHOOSE i \in by : TRUE
             IN  [txid |-> TxIn(c, i[1]), vin |-> i[2], height |-> HeightAt(i[1])]

OutputRow(c, P, q, o) ==
    [txid |-> TxIn(c, q), vout |-> o, address |-> Vout[TxIn(c, q)][o], height |-> HeightAt(q),
     spent |-> SpentBy(c, P, TxIn(c, q), o)]
OutputsOf(c, P) == UNION { { OutputRow(c, P, q, o) : o \in DOMAIN Vout[TxIn(c, q)] } : q \in P }

TransactionsOf(c, P) ==
    { [txid |-> TxIn(c, q), block |-> q[1], height |-> HeightAt(q), position |-> q[2]] : q \in P }

InputsOf(c, P) ==
    { [txid |-> TxIn(c, i[1]), vin |-> i[2], prev |-> PrevIn(c, i), height |-> HeightAt(i[1])]
      : i \in InputsIn(c, P) }

IssuanceRowsOf(c, P) ==
    UNION { { IssuanceRow(TxIn(c, q), v, HeightAt(q)) : v \in IssuingInputs(TxIn(c, q)) } : q \in P }

\* The addresses a transaction pays or spends from.
AddressesOf(t) ==
    { Vout[t][o] : o \in DOMAIN Vout[t] } \cup
    { Vout[Vin[t][v].prev[1]][Vin[t][v].prev[2]]
      : v \in { w \in DOMAIN Vin[t] : Vin[t][w].prev # Null } }

AddressTxsOf(c, P) ==
    UNION { { [address |-> a, txid |-> TxIn(c, q), height |-> HeightAt(q), position |-> q[2]]
              : a \in AddressesOf(TxIn(c, q)) \ {Null} } : q \in P }

\* The explicit fees of the transactions of a block; a coinbase collects them.
FeesIn(c, b) ==
    SumFunction([p \in DOMAIN c[b] |-> IF IsCoinbase(c[b][p]) THEN 0 ELSE Fee[c[b][p]]])

\* The issuances of an asset, and the assets with their aggregates.
IssuancesIn(c, P, asset) == { i \in IssuingIn(c, P) : IssuanceIn(c, i).asset = asset }

AssetRowsOf(c, P) ==
    { Refreshed(AssetRow(TxIn(c, i[1]), i[2], HeightAt(i[1])),
                { r \in IssuanceRowsOf(c, P) : r.asset = IssuanceIn(c, i).asset })
      : i \in OriginsIn(c, P) }

\* The identifiers the chain's rules give: the token's tag tells whether the
\* issued amount is blinded.
HonestIds(i) ==
    LET tag == IF i.blinded THEN 2 ELSE 1
    IN  /\ {<<i.entropy, 0>>, <<i.entropy, tag>>} \subseteq DOMAIN FastMerkle
        /\ i.asset = FastMerkle[<<i.entropy, 0>>]
        /\ i.tokenId = FastMerkle[<<i.entropy, tag>>]

Explicit(amount) == IF amount = Null THEN 0 ELSE amount

\* The indexed branch and its places.
Indexed == { r.hash : r \in db.blocks }
Places == PlacesIn(txs, Indexed)

-------------------------------------------------------------------------------
(* Properties *)

\* Every output is marked spent by exactly the input of the indexed branch that
\* spends it: rollbackBlock restores what applyBlocks marked, and nothing else.
SpentMarkersExact == db.outputs = OutputsOf(txs, Places)

\* The blocks are the branch from the recorded genesis block to the cursor, and
\* transactions, inputs and the history of every address are those of that branch.
HistoryExact ==
    /\ db.cursor.hash \in Indexed \cup {NoBlock}
    /\ Indexed # {} => db.genesis \in Indexed /\ Height[db.genesis] = 0
    /\ Cardinality(Indexed) = db.cursor.height + 1
    /\ \A b \in Indexed : Prev[b] \in Indexed \cup {NoBlock}
    /\ db.transactions = TransactionsOf(txs, Places)
    /\ db.inputs = InputsOf(txs, Places)
    /\ db.addressTxs = AddressTxsOf(txs, Places)

\* The supplies shown for an asset and its token are the sums over its issuances on
\* the branch, and are withheld exactly when one of them is blinded, after any
\* reorganisation; its origin is the issuance of this branch even when another
\* transaction of another branch issued the same asset, and it counts as verified
\* when the token agrees with how that issuance was made.
AssetsExact ==
    /\ { a.asset : a \in db.assets } = { IssuanceIn(txs, i).asset : i \in IssuingIn(txs, Places) }
    /\ \A a \in db.assets :
         LET all == IssuancesIn(txs, Places, a.asset)
             At(i) == IssuanceIn(txs, i)
             origin == CHOOSE i \in all : ~At(i).reissuance
         IN
         /\ <<a.txid, a.vin, a.height>> = <<TxIn(txs, origin[1]), origin[2], HeightAt(origin[1])>>
         /\ a.confidential = At(origin).blinded
         /\ a.verified = HonestIds(At(origin))
         /\ a.issuances = Cardinality(all)
         /\ a.reissuances = Cardinality({ i \in all : At(i).reissuance })
         /\ a.issued = IF \E i \in all : At(i).blinded THEN Null
                       ELSE SumFunction([i \in all |-> Explicit(At(i).amount)])
         /\ a.tokens = IF \E i \in all : At(i).tokenBlinded THEN Null
                       ELSE SumFunction([i \in all |-> Explicit(At(i).token)])

\* fees_sats is the sum of the explicit policy-asset fees of the block.
FeesExact == \A r \in db.blocks : r.fees = FeesIn(txs, r.hash)

-------------------------------------------------------------------------------
(* The inductive invariant behind these properties.                           *)

\* The rows of blocks are those of a branch whose top is the cursor.
BranchStored ==
    /\ txs \in Contents
    /\ DOMAIN db = DOMAIN EmptyDb
    /\ Indexed \subseteq Block /\ IsBranch(Indexed) /\ IsFiniteSet(Indexed)
    /\ \A r \in db.blocks : r = [height |-> Height[r.hash], hash |-> r.hash, fees |-> r.fees]
    /\ IF Indexed = {} THEN db.cursor = NoCursor
       ELSE /\ db.cursor.hash \in Indexed
            /\ db.cursor = [height |-> Height[db.cursor.hash], hash |-> db.cursor.hash]
            /\ \A b \in Indexed : Height[b] <= db.cursor.height

IInv ==
    /\ BranchStored
    /\ SpentMarkersExact
    /\ HistoryExact
    /\ FeesExact
    /\ db.issuances = IssuanceRowsOf(txs, Places)
    /\ db.assets = AssetRowsOf(txs, Places)
===============================================================================
