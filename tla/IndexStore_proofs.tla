--------------------------- MODULE IndexStore_proofs ---------------------------
(***************************************************************************)
(* The tables of the index are those of the indexed branch, for every      *)
(* block tree, all transactions and every contents of the blocks that the  *)
(* rules of the chain allow.                                               *)
(***************************************************************************)
EXTENDS IndexStore, Lemmas, TLAPS

-------------------------------------------------------------------------------
(* Places of a branch *)

\* A place of a branch holds a transaction.
LEMMA PlaceFacts ==
    ASSUME txs \in Contents, NEW B \in SUBSET Block, NEW q \in PlacesIn(txs, B)
    PROVE  /\ q[1] \in B /\ q[2] \in DOMAIN txs[q[1]] /\ q = <<q[1], q[2]>>
           /\ q[2] \in Nat
           /\ TxIn(txs, q) \in Tx
           /\ HeightAt(q) \in Nat
  <1>1. PICK b \in B : q \in { <<b, p>> : p \in DOMAIN txs[b] }
    BY DEF PlacesIn
  <1>2. PICK p \in DOMAIN txs[b] : q = <<b, p>>
    BY <1>1
  <1>3. q[1] = b /\ q[2] = p /\ b \in Block
    BY <1>2
  <1>4. p \in Nat /\ txs[b][p] \in Tx
    BY <1>3, ContentsAssumption
  <1>5. Height[b] \in Nat
    BY <1>3, ConstantsAssumption
  <1> QED
    BY <1>1, <1>2, <1>3, <1>4, <1>5 DEF TxIn, HeightAt

LEMMA PlaceIn ==
    ASSUME NEW B, NEW b \in B, NEW p \in DOMAIN txs[b]
    PROVE  <<b, p>> \in PlacesIn(txs, B)
  BY DEF PlacesIn

\* The inputs at some places are the inputs of their transactions.
LEMMA InputsAre ==
    ASSUME NEW P, NEW i
    PROVE  i \in InputsIn(txs, P) <=>
             \E q \in P : \E v \in DOMAIN Vin[TxIn(txs, q)] : i = <<q, v>>
  BY DEF InputsIn

LEMMA InputFacts ==
    ASSUME NEW P, NEW i \in InputsIn(txs, P)
    PROVE  /\ i[1] \in P /\ i[2] \in DOMAIN Vin[TxIn(txs, i[1])] /\ i = <<i[1], i[2]>>
           /\ PrevIn(txs, i) = Vin[TxIn(txs, i[1])][i[2]].prev
  <1>1. PICK q \in P : \E v \in DOMAIN Vin[TxIn(txs, q)] : i = <<q, v>>
    BY InputsAre
  <1>2. PICK v \in DOMAIN Vin[TxIn(txs, q)] : i = <<q, v>>
    BY <1>1
  <1>3. i[1] = q /\ i[2] = v
    BY <1>2
  <1> QED
    BY <1>1, <1>2, <1>3 DEF PrevIn

\* What the rules of the chain say of a branch, one by one.
LEMMA BranchRules ==
    ASSUME txs \in Contents, NEW B \in SUBSET Block, IsBranch(B)
    PROVE  /\ \A q, r \in PlacesIn(txs, B) : TxIn(txs, q) = TxIn(txs, r) => q = r
           /\ \A i \in InputsIn(txs, PlacesIn(txs, B)) : PrevIn(txs, i) # Null =>
                \E q \in PlacesIn(txs, B) :
                  /\ EarlierPlace(q, i[1])
                  /\ \E o \in DOMAIN Vout[TxIn(txs, q)] : PrevIn(txs, i) = <<TxIn(txs, q), o>>
           /\ \A i, j \in InputsIn(txs, PlacesIn(txs, B)) :
                PrevIn(txs, i) = PrevIn(txs, j) /\ PrevIn(txs, i) # Null => i = j
  <1>1. Consensus(txs, B)
    BY ContentsAssumption
  <1> QED
    BY <1>1 DEF Consensus

LEMMA InputsMonotone ==
    ASSUME NEW P, NEW Q, P \subseteq Q
    PROVE  InputsIn(txs, P) \subseteq InputsIn(txs, Q)
  BY DEF InputsIn

-------------------------------------------------------------------------------
(* insertTransaction: the outputs *)

\* The next place q after the places P of a branch B.
NextPlace(B, P, q) ==
    /\ B \in SUBSET Block /\ IsBranch(B)
    /\ P \subseteq PlacesIn(txs, B)
    /\ q \in PlacesIn(txs, B) /\ q \notin P
    /\ \A r \in P : ~EarlierPlace(q, r)

\* What MarkSpent does to one row.
Marked(x, t, h) ==
    LET by == { v \in DOMAIN Vin[t] : Vin[t][v].prev = <<x.txid, x.vout>> }
    IN  IF by = {} THEN x
        ELSE [x EXCEPT !.spent = [txid |-> t, vin |-> Max(by), height |-> h]]

LEMMA MaxOfOne ==
    ASSUME NEW v \in Nat
    PROVE  Max({v}) = v
  BY DEF Max

\* The transaction at q marks a row as the branch with q has it.
LEMMA MarkedRow ==
    ASSUME txs \in Contents, NEW B, NEW P, NEW q, NextPlace(B, P, q),
           NEW r \in P, NEW o \in DOMAIN Vout[TxIn(txs, r)]
    PROVE  Marked(OutputRow(txs, P, r, o), TxIn(txs, q), HeightAt(q)) = OutputRow(txs, P \cup {q}, r, o)
  <1> DEFINE t == TxIn(txs, q)
             out == <<TxIn(txs, r), o>>
             by == { v \in DOMAIN Vin[t] : Vin[t][v].prev = out }
             before == { i \in InputsIn(txs, P) : PrevIn(txs, i) = out }
             after == { i \in InputsIn(txs, P \cup {q}) : PrevIn(txs, i) = out }
             row == OutputRow(txs, P, r, o)
  <1>1. B \in SUBSET Block /\ IsBranch(B) /\ P \cup {q} \subseteq PlacesIn(txs, B)
    BY DEF NextPlace
  <1>2. t \in Tx /\ TxIn(txs, r) \in Tx
    BY <1>1, PlaceFacts
  <1>3. out # Null
    BY <1>2, TransactionsAssumption
  <1>4. InputsIn(txs, P \cup {q}) \subseteq InputsIn(txs, PlacesIn(txs, B))
    BY <1>1, InputsMonotone
  <1>5. row.txid = TxIn(txs, r) /\ row.vout = o
    BY DEF OutputRow
  <1>6. after = before \cup { <<q, v>> : v \in by }
    <2>1. ASSUME NEW i \in after PROVE i \in before \cup { <<q, v>> : v \in by }
      <3>1. i[1] \in P \cup {q} /\ i[2] \in DOMAIN Vin[TxIn(txs, i[1])] /\ i = <<i[1], i[2]>>
            /\ out = Vin[TxIn(txs, i[1])][i[2]].prev
        BY <2>1, InputFacts
      <3>2. CASE i[1] = q
        BY <3>1, <3>2
      <3>3. CASE i[1] \in P
        <4>1. i \in InputsIn(txs, P)
          BY <3>1, <3>3, InputsAre
        <4> QED
          BY <4>1, <2>1
      <3> QED
        BY <3>1, <3>2, <3>3
    <2>2. ASSUME NEW i \in before PROVE i \in after
      BY <2>2, InputsMonotone
    <2>3. ASSUME NEW v \in by PROVE <<q, v>> \in after
      <3>1. <<q, v>> \in InputsIn(txs, P \cup {q})
        BY InputsAre
      <3>2. PrevIn(txs, <<q, v>>) = out
        BY <3>1, InputFacts
      <3> QED
        BY <3>1, <3>2
    <2> QED
      BY <2>1, <2>2, <2>3
  <1>7. CASE by = {}
    <2>1. after = before
      BY <1>6, <1>7
    <2>2. SpentBy(txs, P \cup {q}, TxIn(txs, r), o) = SpentBy(txs, P, TxIn(txs, r), o)
      BY <2>1 DEF SpentBy
    <2>3. Marked(row, t, HeightAt(q)) = row
      BY <1>5, <1>7 DEF Marked
    <2> QED
      BY <2>2, <2>3 DEF OutputRow
  <1>8. CASE by # {}
    <2>1. PICK v \in by : TRUE
      BY <1>8
    <2>2. \A i \in after : i = <<q, v>>
      <3>1. <<q, v>> \in after
        BY <2>1, <1>6
      <3> QED
        BY <3>1, <1>1, <1>3, <1>4, BranchRules
    <2>3. after = {<<q, v>>}
      BY <2>1, <2>2, <1>6
    <2>4. by = {v}
      <3>1. ASSUME NEW w \in by PROVE w = v
        <4>1. <<q, w>> = <<q, v>>
          BY <1>6, <2>2
        <4> QED
          BY <4>1
      <3> QED
        BY <2>1, <3>1
    <2>5. v \in Nat
      BY <1>2, TransactionsAssumption
    <2>6. Max(by) = v
      BY <2>4, <2>5, MaxOfOne
    <2>7. (CHOOSE i \in after : TRUE) = <<q, v>>
      BY <2>3
    <2>8. SpentBy(txs, P \cup {q}, TxIn(txs, r), o) = [txid |-> t, vin |-> v, height |-> HeightAt(q)]
      <3> HIDE DEF after
      <3>1. SpentBy(txs, P \cup {q}, TxIn(txs, r), o) =
              IF after = {} THEN Null
              ELSE LET i == CHOOSE i \in after : TRUE
                   IN  [txid |-> TxIn(txs, i[1]), vin |-> i[2], height |-> HeightAt(i[1])]
        BY DEF SpentBy, after
      <3> QED
        BY <3>1, <2>3, <2>7
    <2>9. Marked(row, t, HeightAt(q)) =
            [row EXCEPT !.spent = [txid |-> t, vin |-> v, height |-> HeightAt(q)]]
      BY <1>5, <1>8, <2>6 DEF Marked
    <2> QED
      BY <2>8, <2>9 DEF OutputRow
  <1> QED
    BY <1>7, <1>8

\* The outputs of the transaction at q are not spent yet.
LEMMA NewRow ==
    ASSUME txs \in Contents, NEW B, NEW P, NEW q, NextPlace(B, P, q),
           NEW o \in DOMAIN Vout[TxIn(txs, q)]
    PROVE  SpentBy(txs, P \cup {q}, TxIn(txs, q), o) = Null
  <1>1. B \in SUBSET Block /\ IsBranch(B) /\ P \cup {q} \subseteq PlacesIn(txs, B)
    BY DEF NextPlace
  <1>2. ASSUME NEW i \in InputsIn(txs, P \cup {q}), PrevIn(txs, i) = <<TxIn(txs, q), o>>
        PROVE  FALSE
    <2>1. i \in InputsIn(txs, PlacesIn(txs, B)) /\ i[1] \in P \cup {q}
      BY <1>1, InputsMonotone, InputFacts
    <2>2. PrevIn(txs, i) # Null
      <3>1. TxIn(txs, q) \in Tx
        BY <1>1, PlaceFacts
      <3> QED
        BY <3>1, <1>2, TransactionsAssumption
    <2>3. PICK r \in PlacesIn(txs, B) :
            /\ EarlierPlace(r, i[1])
            /\ \E p \in DOMAIN Vout[TxIn(txs, r)] : PrevIn(txs, i) = <<TxIn(txs, r), p>>
      BY <1>1, <2>1, <2>2, BranchRules
    <2>4. TxIn(txs, r) = TxIn(txs, q)
      BY <1>2, <2>3
    <2>5. r = q
      BY <1>1, <2>4, BranchRules
    <2>6. ~EarlierPlace(q, q)
      <3>1. HeightAt(q) \in Nat /\ q[2] \in Nat
        BY <1>1, PlaceFacts
      <3> QED
        BY <3>1 DEF EarlierPlace
    <2> QED
      BY <2>1, <2>3, <2>5, <2>6 DEF NextPlace
  <1> QED
    BY <1>2 DEF SpentBy

\* The outputs after insertTransaction are those of the branch with the place.
LEMMA OutputsInserted ==
    ASSUME txs \in Contents, NEW B, NEW P, NEW q, NextPlace(B, P, q)
    PROVE  MarkSpent(OutputsOf(txs, P), TxIn(txs, q), HeightAt(q)) \cup
             { [txid |-> TxIn(txs, q), vout |-> o, address |-> Vout[TxIn(txs, q)][o], height |-> HeightAt(q),
                spent |-> Null] : o \in DOMAIN Vout[TxIn(txs, q)] }
           = OutputsOf(txs, P \cup {q})
  <1> DEFINE t == TxIn(txs, q)
             h == HeightAt(q)
             new == { [txid |-> t, vout |-> o, address |-> Vout[t][o], height |-> h,
                       spent |-> Null] : o \in DOMAIN Vout[t] }
             Row(r, o) == OutputRow(txs, P \cup {q}, r, o)
  <1>1. MarkSpent(OutputsOf(txs, P), t, h) = { Marked(x, t, h) : x \in OutputsOf(txs, P) }
    BY DEF MarkSpent, Marked
  <1>2. { Marked(x, t, h) : x \in OutputsOf(txs, P) }
        = UNION { { Row(r, o) : o \in DOMAIN Vout[TxIn(txs, r)] } : r \in P }
    <2>1. ASSUME NEW x \in OutputsOf(txs, P)
          PROVE  \E r \in P : \E o \in DOMAIN Vout[TxIn(txs, r)] : Marked(x, t, h) = Row(r, o)
      <3>1. PICK r \in P : \E o \in DOMAIN Vout[TxIn(txs, r)] : x = OutputRow(txs, P, r, o)
        BY DEF OutputsOf
      <3> QED
        BY <3>1, MarkedRow
    <2>2. ASSUME NEW r \in P, NEW o \in DOMAIN Vout[TxIn(txs, r)]
          PROVE  \E x \in OutputsOf(txs, P) : Row(r, o) = Marked(x, t, h)
      <3>1. OutputRow(txs, P, r, o) \in OutputsOf(txs, P)
        BY DEF OutputsOf
      <3> QED
        BY <3>1, MarkedRow
    <2> HIDE DEF t, h, Row
    <2> QED
      BY <2>1, <2>2
  <1>3. new = { Row(q, o) : o \in DOMAIN Vout[t] }
    <2>1. \A o \in DOMAIN Vout[t] :
            Row(q, o) = [txid |-> t, vout |-> o, address |-> Vout[t][o], height |-> h, spent |-> Null]
      BY NewRow DEF OutputRow
    <2> HIDE DEF Row, t, h
    <2> QED
      BY <2>1
  <1>4. OutputsOf(txs, P \cup {q}) = (UNION { { Row(r, o) : o \in DOMAIN Vout[TxIn(txs, r)] } : r \in P })
                                \cup { Row(q, o) : o \in DOMAIN Vout[t] }
    <2>1. OutputsOf(txs, P \cup {q}) =
            UNION { { Row(r, o) : o \in DOMAIN Vout[TxIn(txs, r)] } : r \in P \cup {q} }
      BY DEF OutputsOf
    <2> DEFINE Of(r) == { Row(r, o) : o \in DOMAIN Vout[TxIn(txs, r)] }
    <2> HIDE DEF Of
    <2>2. UNION { Of(r) : r \in P \cup {q} } = (UNION { Of(r) : r \in P }) \cup Of(q)
      OBVIOUS
    <2> QED
      BY <2>1, <2>2 DEF Of
  <1> QED
    BY <1>1, <1>2, <1>3, <1>4

-------------------------------------------------------------------------------
(* insertTransaction: all tables but assets *)

\* The tables insertTransaction fills, for the places P.
Rows(d, P) ==
    /\ DOMAIN d = DOMAIN EmptyDb
    /\ d.outputs = OutputsOf(txs, P)
    /\ d.transactions = TransactionsOf(txs, P)
    /\ d.inputs = InputsOf(txs, P)
    /\ d.issuances = IssuanceRowsOf(txs, P)

\* The tables it leaves alone.
SameRest(d, e) ==
    /\ d.blocks = e.blocks /\ d.addressTxs = e.addressTxs
    /\ d.mempool = e.mempool /\ d.cursor = e.cursor /\ d.genesis = e.genesis

LEMMA TableNames ==
    DOMAIN EmptyDb = {"blocks", "transactions", "inputs", "outputs", "issuances", "assets",
                      "addressTxs", "mempool", "cursor", "genesis"}
  BY DEF EmptyDb

\* What the transaction at a place q adds to the tables d.
TransactionAdded(d, e, q) ==
    LET t == TxIn(txs, q)
        h == HeightAt(q)
    IN  /\ DOMAIN e = DOMAIN EmptyDb
        /\ SameRest(e, d)
        /\ e.transactions = d.transactions \cup
             {[txid |-> t, block |-> q[1], height |-> h, position |-> q[2]]}
        /\ e.inputs = d.inputs \cup
             { [txid |-> t, vin |-> v, prev |-> Vin[t][v].prev, height |-> h] : v \in DOMAIN Vin[t] }
        /\ e.outputs = MarkSpent(d.outputs, t, h) \cup
             { [txid |-> t, vout |-> o, address |-> Vout[t][o], height |-> h, spent |-> Null]
               : o \in DOMAIN Vout[t] }
        /\ e.issuances = d.issuances \cup { IssuanceRow(t, v, h) : v \in IssuingInputs(t) }
        /\ e.assets = d.assets \cup NewAssets(t, h, d.assets)

LEMMA InsertTransactionFields ==
    ASSUME NEW d, DOMAIN d = DOMAIN EmptyDb, NEW b, NEW pos
    PROVE  TransactionAdded(d, InsertTransaction(d, b, pos), <<b, pos>>)
  <1>1. TxIn(txs, <<b, pos>>) = txs[b][pos] /\ HeightAt(<<b, pos>>) = Height[b]
    BY DEF TxIn, HeightAt
  <1>2. InsertTransaction(d, b, pos) =
          LET t == TxIn(txs, <<b, pos>>)
              h == HeightAt(<<b, pos>>)
          IN [d EXCEPT
               !.transactions = @ \cup {[txid |-> t, block |-> b, height |-> h, position |-> pos]},
               !.inputs = @ \cup
                  { [txid |-> t, vin |-> v, prev |-> Vin[t][v].prev, height |-> h] : v \in DOMAIN Vin[t] },
               !.outputs = MarkSpent(@, t, h) \cup
                  { [txid |-> t, vout |-> o, address |-> Vout[t][o], height |-> h, spent |-> Null]
                    : o \in DOMAIN Vout[t] },
               !.issuances = @ \cup { IssuanceRow(t, v, h) : v \in IssuingInputs(t) },
               !.assets = @ \cup NewAssets(t, h, @)]
    BY <1>1, Zenon DEF InsertTransaction
  <1> QED
    BY <1>2, TableNames DEF SameRest, TransactionAdded

LEMMA InputsInserted ==
    ASSUME NEW P, NEW q
    PROVE  InputsOf(txs, P \cup {q}) = InputsOf(txs, P) \cup
             { [txid |-> TxIn(txs, q), vin |-> v, prev |-> Vin[TxIn(txs, q)][v].prev, height |-> HeightAt(q)]
               : v \in DOMAIN Vin[TxIn(txs, q)] }
  <1> DEFINE Row(i) == [txid |-> TxIn(txs, i[1]), vin |-> i[2], prev |-> PrevIn(txs, i), height |-> HeightAt(i[1])]
             new == { <<q, v>> : v \in DOMAIN Vin[TxIn(txs, q)] }
  <1>1. InputsIn(txs, P \cup {q}) = InputsIn(txs, P) \cup new
    BY DEF InputsIn
  <1>2. InputsOf(txs, P \cup {q}) = InputsOf(txs, P) \cup { Row(i) : i \in new }
    <2>1. InputsOf(txs, P \cup {q}) = { Row(i) : i \in InputsIn(txs, P \cup {q}) }
          /\ InputsOf(txs, P) = { Row(i) : i \in InputsIn(txs, P) }
      BY DEF InputsOf
    <2> HIDE DEF Row, new
    <2> QED
      BY <1>1, <2>1
  <1>3. \A v : Row(<<q, v>>) =
          [txid |-> TxIn(txs, q), vin |-> v, prev |-> Vin[TxIn(txs, q)][v].prev, height |-> HeightAt(q)]
    BY DEF PrevIn
  <1>4. { Row(i) : i \in new } = { Row(<<q, v>>) : v \in DOMAIN Vin[TxIn(txs, q)] }
    <2> HIDE DEF Row
    <2> QED
      OBVIOUS
  <1> HIDE DEF Row
  <1> QED
    BY <1>2, <1>3, <1>4

LEMMA IssuancesInserted ==
    ASSUME NEW P, NEW q
    PROVE  IssuanceRowsOf(txs, P \cup {q}) = IssuanceRowsOf(txs, P) \cup
             { IssuanceRow(TxIn(txs, q), v, HeightAt(q)) : v \in IssuingInputs(TxIn(txs, q)) }
  <1> DEFINE Of(r) == { IssuanceRow(TxIn(txs, r), v, HeightAt(r)) : v \in IssuingInputs(TxIn(txs, r)) }
  <1>1. IssuanceRowsOf(txs, P \cup {q}) = UNION { Of(r) : r \in P \cup {q} }
        /\ IssuanceRowsOf(txs, P) = UNION { Of(r) : r \in P }
    BY DEF IssuanceRowsOf
  <1> HIDE DEF Of
  <1>2. IssuanceRowsOf(txs, P \cup {q}) = IssuanceRowsOf(txs, P) \cup Of(q)
    BY <1>1
  <1> QED
    BY <1>2 DEF Of

\* One transaction more.
LEMMA InsertTransactionRows ==
    ASSUME txs \in Contents, NEW B, NEW P, NEW b, NEW pos, NextPlace(B, P, <<b, pos>>),
           NEW d, Rows(d, P)
    PROVE  /\ Rows(InsertTransaction(d, b, pos), P \cup {<<b, pos>>})
           /\ SameRest(InsertTransaction(d, b, pos), d)
  <1> DEFINE q == <<b, pos>>
             e == InsertTransaction(d, b, pos)
  <1>1. DOMAIN d = DOMAIN EmptyDb
    BY DEF Rows
  <1>2. TransactionAdded(d, e, q)
    BY <1>1, InsertTransactionFields
  <1> HIDE DEF e, q
  <1>4. e.outputs = OutputsOf(txs, P \cup {q})
    <2>1. NextPlace(B, P, q)
      BY DEF q
    <2> QED
      BY <2>1, <1>2, OutputsInserted DEF Rows, TransactionAdded
  <1>5. e.transactions = TransactionsOf(txs, P \cup {q})
    BY <1>2 DEF Rows, TransactionsOf, TransactionAdded
  <1>6. e.inputs = InputsOf(txs, P \cup {q})
    BY <1>2, InputsInserted DEF Rows, TransactionAdded
  <1>7. e.issuances = IssuanceRowsOf(txs, P \cup {q})
    BY <1>2, IssuancesInserted DEF Rows, TransactionAdded
  <1>8. Rows(e, P \cup {q}) /\ SameRest(e, d)
    BY <1>2, <1>4, <1>5, <1>6, <1>7 DEF Rows, TransactionAdded
  <1> QED
    BY <1>8 DEF e, q

-------------------------------------------------------------------------------
(* insertTransaction: the assets *)

\* What the rules of the chain say of the assets of a branch.
LEMMA OriginRules ==
    ASSUME txs \in Contents, NEW B \in SUBSET Block, IsBranch(B)
    PROVE  /\ \A i, j \in OriginsIn(txs, PlacesIn(txs, B)) : SameAsset(txs, i, j) => i = j
           /\ \A i \in IssuingIn(txs, PlacesIn(txs, B)) :
                \E j \in OriginsIn(txs, PlacesIn(txs, B)) : SameAsset(txs, i, j)
  <1>1. Consensus(txs, B)
    BY ContentsAssumption
  <1> QED
    BY <1>1 DEF Consensus

\* The inputs of a transaction that issue an asset for the first time.
FirstInputs(t) == { v \in IssuingInputs(t) : ~Vin[t][v].issuance.reissuance }

LEMMA IssuingAre ==
    ASSUME NEW P, NEW i
    PROVE  i \in IssuingIn(txs, P) <=>
             \E q \in P : \E v \in IssuingInputs(TxIn(txs, q)) : i = <<q, v>>
  <1>1. \A q, v : IssuanceIn(txs, <<q, v>>) = Vin[TxIn(txs, q)][v].issuance
    BY DEF IssuanceIn
  <1>2. i \in IssuingIn(txs, P) <=> i \in InputsIn(txs, P) /\ IssuanceIn(txs, i) # Null
    BY DEF IssuingIn
  <1> QED
    BY <1>1, <1>2, InputsAre DEF IssuingInputs

LEMMA OriginsAre ==
    ASSUME NEW P, NEW i
    PROVE  i \in OriginsIn(txs, P) <=>
             \E q \in P : \E v \in FirstInputs(TxIn(txs, q)) : i = <<q, v>>
  <1>1. \A q, v : IssuanceIn(txs, <<q, v>>) = Vin[TxIn(txs, q)][v].issuance
    BY DEF IssuanceIn
  <1>2. i \in OriginsIn(txs, P) <=> i \in IssuingIn(txs, P) /\ ~IssuanceIn(txs, i).reissuance
    BY DEF OriginsIn
  <1> QED
    BY <1>1, <1>2, IssuingAre DEF FirstInputs

LEMMA OriginFacts ==
    ASSUME NEW P, NEW i \in OriginsIn(txs, P)
    PROVE  i[1] \in P /\ i[2] \in FirstInputs(TxIn(txs, i[1])) /\ i = <<i[1], i[2]>>
  <1>1. PICK q \in P : \E v \in FirstInputs(TxIn(txs, q)) : i = <<q, v>>
    BY OriginsAre
  <1>2. PICK v \in FirstInputs(TxIn(txs, q)) : i = <<q, v>>
    BY <1>1
  <1>3. i[1] = q /\ i[2] = v
    BY <1>2
  <1> QED
    BY <1>1, <1>2, <1>3

\* The row of an asset as inserted, and with the aggregates of the places P.
OriginRow(i) == AssetRow(TxIn(txs, i[1]), i[2], HeightAt(i[1]))
IssuancesAt(P, asset) == { r \in IssuanceRowsOf(txs, P) : r.asset = asset }
FullRow(P, i) == Refreshed(OriginRow(i), IssuancesAt(P, IssuanceIn(txs, i).asset))

LEMMA AssetRowsAre ==
    ASSUME NEW P, NEW x
    PROVE  x \in AssetRowsOf(txs, P) <=> \E i \in OriginsIn(txs, P) : x = FullRow(P, i)
  BY DEF AssetRowsOf, FullRow, OriginRow, IssuancesAt

LEMMA OriginRowFields ==
    ASSUME NEW i
    PROVE  OriginRow(i).asset = IssuanceIn(txs, i).asset /\ OriginRow(i).height = HeightAt(i[1])
  BY DEF OriginRow, AssetRow, IssuanceIn

\* refreshAssets leaves key and origin alone and writes all aggregates.
LEMMA RefreshedRow ==
    ASSUME NEW i, NEW X, NEW Y
    PROVE  /\ Refreshed(OriginRow(i), X).asset = IssuanceIn(txs, i).asset
           /\ Refreshed(OriginRow(i), X).height = HeightAt(i[1])
           /\ Refreshed(Refreshed(OriginRow(i), X), Y) = Refreshed(OriginRow(i), Y)
  <1> DEFINE a == OriginRow(i)
             again == { r \in Y : r.reissuance }
             c == again # {} /\ \E r \in Y : r.amount = Null
  <1>1. DOMAIN a = {"asset", "tokenId", "txid", "vin", "height", "confidential", "verified",
                    "issued", "tokens", "issuances", "reissuances", "confidentialReissuance"}
    BY DEF OriginRow, AssetRow
  <1>2. a.asset = IssuanceIn(txs, i).asset /\ a.height = HeightAt(i[1])
    BY OriginRowFields
  <1> HIDE DEF a
  <1>3. Refreshed(a, X).asset = a.asset /\ Refreshed(a, X).height = a.height
    BY <1>1 DEF Refreshed
  <1>4. Refreshed(Refreshed(a, X), Y) = Refreshed(a, Y)
    BY <1>1 DEF Refreshed
  <1> QED
    BY <1>2, <1>3, <1>4 DEF a

\* The rows of assets at the places P since P0, before their aggregates are refreshed.
RawRows(Q) == { OriginRow(i) : i \in OriginsIn(txs, Q) }
AssetsGrown(d, P0, P) ==
    P0 \subseteq P /\ d.assets = AssetRowsOf(txs, P0) \cup RawRows(P \ P0)

LEMMA RawUnion ==
    ASSUME NEW P, NEW Q
    PROVE  RawRows(P \cup Q) = RawRows(P) \cup RawRows(Q)
  <1>1. OriginsIn(txs, P \cup Q) = OriginsIn(txs, P) \cup OriginsIn(txs, Q)
    <2>1. \A i : i \in OriginsIn(txs, P \cup Q) <=> i \in OriginsIn(txs, P) \cup OriginsIn(txs, Q)
      BY OriginsAre
    <2> QED
      BY <2>1
  <1> QED
    BY <1>1 DEF RawRows

\* Every row is that of an origin at these places.
LEMMA GrownKeys ==
    ASSUME NEW d, NEW P0, NEW P, AssetsGrown(d, P0, P), NEW a \in d.assets
    PROVE  \E j \in OriginsIn(txs, P) : a.asset = IssuanceIn(txs, j).asset
  <1>1. CASE a \in AssetRowsOf(txs, P0)
    <2>1. PICK j \in OriginsIn(txs, P0) : a = FullRow(P0, j)
      BY <1>1, AssetRowsAre
    <2>2. j \in OriginsIn(txs, P)
      BY OriginsAre DEF AssetsGrown
    <2>3. a.asset = IssuanceIn(txs, j).asset
      BY <2>1, RefreshedRow DEF FullRow
    <2> QED
      BY <2>2, <2>3
  <1>2. CASE a \in RawRows(P \ P0)
    <2>1. PICK j \in OriginsIn(txs, P \ P0) : a = OriginRow(j)
      BY <1>2 DEF RawRows
    <2>2. j \in OriginsIn(txs, P)
      BY OriginsAre
    <2> QED
      BY <2>1, <2>2, OriginRowFields
  <1> QED
    BY <1>1, <1>2 DEF AssetsGrown

\* ON CONFLICT DO NOTHING never applies: an asset has one origin on a branch.
LEMMA InsertTransactionAssets ==
    ASSUME txs \in Contents, NEW B, NEW P, NEW b, NEW pos, NextPlace(B, P, <<b, pos>>),
           NEW d, DOMAIN d = DOMAIN EmptyDb, NEW P0, AssetsGrown(d, P0, P)
    PROVE  AssetsGrown(InsertTransaction(d, b, pos), P0, P \cup {<<b, pos>>})
  <1> DEFINE q == <<b, pos>>
             t == TxIn(txs, q)
             e == InsertTransaction(d, b, pos)
  <1>1. e.assets = d.assets \cup NewAssets(t, HeightAt(q), d.assets)
    BY InsertTransactionFields DEF TransactionAdded
  <1>2. B \in SUBSET Block /\ IsBranch(B) /\ P \subseteq PlacesIn(txs, B)
        /\ q \in PlacesIn(txs, B) /\ q \notin P
    BY DEF NextPlace
  <1> HIDE DEF e, q
  <1>3. ASSUME NEW w \in FirstInputs(t), NEW a \in d.assets
        PROVE  a.asset # Vin[t][w].issuance.asset
    <2> SUFFICES ASSUME a.asset = Vin[t][w].issuance.asset PROVE FALSE
      OBVIOUS
    <2>1. PICK j \in OriginsIn(txs, P) : a.asset = IssuanceIn(txs, j).asset
      BY GrownKeys
    <2>2. <<q, w>> \in OriginsIn(txs, PlacesIn(txs, B)) /\ j \in OriginsIn(txs, PlacesIn(txs, B))
      BY <1>2, OriginsAre
    <2>3. SameAsset(txs, <<q, w>>, j)
      BY <2>1 DEF SameAsset, IssuanceIn
    <2>4. <<q, w>> = j
      BY <1>2, <2>2, <2>3, OriginRules
    <2>5. j[1] \in P
      BY OriginFacts
    <2> QED
      BY <1>2, <2>4, <2>5
  <1>4. NewAssets(t, HeightAt(q), d.assets) = { AssetRow(t, v, HeightAt(q)) : v \in FirstInputs(t) }
    BY <1>3 DEF NewAssets, FirstInputs
  <1>5. RawRows({q}) = { AssetRow(t, v, HeightAt(q)) : v \in FirstInputs(t) }
    <2>1. \A v : OriginRow(<<q, v>>) = AssetRow(t, v, HeightAt(q))
      BY DEF OriginRow
    <2>2. \A i : i \in OriginsIn(txs, {q}) <=> \E v \in FirstInputs(t) : i = <<q, v>>
      BY OriginsAre
    <2> DEFINE F == FirstInputs(t)
    <2>3. OriginsIn(txs, {q}) = { <<q, v>> : v \in F }
      BY <2>2
    <2> HIDE DEF F, t
    <2>4. RawRows({q}) = { OriginRow(<<q, v>>) : v \in F }
      BY <2>3 DEF RawRows
    <2> QED
      BY <2>1, <2>4 DEF F
  <1>6. (P \cup {q}) \ P0 = (P \ P0) \cup {q} /\ P0 \subseteq P \cup {q}
    BY <1>2 DEF AssetsGrown
  <1>7. RawRows((P \cup {q}) \ P0) = RawRows(P \ P0) \cup RawRows({q})
    BY <1>6, RawUnion
  <1>8. e.assets = AssetRowsOf(txs, P0) \cup RawRows((P \cup {q}) \ P0)
    BY <1>1, <1>4, <1>5, <1>7 DEF AssetsGrown
  <1> QED
    BY <1>6, <1>8 DEF AssetsGrown, e, q

-------------------------------------------------------------------------------
(* The loops of insertBlock *)

\* The loop over the transactions of a block.
LEMMA FilledLoop ==
    ASSUME txs \in Contents, NEW d, NEW b \in Block
    PROVE  \E f : /\ f[0] = d
                  /\ \A k \in 1..Len(txs[b]) : f[k] = InsertTransaction(f[k - 1], b, k)
                  /\ Filled(d, b) = f[Len(txs[b])]
  <1> DEFINE n == Len(txs[b])
             Body(f, i) == IF i = 0 THEN d ELSE InsertTransaction(f[i - 1], b, i)
             Upto(k, f) == f = [i \in 0..k |-> Body(f, i)]
             S == { k \in Nat : \E f : Upto(k, f) }
  <1>0. n \in Nat
    BY ContentsAssumption
  <1> HIDE DEF n
  <1>1. 0 \in S
    <2>1. Upto(0, [i \in 0..0 |-> d])
      OBVIOUS
    <2> QED
      BY <2>1
  <1>2. ASSUME NEW k \in Nat, k \in S PROVE k + 1 \in S
    <2>1. PICK f : Upto(k, f)
      BY <1>2
    <2> DEFINE g == [i \in 0..(k + 1) |->
                       IF i = k + 1 THEN InsertTransaction(f[k], b, k + 1) ELSE f[i]]
    <2>2. ASSUME NEW i \in 0..(k + 1) PROVE g[i] = Body(g, i)
      <3>1. CASE i = k + 1
        <4>1. g[i] = InsertTransaction(f[k], b, k + 1) /\ g[k] = f[k] /\ i - 1 = k /\ i # 0
          BY <3>1
        <4> HIDE DEF g
        <4> QED
          BY <4>1, <3>1
      <3>2. CASE i # k + 1
        <4>1. i \in 0..k /\ g[i] = f[i]
          BY <3>2
        <4>2. i # 0 => g[i - 1] = f[i - 1]
          BY <4>1
        <4>3. f[i] = Body(f, i)
          BY <4>1, <2>1
        <4> HIDE DEF g
        <4> QED
          BY <4>1, <4>2, <4>3
      <3> QED
        BY <3>1, <3>2
    <2>3. Upto(k + 1, g)
      <3> HIDE DEF Body
      <3> QED
        BY <2>2
    <2> HIDE DEF g, Upto
    <2> QED
      BY <2>3
  <1>3. n \in S
    <2> HIDE DEF S
    <2> QED
      BY <1>0, <1>1, <1>2, SetInduction
  <1> DEFINE filled[pos \in 0..n] == IF pos = 0 THEN d ELSE InsertTransaction(filled[pos - 1], b, pos)
  <1>4. filled = [i \in 0..n |-> IF i = 0 THEN d ELSE InsertTransaction(filled[i - 1], b, i)]
    BY <1>3
  <1>5. Filled(d, b) = filled[n]
    BY DEF Filled, n
  <1> HIDE DEF filled
  <1>6. filled[0] = d /\ \A k \in 1..n : filled[k] = InsertTransaction(filled[k - 1], b, k)
    BY <1>0, <1>4
  <1> QED
    BY <1>5, <1>6 DEF n

\* Block b may be put on the branch B.
OnTop(B, b) ==
    /\ B \in SUBSET Block /\ b \in Block
    /\ IsBranch(B \cup {b})
    /\ \A a \in B : Height[a] < Height[b]

LEMMA OnTopPlaces ==
    ASSUME NEW B, NEW b, OnTop(B, b)
    PROVE  /\ PlacesIn(txs, B \cup {b}) = PlacesIn(txs, B) \cup { <<b, p>> : p \in DOMAIN txs[b] }
           /\ b \notin B
           /\ B \cup {b} \in SUBSET Block
  <1>1. b \notin B
    BY ConstantsAssumption DEF OnTop
  <1> DEFINE Of(a) == { <<a, p>> : p \in DOMAIN txs[a] }
  <1>2. PlacesIn(txs, B \cup {b}) = UNION { Of(a) : a \in B \cup {b} }
        /\ PlacesIn(txs, B) = UNION { Of(a) : a \in B }
    BY DEF PlacesIn
  <1> HIDE DEF Of
  <1>3. PlacesIn(txs, B \cup {b}) = PlacesIn(txs, B) \cup Of(b)
    BY <1>2
  <1> QED
    BY <1>1, <1>3 DEF OnTop, Of

\* The places of the branch and the first k of the block on top.
LEMMA FilledRows ==
    ASSUME txs \in Contents, NEW B, NEW b, OnTop(B, b), NEW d, Rows(d, PlacesIn(txs, B)),
           NEW P0, AssetsGrown(d, P0, PlacesIn(txs, B))
    PROVE  /\ Rows(Filled(d, b), PlacesIn(txs, B \cup {b}))
           /\ AssetsGrown(Filled(d, b), P0, PlacesIn(txs, B \cup {b}))
           /\ SameRest(Filled(d, b), d)
  <1> DEFINE n == Len(txs[b])
             P(k) == PlacesIn(txs, B) \cup { <<b, p>> : p \in 1..k }
             C == B \cup {b}
  <1>1. b \in Block /\ n \in Nat /\ DOMAIN txs[b] = 1..n /\ C \in SUBSET Block /\ IsBranch(C)
    BY ContentsAssumption DEF OnTop
  <1>2. PICK f : /\ f[0] = d
                 /\ \A k \in 1..n : f[k] = InsertTransaction(f[k - 1], b, k)
                 /\ Filled(d, b) = f[n]
    BY <1>1, FilledLoop
  <1> DEFINE Good(k) == Rows(f[k], P(k)) /\ AssetsGrown(f[k], P0, P(k)) /\ SameRest(f[k], d)
             S == { k \in Nat : k <= n => Good(k) }
  <1>3. 0 \in S
    <2>1. P(0) = PlacesIn(txs, B)
      OBVIOUS
    <2> QED
      BY <2>1, <1>2 DEF SameRest
  <1>4. ASSUME NEW k \in Nat, k \in S PROVE k + 1 \in S
    <2> SUFFICES ASSUME k + 1 <= n PROVE Good(k + 1)
      OBVIOUS
    <2>1. k + 1 \in 1..n /\ (k + 1) - 1 = k /\ Good(k)
      BY <1>1, <1>4
    <2>2. f[k + 1] = InsertTransaction(f[k], b, k + 1)
      BY <1>2, <2>1
    <2>3. P(k + 1) = P(k) \cup {<<b, k + 1>>}
      <3>1. 1..(k + 1) = (1..k) \cup {k + 1}
        OBVIOUS
      <3> QED
        BY <3>1
    <2>4. NextPlace(C, P(k), <<b, k + 1>>)
      <3> DEFINE q == <<b, k + 1>>
      <3>1. q \in PlacesIn(txs, C)
        BY <1>1, <2>1, PlaceIn
      <3>2. ASSUME NEW r \in P(k) PROVE r \in PlacesIn(txs, C) /\ r # q /\ ~EarlierPlace(q, r)
        <4>1. CASE r \in PlacesIn(txs, B)
          <5>1. r[1] \in B /\ r[1] \in Block /\ Height[r[1]] < Height[b] /\ r[1] # b
            BY <4>1, PlaceFacts, OnTopPlaces DEF OnTop
          <5>2. Height[r[1]] \in Nat /\ Height[b] \in Nat
            BY <1>1, <5>1, ConstantsAssumption
          <5> QED
            BY <4>1, <5>1, <5>2, OnTopPlaces DEF EarlierPlace, HeightAt
        <4>2. CASE r \in { <<b, p>> : p \in 1..k }
          <5>1. PICK p \in 1..k : r = <<b, p>>
            BY <4>2
          <5>2. r \in PlacesIn(txs, C)
            <6>1. p \in DOMAIN txs[b] /\ b \in C
              BY <1>1, <2>1
            <6> HIDE DEF C
            <6> QED
              BY <5>1, <6>1, PlaceIn
          <5>3. Height[b] \in Nat
            BY <1>1, ConstantsAssumption
          <5> QED
            BY <5>1, <5>2, <5>3 DEF EarlierPlace, HeightAt
        <4> QED
          BY <4>1, <4>2
      <3> HIDE DEF q, P, C
      <3>3. NextPlace(C, P(k), q)
        BY <1>1, <3>1, <3>2 DEF NextPlace
      <3> QED
        BY <3>3 DEF q
    <2>5. Rows(f[k + 1], P(k) \cup {<<b, k + 1>>}) /\ SameRest(f[k + 1], f[k])
      <3> HIDE DEF P, C
      <3> QED
        BY <2>1, <2>2, <2>4, InsertTransactionRows
    <2>6. AssetsGrown(f[k + 1], P0, P(k) \cup {<<b, k + 1>>})
      <3> HIDE DEF P, C
      <3>1. DOMAIN f[k] = DOMAIN EmptyDb
        BY <2>1 DEF Rows
      <3> QED
        BY <2>1, <2>2, <2>4, <3>1, InsertTransactionAssets
    <2> HIDE DEF P
    <2> QED
      BY <2>1, <2>3, <2>5, <2>6 DEF SameRest
  <1>5. Good(n)
    <2>1. n \in S
      <3> HIDE DEF S
      <3> QED
        BY <1>1, <1>3, <1>4, SetInduction
    <2>2. n <= n
      BY <1>1
    <2> HIDE DEF Good, n
    <2> QED
      BY <2>1, <2>2
  <1>6. P(n) = PlacesIn(txs, C)
    BY <1>1, OnTopPlaces
  <1> HIDE DEF P
  <1> QED
    BY <1>2, <1>5, <1>6

-------------------------------------------------------------------------------
(* insertBlock: the address history *)

HistoryRow(q, a) ==
    [address |-> a, txid |-> TxIn(txs, q), height |-> HeightAt(q), position |-> q[2]]

PaidAddresses(t) == { Vout[t][o] : o \in DOMAIN Vout[t] } \ {Null}
SpentAddresses(t) ==
    { Vout[Vin[t][v].prev[1]][Vin[t][v].prev[2]]
      : v \in { w \in DOMAIN Vin[t] : Vin[t][w].prev # Null } } \ {Null}

LEMMA AddressTxsAre ==
    ASSUME NEW P, NEW x
    PROVE  x \in AddressTxsOf(txs, P) <=>
             \E q \in P : \E a \in PaidAddresses(TxIn(txs, q)) \cup SpentAddresses(TxIn(txs, q)) :
               x = HistoryRow(q, a)
  <1>1. \A t : AddressesOf(t) \ {Null} = PaidAddresses(t) \cup SpentAddresses(t)
    BY DEF AddressesOf, PaidAddresses, SpentAddresses
  <1>2. x \in AddressTxsOf(txs, P) <=>
          \E q \in P : \E a \in AddressesOf(TxIn(txs, q)) \ {Null} : x = HistoryRow(q, a)
    BY DEF AddressTxsOf, HistoryRow
  <1> QED
    BY <1>1, <1>2

\* The rows of the outputs.
LEMMA OutputsAre ==
    ASSUME NEW P, NEW x
    PROVE  x \in OutputsOf(txs, P) <=>
             \E q \in P : \E o \in DOMAIN Vout[TxIn(txs, q)] : x = OutputRow(txs, P, q, o)
  BY DEF OutputsOf

\* The join with the transactions finds the place.
LEMMA AddressRowsAre ==
    ASSUME NEW P, NEW d, d.transactions = TransactionsOf(txs, P), NEW pairs, NEW x
    PROVE  x \in AddressRows(d, pairs) <=>
             \E p \in pairs : \E q \in P : p.txid = TxIn(txs, q) /\ x = HistoryRow(q, p.address)
  <1> DEFINE Row(q) == [txid |-> TxIn(txs, q), block |-> q[1], height |-> HeightAt(q), position |-> q[2]]
             New(p, t) == [address |-> p.address, txid |-> p.txid, height |-> t.height,
                           position |-> t.position]
  <1>1. d.transactions = { Row(q) : q \in P }
    BY DEF TransactionsOf
  <1>2. \A q : Row(q).txid = TxIn(txs, q) /\ Row(q).height = HeightAt(q) /\ Row(q).position = q[2]
    OBVIOUS
  <1>3. ASSUME x \in AddressRows(d, pairs)
        PROVE  \E p \in pairs : \E q \in P : p.txid = TxIn(txs, q) /\ x = HistoryRow(q, p.address)
    <2>1. PICK y \in pairs \X d.transactions : y[1].txid = y[2].txid /\ x = New(y[1], y[2])
      BY <1>3 DEF AddressRows
    <2>2. PICK q \in P : y[2] = Row(q)
      BY <2>1, <1>1
    <2>3. y[1].txid = TxIn(txs, q) /\ x = HistoryRow(q, y[1].address) /\ y[1] \in pairs
      BY <2>1, <2>2, <1>2 DEF HistoryRow
    <2> QED
      BY <2>3
  <1>4. ASSUME NEW p \in pairs, NEW q \in P, p.txid = TxIn(txs, q), x = HistoryRow(q, p.address)
        PROVE  x \in AddressRows(d, pairs)
    <2>1. <<p, Row(q)>> \in pairs \X d.transactions
      BY <1>1
    <2>2. p.txid = Row(q).txid /\ x = New(p, Row(q))
      BY <1>2, <1>4 DEF HistoryRow
    <2> HIDE DEF Row
    <2> QED
      BY <2>1, <2>2 DEF AddressRows
  <1> QED
    BY <1>3, <1>4

\* The places of the block on top are those at its height.
LEMMA TopPlaces ==
    ASSUME txs \in Contents, NEW B, NEW b, OnTop(B, b), NEW q \in PlacesIn(txs, B \cup {b})
    PROVE  /\ HeightAt(q) = Height[b] <=> q \in { <<b, p>> : p \in DOMAIN txs[b] }
           /\ HeightAt(q) # Height[b] <=> q \in PlacesIn(txs, B)
  <1>1. q \in PlacesIn(txs, B) => HeightAt(q) # Height[b]
    <2> SUFFICES ASSUME q \in PlacesIn(txs, B) PROVE HeightAt(q) # Height[b]
      OBVIOUS
    <2>1. q[1] \in B /\ q[1] \in Block
      BY PlaceFacts DEF OnTop
    <2>2. Height[q[1]] < Height[b] /\ Height[q[1]] \in Nat /\ Height[b] \in Nat
      BY <2>1, ConstantsAssumption DEF OnTop
    <2> QED
      BY <2>2 DEF HeightAt
  <1>2. q \in { <<b, p>> : p \in DOMAIN txs[b] } => HeightAt(q) = Height[b]
    BY DEF HeightAt
  <1> QED
    BY <1>1, <1>2, OnTopPlaces

\* The rows of the inputs.
LEMMA InputRowsAre ==
    ASSUME NEW P, NEW x
    PROVE  x \in InputsOf(txs, P) <=>
             \E q \in P : \E v \in DOMAIN Vin[TxIn(txs, q)] :
               x = [txid |-> TxIn(txs, q), vin |-> v, prev |-> Vin[TxIn(txs, q)][v].prev, height |-> HeightAt(q)]
  <1> DEFINE Row(i) == [txid |-> TxIn(txs, i[1]), vin |-> i[2], prev |-> PrevIn(txs, i), height |-> HeightAt(i[1])]
  <1>1. x \in InputsOf(txs, P) <=> \E i \in InputsIn(txs, P) : x = Row(i)
    BY DEF InputsOf
  <1>2. \A q, v : Row(<<q, v>>) =
          [txid |-> TxIn(txs, q), vin |-> v, prev |-> Vin[TxIn(txs, q)][v].prev, height |-> HeightAt(q)]
    BY DEF PrevIn
  <1> HIDE DEF Row
  <1>3. x \in InputsOf(txs, P) <=> \E q \in P : \E v \in DOMAIN Vin[TxIn(txs, q)] : x = Row(<<q, v>>)
    <2>1. \A i : i \in InputsIn(txs, P) <=> \E q \in P : \E v \in DOMAIN Vin[TxIn(txs, q)] : i = <<q, v>>
      BY InputsAre
    <2>2. ASSUME NEW i \in InputsIn(txs, P), x = Row(i)
          PROVE  \E q \in P : \E v \in DOMAIN Vin[TxIn(txs, q)] : x = Row(<<q, v>>)
      BY <2>1, <2>2
    <2>3. ASSUME NEW q \in P, NEW v \in DOMAIN Vin[TxIn(txs, q)] PROVE <<q, v>> \in InputsIn(txs, P)
      BY <2>1
    <2> QED
      BY <1>1, <2>2, <2>3
  <1> QED
    BY <1>2, <1>3

\* The places of the block on top, and the two sets of addresses insertBlock collects.
Top(b) == { <<b, p>> : p \in DOMAIN txs[b] }

LEMMA PaidPairs ==
    ASSUME txs \in Contents, NEW B, NEW b, OnTop(B, b), NEW d,
           Rows(d, PlacesIn(txs, B \cup {b})), NEW p
    PROVE  p \in PaidTo(d, Height[b]) <=>
             \E q \in Top(b) : \E a \in PaidAddresses(TxIn(txs, q)) : p = [address |-> a, txid |-> TxIn(txs, q)]
  <1> DEFINE P == PlacesIn(txs, B \cup {b})
  <1>0. d.outputs = OutputsOf(txs, P) /\ Top(b) \subseteq P
    BY OnTopPlaces DEF Rows, Top
  <1>1. \A q \in P : HeightAt(q) = Height[b] <=> q \in Top(b)
    BY TopPlaces DEF Top
  <1> HIDE DEF P
  <1>2. ASSUME p \in PaidTo(d, Height[b])
        PROVE  \E q \in Top(b) : \E a \in PaidAddresses(TxIn(txs, q)) : p = [address |-> a, txid |-> TxIn(txs, q)]
    <2>1. PICK x \in d.outputs : /\ x.height = Height[b] /\ x.address # Null
                                 /\ p = [address |-> x.address, txid |-> x.txid]
      BY <1>2 DEF PaidTo
    <2>2. PICK q \in P : \E o \in DOMAIN Vout[TxIn(txs, q)] : x = OutputRow(txs, P, q, o)
      BY <1>0, <2>1, OutputsAre
    <2>3. PICK o \in DOMAIN Vout[TxIn(txs, q)] : x = OutputRow(txs, P, q, o)
      BY <2>2
    <2>4. x.height = HeightAt(q) /\ x.address = Vout[TxIn(txs, q)][o] /\ x.txid = TxIn(txs, q)
      BY <2>3 DEF OutputRow
    <2>5. q \in Top(b) /\ x.address \in PaidAddresses(TxIn(txs, q))
      BY <1>1, <2>1, <2>4 DEF PaidAddresses
    <2> QED
      BY <2>1, <2>4, <2>5
  <1>3. ASSUME NEW q \in Top(b), NEW a \in PaidAddresses(TxIn(txs, q)), p = [address |-> a, txid |-> TxIn(txs, q)]
        PROVE  p \in PaidTo(d, Height[b])
    <2>1. PICK o \in DOMAIN Vout[TxIn(txs, q)] : a = Vout[TxIn(txs, q)][o] /\ a # Null
      BY DEF PaidAddresses
    <2> DEFINE x == OutputRow(txs, P, q, o)
    <2>2. x \in d.outputs
      BY <1>0, OutputsAre
    <2>3. x.height = HeightAt(q) /\ x.address = Vout[TxIn(txs, q)][o] /\ x.txid = TxIn(txs, q)
      BY DEF OutputRow
    <2>4. HeightAt(q) = Height[b]
      BY <1>0, <1>1
    <2> HIDE DEF x
    <2> QED
      BY <1>3, <2>1, <2>2, <2>3, <2>4 DEF PaidTo
  <1> QED
    BY <1>2, <1>3

LEMMA SpentPairs ==
    ASSUME txs \in Contents, NEW B, NEW b, OnTop(B, b), NEW d,
           Rows(d, PlacesIn(txs, B \cup {b})), NEW p
    PROVE  p \in SpentFrom(d, Height[b]) <=>
             \E q \in Top(b) : \E a \in SpentAddresses(TxIn(txs, q)) : p = [address |-> a, txid |-> TxIn(txs, q)]
  <1> DEFINE P == PlacesIn(txs, B \cup {b})
  <1>0. /\ d.outputs = OutputsOf(txs, P) /\ d.inputs = InputsOf(txs, P) /\ Top(b) \subseteq P
        /\ B \cup {b} \in SUBSET Block /\ IsBranch(B \cup {b})
    BY OnTopPlaces DEF Rows, Top, OnTop
  <1>1. \A q \in P : HeightAt(q) = Height[b] <=> q \in Top(b)
    BY TopPlaces DEF Top
  <1>2. \A q \in P : TxIn(txs, q) \in Tx
    BY <1>0, PlaceFacts
  <1>3. \A i \in InputsIn(txs, P) : PrevIn(txs, i) # Null =>
          \E r \in P : \E o \in DOMAIN Vout[TxIn(txs, r)] : PrevIn(txs, i) = <<TxIn(txs, r), o>>
    BY <1>0, BranchRules
  <1> HIDE DEF P
  <1>4. ASSUME p \in SpentFrom(d, Height[b])
        PROVE  \E q \in Top(b) : \E a \in SpentAddresses(TxIn(txs, q)) : p = [address |-> a, txid |-> TxIn(txs, q)]
    <2>1. PICK y \in d.inputs \X d.outputs :
            /\ y[1].height = Height[b] /\ y[1].prev = <<y[2].txid, y[2].vout>> /\ y[2].address # Null
            /\ p = [address |-> y[2].address, txid |-> y[1].txid]
      BY <1>4 DEF SpentFrom
    <2>2. y[1] \in d.inputs /\ y[2] \in d.outputs
      BY <2>1
    <2>a. PICK q \in P : \E v \in DOMAIN Vin[TxIn(txs, q)] :
            y[1] = [txid |-> TxIn(txs, q), vin |-> v, prev |-> Vin[TxIn(txs, q)][v].prev, height |-> HeightAt(q)]
      BY <1>0, <2>2, InputRowsAre
    <2>3. PICK v \in DOMAIN Vin[TxIn(txs, q)] :
            y[1] = [txid |-> TxIn(txs, q), vin |-> v, prev |-> Vin[TxIn(txs, q)][v].prev, height |-> HeightAt(q)]
      BY <2>a
    <2>b. PICK r \in P : \E o \in DOMAIN Vout[TxIn(txs, r)] : y[2] = OutputRow(txs, P, r, o)
      BY <1>0, <2>2, OutputsAre
    <2>4. PICK o \in DOMAIN Vout[TxIn(txs, r)] : y[2] = OutputRow(txs, P, r, o)
      BY <2>b
    <2>5. y[2].txid = TxIn(txs, r) /\ y[2].vout = o /\ y[2].address = Vout[TxIn(txs, r)][o]
      BY <2>4 DEF OutputRow
    <2>6. y[1].height = HeightAt(q) /\ y[1].txid = TxIn(txs, q) /\ y[1].prev = Vin[TxIn(txs, q)][v].prev
      BY <2>3
    <2>7. Vin[TxIn(txs, q)][v].prev = <<TxIn(txs, r), o>>
      BY <2>1, <2>5, <2>6
    <2>8. Vin[TxIn(txs, q)][v].prev # Null
      BY <2>7, <1>2, TransactionsAssumption
    <2>9. y[2].address = Vout[Vin[TxIn(txs, q)][v].prev[1]][Vin[TxIn(txs, q)][v].prev[2]]
      BY <2>5, <2>7
    <2>10. y[2].address \in SpentAddresses(TxIn(txs, q))
      BY <2>1, <2>8, <2>9 DEF SpentAddresses
    <2>11. q \in Top(b)
      BY <1>1, <2>1, <2>6
    <2> QED
      BY <2>1, <2>6, <2>10, <2>11
  <1>5. ASSUME NEW q \in Top(b), NEW a \in SpentAddresses(TxIn(txs, q)), p = [address |-> a, txid |-> TxIn(txs, q)]
        PROVE  p \in SpentFrom(d, Height[b])
    <2>1. PICK v \in DOMAIN Vin[TxIn(txs, q)] :
            /\ Vin[TxIn(txs, q)][v].prev # Null
            /\ a = Vout[Vin[TxIn(txs, q)][v].prev[1]][Vin[TxIn(txs, q)][v].prev[2]] /\ a # Null
      BY DEF SpentAddresses
    <2>2. <<q, v>> \in InputsIn(txs, P)
      BY <1>0, InputsAre
    <2>3. PrevIn(txs, <<q, v>>) = Vin[TxIn(txs, q)][v].prev
      BY <2>2, InputFacts
    <2>a. PICK r \in P : \E o \in DOMAIN Vout[TxIn(txs, r)] : Vin[TxIn(txs, q)][v].prev = <<TxIn(txs, r), o>>
      BY <1>3, <2>1, <2>2, <2>3
    <2>4. PICK o \in DOMAIN Vout[TxIn(txs, r)] : Vin[TxIn(txs, q)][v].prev = <<TxIn(txs, r), o>>
      BY <2>a
    <2> DEFINE x == OutputRow(txs, P, r, o)
               i == [txid |-> TxIn(txs, q), vin |-> v, prev |-> Vin[TxIn(txs, q)][v].prev, height |-> HeightAt(q)]
    <2>5. x \in d.outputs
      BY <1>0, OutputsAre
    <2>6. i \in d.inputs
      <3> HIDE DEF i
      <3> QED
        BY <1>0, InputRowsAre DEF i
    <2>7. x.txid = TxIn(txs, r) /\ x.vout = o /\ x.address = a
      BY <2>1, <2>4 DEF OutputRow
    <2>8. i.txid = TxIn(txs, q) /\ i.prev = <<TxIn(txs, r), o>> /\ i.height = Height[b]
      BY <1>0, <1>1, <2>4
    <2> HIDE DEF x, i
    <2>9. <<i, x>> \in d.inputs \X d.outputs
      BY <2>5, <2>6
    <2> DEFINE z == <<i, x>>
    <2>10. z[1] = i /\ z[2] = x
      OBVIOUS
    <2> HIDE DEF z
    <2>11. /\ z \in d.inputs \X d.outputs
           /\ z[1].height = Height[b] /\ z[1].prev = <<z[2].txid, z[2].vout>> /\ z[2].address # Null
           /\ p = [address |-> z[2].address, txid |-> z[1].txid]
      BY <1>5, <2>1, <2>7, <2>8, <2>9, <2>10 DEF z
    <2> QED
      BY <2>11 DEF SpentFrom
  <1> QED
    BY <1>4, <1>5

\* The rows of the two statements are the history of the new block.
LEMMA JoinedRows ==
    ASSUME txs \in Contents, NEW B, NEW b, OnTop(B, b), NEW d,
           Rows(d, PlacesIn(txs, B \cup {b})), NEW x
    PROVE  /\ x \in AddressRows(d, PaidTo(d, Height[b])) <=>
                \E q \in Top(b) : \E a \in PaidAddresses(TxIn(txs, q)) : x = HistoryRow(q, a)
           /\ x \in AddressRows(d, SpentFrom(d, Height[b])) <=>
                \E q \in Top(b) : \E a \in SpentAddresses(TxIn(txs, q)) : x = HistoryRow(q, a)
  <1> DEFINE P == PlacesIn(txs, B \cup {b})
  <1>0. d.transactions = TransactionsOf(txs, P) /\ Top(b) \subseteq P
    BY OnTopPlaces DEF Rows, Top
  <1>1. \A q \in Top(b), r \in P : TxIn(txs, q) = TxIn(txs, r) => q = r
    BY <1>0, OnTopPlaces, BranchRules DEF OnTop
  <1> HIDE DEF P
  <1>2. ASSUME NEW pairs, NEW A,
               \A p : p \in pairs <=> \E q \in Top(b) : \E a \in A[q] : p = [address |-> a, txid |-> TxIn(txs, q)]
        PROVE  x \in AddressRows(d, pairs) <=>
                 \E q \in Top(b) : \E a \in A[q] : x = HistoryRow(q, a)
    <2>1. ASSUME x \in AddressRows(d, pairs)
          PROVE  \E q \in Top(b) : \E a \in A[q] : x = HistoryRow(q, a)
      <3>1. PICK p \in pairs, r \in P : p.txid = TxIn(txs, r) /\ x = HistoryRow(r, p.address)
        BY <2>1, <1>0, AddressRowsAre
      <3>2. PICK q \in Top(b) : \E a \in A[q] : p = [address |-> a, txid |-> TxIn(txs, q)]
        BY <3>1, <1>2
      <3>3. p.txid = TxIn(txs, q) /\ p.address \in A[q]
        BY <3>2
      <3> QED
        BY <3>1, <3>3, <1>1
    <2>2. ASSUME NEW q \in Top(b), NEW a \in A[q], x = HistoryRow(q, a)
          PROVE  x \in AddressRows(d, pairs)
      <3> DEFINE p == [address |-> a, txid |-> TxIn(txs, q)]
      <3>1. p \in pairs
        BY <1>2
      <3>2. p.txid = TxIn(txs, q) /\ p.address = a /\ q \in P
        BY <1>0
      <3> HIDE DEF p
      <3> QED
        BY <2>2, <3>1, <3>2, <1>0, AddressRowsAre
    <2> QED
      BY <2>1, <2>2
  <1>3. x \in AddressRows(d, PaidTo(d, Height[b])) <=>
          \E q \in Top(b) : \E a \in PaidAddresses(TxIn(txs, q)) : x = HistoryRow(q, a)
    <2> DEFINE A == [q \in Top(b) |-> PaidAddresses(TxIn(txs, q))]
               pairs == PaidTo(d, Height[b])
    <2>1. \A q \in Top(b) : A[q] = PaidAddresses(TxIn(txs, q))
      OBVIOUS
    <2>2. \A p : p \in pairs <=>
            \E q \in Top(b) : \E a \in PaidAddresses(TxIn(txs, q)) : p = [address |-> a, txid |-> TxIn(txs, q)]
      BY PaidPairs
    <2> HIDE DEF A, pairs
    <2>3. \A p : p \in pairs <=> \E q \in Top(b) : \E a \in A[q] : p = [address |-> a, txid |-> TxIn(txs, q)]
      BY <2>1, <2>2
    <2>4. x \in AddressRows(d, pairs) <=> \E q \in Top(b) : \E a \in A[q] : x = HistoryRow(q, a)
      BY <1>2, <2>3
    <2> QED
      BY <2>1, <2>4 DEF pairs
  <1>4. x \in AddressRows(d, SpentFrom(d, Height[b])) <=>
          \E q \in Top(b) : \E a \in SpentAddresses(TxIn(txs, q)) : x = HistoryRow(q, a)
    <2> DEFINE A == [q \in Top(b) |-> SpentAddresses(TxIn(txs, q))]
               pairs == SpentFrom(d, Height[b])
    <2>1. \A q \in Top(b) : A[q] = SpentAddresses(TxIn(txs, q))
      OBVIOUS
    <2>2. \A p : p \in pairs <=>
            \E q \in Top(b) : \E a \in SpentAddresses(TxIn(txs, q)) : p = [address |-> a, txid |-> TxIn(txs, q)]
      BY SpentPairs
    <2> HIDE DEF A, pairs
    <2>3. \A p : p \in pairs <=> \E q \in Top(b) : \E a \in A[q] : p = [address |-> a, txid |-> TxIn(txs, q)]
      BY <2>1, <2>2
    <2>4. x \in AddressRows(d, pairs) <=> \E q \in Top(b) : \E a \in A[q] : x = HistoryRow(q, a)
      BY <1>2, <2>3
    <2> QED
      BY <2>1, <2>4 DEF pairs
  <1> QED
    BY <1>3, <1>4

\* INSERT OR IGNORE ignores only rows that are there: the key determines the row.
LEMMA IgnoreNothing ==
    ASSUME NEW table, NEW new,
           \A r \in new, s \in table : s.address = r.address /\ s.txid = r.txid => s = r
    PROVE  OrIgnore(table, new) = table \cup new
  BY DEF OrIgnore

LEMMA AddressesInserted ==
    ASSUME txs \in Contents, NEW B, NEW b, OnTop(B, b), NEW d,
           Rows(d, PlacesIn(txs, B \cup {b})),
           d.addressTxs = AddressTxsOf(txs, PlacesIn(txs, B))
    PROVE  LET paid == OrIgnore(d.addressTxs, AddressRows(d, PaidTo(d, Height[b])))
           IN  OrIgnore(paid, AddressRows(d, SpentFrom(d, Height[b])))
                 = AddressTxsOf(txs, PlacesIn(txs, B \cup {b}))
  <1>0. ASSUME NEW x
        PROVE  /\ x \in AddressRows(d, PaidTo(d, Height[b])) <=>
                    \E q \in Top(b) : \E a \in PaidAddresses(TxIn(txs, q)) : x = HistoryRow(q, a)
               /\ x \in AddressRows(d, SpentFrom(d, Height[b])) <=>
                    \E q \in Top(b) : \E a \in SpentAddresses(TxIn(txs, q)) : x = HistoryRow(q, a)
    BY JoinedRows
  <1> DEFINE P == PlacesIn(txs, B \cup {b})
             old == AddressTxsOf(txs, PlacesIn(txs, B))
             pays == AddressRows(d, PaidTo(d, Height[b]))
             spends == AddressRows(d, SpentFrom(d, Height[b]))
             all == AddressTxsOf(txs, P)
  <1>1. P = PlacesIn(txs, B) \cup Top(b)
    BY OnTopPlaces DEF Top
  <1>2. \A x : x \in all <=> x \in old \/ x \in pays \/ x \in spends
    <2> SUFFICES ASSUME NEW x PROVE x \in all <=> x \in old \/ x \in pays \/ x \in spends
      OBVIOUS
    <2> DEFINE Has(q) == \E a \in PaidAddresses(TxIn(txs, q)) \cup SpentAddresses(TxIn(txs, q)) : x = HistoryRow(q, a)
    <2>1. x \in all <=> \E q \in P : Has(q)
      BY AddressTxsAre
    <2>2. x \in old <=> \E q \in PlacesIn(txs, B) : Has(q)
      BY AddressTxsAre
    <2>3. (x \in pays \/ x \in spends) <=> \E q \in Top(b) : Has(q)
      <3>1. x \in pays <=> \E q \in Top(b) : \E a \in PaidAddresses(TxIn(txs, q)) : x = HistoryRow(q, a)
        BY <1>0
      <3>2. x \in spends <=> \E q \in Top(b) : \E a \in SpentAddresses(TxIn(txs, q)) : x = HistoryRow(q, a)
        BY <1>0
      <3> HIDE DEF pays, spends
      <3> QED
        BY <3>1, <3>2
    <2> HIDE DEF Has, P, all, old, pays, spends
    <2> QED
      BY <1>1, <2>1, <2>2, <2>3
  <1>3. \A x, y \in all : x.address = y.address /\ x.txid = y.txid => x = y
    <2> SUFFICES ASSUME NEW x \in all, NEW y \in all, x.address = y.address, x.txid = y.txid
                 PROVE  x = y
      OBVIOUS
    <2>1. PICK q \in P : \E a : x = HistoryRow(q, a)
      BY AddressTxsAre
    <2>2. PICK r \in P : \E a : y = HistoryRow(r, a)
      BY AddressTxsAre
    <2>3. x.txid = TxIn(txs, q) /\ y.txid = TxIn(txs, r)
      BY <2>1, <2>2 DEF HistoryRow
    <2>4. q = r
      <3>1. B \cup {b} \in SUBSET Block /\ IsBranch(B \cup {b})
        BY OnTopPlaces DEF OnTop
      <3>2. TxIn(txs, q) = TxIn(txs, r)
        BY <2>3
      <3> QED
        BY <3>1, <3>2, BranchRules
    <2> HIDE DEF P, all
    <2> QED
      BY <2>1, <2>2, <2>4 DEF HistoryRow
  <1> HIDE DEF P, old, pays, spends, all
  <1>4. OrIgnore(old, pays) = old \cup pays
    BY <1>2, <1>3, IgnoreNothing
  <1>5. OrIgnore(old \cup pays, spends) = (old \cup pays) \cup spends
    BY <1>2, <1>3, IgnoreNothing
  <1>6. (old \cup pays) \cup spends = all
    BY <1>2
  <1> QED
    BY <1>4, <1>5, <1>6 DEF P, old, pays, spends, all

-------------------------------------------------------------------------------
(* insertBlock *)

BlockRow(b) == [height |-> Height[b], hash |-> b, fees |-> FeesOf(b)]

\* The tables, assets aside, are those of the branch B.
Stored(d, B) ==
    /\ Rows(d, PlacesIn(txs, B))
    /\ d.blocks = { BlockRow(b) : b \in B }
    /\ d.addressTxs = AddressTxsOf(txs, PlacesIn(txs, B))

SamePosition(d, e) == d.mempool = e.mempool /\ d.cursor = e.cursor /\ d.genesis = e.genesis

LEMMA InsertBlockStored ==
    ASSUME txs \in Contents, NEW B, NEW b, OnTop(B, b), NEW d, Stored(d, B),
           NEW P0, AssetsGrown(d, P0, PlacesIn(txs, B))
    PROVE  /\ Stored(InsertBlock(d, b), B \cup {b})
           /\ SamePosition(InsertBlock(d, b), d)
           /\ AssetsGrown(InsertBlock(d, b), P0, PlacesIn(txs, B \cup {b}))
  <1> DEFINE f == Filled(d, b)
             g == [f EXCEPT !.blocks = @ \cup {BlockRow(b)}]
             e == InsertBlock(d, b)
             P == PlacesIn(txs, B \cup {b})
  <1>1. Rows(f, P) /\ SameRest(f, d) /\ AssetsGrown(f, P0, P)
    BY FilledRows DEF Stored
  <1>2. e = WithAddresses(g, Height[b])
    BY DEF InsertBlock, BlockRow
  <1> HIDE DEF f
  <1>3. /\ DOMAIN g = DOMAIN EmptyDb
        /\ g.blocks = f.blocks \cup {BlockRow(b)} /\ g.addressTxs = f.addressTxs
        /\ g.outputs = f.outputs /\ g.transactions = f.transactions /\ g.inputs = f.inputs
        /\ g.issuances = f.issuances /\ g.assets = f.assets
        /\ SamePosition(g, f)
    BY <1>1, TableNames DEF Rows, SamePosition
  <1> HIDE DEF g
  <1>4. Rows(g, P) /\ g.addressTxs = AddressTxsOf(txs, PlacesIn(txs, B))
    BY <1>1, <1>3 DEF Rows, SameRest, Stored
  <1> DEFINE paid == OrIgnore(g.addressTxs, AddressRows(g, PaidTo(g, Height[b])))
             after == OrIgnore(paid, AddressRows(g, SpentFrom(g, Height[b])))
  <1>5. after = AddressTxsOf(txs, P)
    BY <1>4, AddressesInserted
  <1>6. e = [g EXCEPT !.addressTxs = after]
    BY <1>2 DEF WithAddresses
  <1> HIDE DEF after, e
  <1>7. /\ DOMAIN e = DOMAIN EmptyDb
        /\ e.addressTxs = after /\ e.blocks = g.blocks
        /\ e.outputs = g.outputs /\ e.transactions = g.transactions /\ e.inputs = g.inputs
        /\ e.issuances = g.issuances /\ e.assets = g.assets
        /\ SamePosition(e, g)
    BY <1>3, <1>6, TableNames DEF SamePosition
  <1>8. Rows(e, P)
    BY <1>4, <1>7 DEF Rows
  <1>9. e.blocks = { BlockRow(a) : a \in B \cup {b} }
    BY <1>1, <1>3, <1>7 DEF SameRest, Stored
  <1>10. Stored(e, B \cup {b})
    BY <1>5, <1>7, <1>8, <1>9 DEF Stored
  <1>11. SamePosition(e, d)
    BY <1>1, <1>3, <1>7 DEF SamePosition, SameRest
  <1>12. AssetsGrown(e, P0, P)
    BY <1>1, <1>3, <1>7 DEF AssetsGrown
  <1> QED
    BY <1>10, <1>11, <1>12 DEF e

-------------------------------------------------------------------------------
(* insertBlock: the fees *)

\* The loop that adds up the fees computes their sum.
LEMMA FeesCorrect ==
    ASSUME txs \in Contents, NEW b \in Block
    PROVE  FeesOf(b) = FeesIn(txs, b)
  <1> DEFINE n == Len(txs[b])
             fee == [p \in DOMAIN txs[b] |-> IF IsCoinbase(txs[b][p]) THEN 0 ELSE Fee[txs[b][p]]]
             Sum(k) == SumFunctionOnSet(fee, 1..k)
  <1>1. n \in Nat /\ DOMAIN txs[b] = 1..n /\ \A p \in 1..n : txs[b][p] \in Tx
    BY ContentsAssumption
  <1>2. \A p \in 1..n : fee[p] = TxFee(txs[b][p]) /\ fee[p] \in Int
    BY <1>1, TransactionsAssumption DEF TxFee
  <1>3. FeesIn(txs, b) = Sum(n)
    BY <1>1 DEF FeesIn, SumFunction
  <1>4. FeesOf(b) =
          LET sum[pos \in 0..n] == IF pos = 0 THEN 0 ELSE sum[pos - 1] + TxFee(txs[b][pos])
          IN  sum[n]
    BY DEF FeesOf
  <1> HIDE DEF fee, n
  \* The partial sums solve the recursion, and nothing else does.
  <1>5. ASSUME NEW k \in 1..n
        PROVE  Sum(k) = Sum(k - 1) + TxFee(txs[b][k]) /\ Sum(k - 1) \in Int
    <2>1. IsFiniteSet(1..(k - 1)) /\ k \notin 1..(k - 1) /\ 1..k = (1..(k - 1)) \cup {k}
      BY <1>1, FS_Interval
    <2>2. IntOn(fee, (1..(k - 1)) \cup {k})
      BY <1>1, <1>2 DEF IntOn
    <2>3. Sum(k - 1) \in Int
      BY <2>1, <2>2, SumAdd
    <2>4. SumFunctionOnSet(fee, (1..(k - 1)) \cup {k}) = fee[k] + Sum(k - 1)
      BY <2>1, <2>2, SumAdd
    <2>5. Sum(k) = fee[k] + Sum(k - 1)
      BY <2>1, <2>4
    <2>6. fee[k] = TxFee(txs[b][k]) /\ fee[k] \in Int
      BY <1>2
    <2> HIDE DEF Sum
    <2> QED
      BY <2>3, <2>5, <2>6
  <1>6. Sum(0) = 0
    <2>1. 1..0 = {}
      OBVIOUS
    <2> QED
      BY <2>1, SumEmpty
  <1> HIDE DEF Sum
  <1> DEFINE Solves(s) == s = [pos \in 0..n |-> IF pos = 0 THEN 0 ELSE s[pos - 1] + TxFee(txs[b][pos])]
             total == [pos \in 0..n |-> Sum(pos)]
  <1>7. Solves(total)
    <2>1. \A pos \in 0..n : Sum(pos) = IF pos = 0 THEN 0 ELSE total[pos - 1] + TxFee(txs[b][pos])
      <3> SUFFICES ASSUME NEW pos \in 0..n, pos # 0
                   PROVE  Sum(pos) = total[pos - 1] + TxFee(txs[b][pos])
        BY <1>6
      <3>1. pos \in 1..n /\ pos - 1 \in 0..n
        BY <1>1
      <3> QED
        BY <3>1, <1>5
    <2> QED
      BY <2>1
  <1> DEFINE s == CHOOSE s : Solves(s)
  <1>8. Solves(s)
    BY <1>7
  <1>9. FeesOf(b) = s[n]
    BY <1>4
  <1> HIDE DEF s
  <1> DEFINE K == { k \in Nat : k <= n => s[k] = Sum(k) }
  <1>10. 0 \in K
    BY <1>1, <1>6, <1>8
  <1>11. ASSUME NEW k \in Nat, k \in K PROVE k + 1 \in K
    <2> SUFFICES ASSUME k + 1 <= n PROVE s[k + 1] = Sum(k + 1)
      OBVIOUS
    <2>1. k + 1 \in 1..n /\ k + 1 \in 0..n /\ (k + 1) - 1 = k /\ k <= n
      BY <1>1
    <2>2. s[k + 1] = s[k] + TxFee(txs[b][k + 1])
      BY <2>1, <1>8
    <2>3. s[k] = Sum(k)
      BY <2>1, <1>11
    <2>4. Sum(k + 1) = Sum(k) + TxFee(txs[b][k + 1])
      BY <2>1, <1>5
    <2> QED
      BY <2>2, <2>3, <2>4
  <1>12. \A k \in Nat : k \in K
    <2> HIDE DEF K
    <2> QED
      BY <1>10, <1>11, SetInduction
  <1>13. n <= n
    BY <1>1
  <1> QED
    BY <1>1, <1>3, <1>9, <1>12, <1>13

-------------------------------------------------------------------------------
(* applyBlocks *)

\* B is the branch that ends with c, NoBlock if it is empty.
BranchTo(B, c) ==
    /\ B \in SUBSET Block /\ IsBranch(B) /\ IsFiniteSet(B)
    /\ IF c = NoBlock THEN B = {} /\ Cardinality(B) = 0
       ELSE /\ c \in B /\ Cardinality(B) = Height[c] + 1
            /\ \A a \in B : Height[a] <= Height[c]

\* A child of the last block may be put on top, and is the last one then.
LEMMA Grow ==
    ASSUME NEW B, NEW c, BranchTo(B, c), NEW b \in Block, Prev[b] = c
    PROVE  OnTop(B, b) /\ BranchTo(B \cup {b}, b)
  <1> USE ConstantsAssumption
  <1>1. \A a \in B : Height[a] \in Nat /\ Height[a] < Height[b]
    BY DEF BranchTo
  <1>2. b \notin B /\ Height[b] \in Nat /\ b # NoBlock
    BY <1>1
  <1>3. IsBranch(B \cup {b})
    <2>1. Prev[b] \in B \cup {b} \cup {NoBlock}
      BY DEF BranchTo
    <2>2. \A a \in B : Prev[a] \in B \cup {b} \cup {NoBlock}
      BY DEF BranchTo, IsBranch
    <2>3. \A a, d \in B \cup {b} : Height[a] = Height[d] => a = d
      BY <1>1, <1>2 DEF BranchTo, IsBranch
    <2> QED
      BY <2>1, <2>2, <2>3 DEF IsBranch
  <1>4. IsFiniteSet(B \cup {b}) /\ Cardinality(B \cup {b}) = Cardinality(B) + 1
    BY <1>2, FS_AddElement DEF BranchTo
  <1>5. Cardinality(B) = Height[b]
    BY DEF BranchTo
  <1>6. OnTop(B, b)
    BY <1>1, <1>3 DEF OnTop, BranchTo
  <1>7. \A a \in B \cup {b} : Height[a] <= Height[b]
    BY <1>1, <1>2
  <1>8. BranchTo(B \cup {b}, b)
    BY <1>2, <1>3, <1>4, <1>5, <1>7 DEF BranchTo
  <1> QED
    BY <1>6, <1>8

\* The loop over the blocks of a batch.
LEMMA InsertedLoop ==
    ASSUME NEW d, NEW run, NEW n \in Nat
    PROVE  \E f : /\ f[0] = d
                  /\ \A k \in 1..n : f[k] = InsertBlock(f[k - 1], run[k])
                  /\ Inserted(d, run, n) = f[n]
  <1> DEFINE Body(f, i) == IF i = 0 THEN d ELSE InsertBlock(f[i - 1], run[i])
             Upto(k, f) == f = [i \in 0..k |-> Body(f, i)]
             S == { k \in Nat : \E f : Upto(k, f) }
  <1>1. 0 \in S
    <2>1. Upto(0, [i \in 0..0 |-> d])
      OBVIOUS
    <2> QED
      BY <2>1
  <1>2. ASSUME NEW k \in Nat, k \in S PROVE k + 1 \in S
    <2>1. PICK f : Upto(k, f)
      BY <1>2
    <2> DEFINE g == [i \in 0..(k + 1) |->
                       IF i = k + 1 THEN InsertBlock(f[k], run[k + 1]) ELSE f[i]]
    <2>2. ASSUME NEW i \in 0..(k + 1) PROVE g[i] = Body(g, i)
      <3>1. CASE i = k + 1
        <4>1. g[i] = InsertBlock(f[k], run[k + 1]) /\ g[k] = f[k] /\ i - 1 = k /\ i # 0
          BY <3>1
        <4> HIDE DEF g
        <4> QED
          BY <4>1, <3>1
      <3>2. CASE i # k + 1
        <4>1. i \in 0..k /\ g[i] = f[i]
          BY <3>2
        <4>2. i # 0 => g[i - 1] = f[i - 1]
          BY <4>1
        <4>3. f[i] = Body(f, i)
          BY <4>1, <2>1
        <4> HIDE DEF g
        <4> QED
          BY <4>1, <4>2, <4>3
      <3> QED
        BY <3>1, <3>2
    <2>3. Upto(k + 1, g)
      <3> HIDE DEF Body
      <3> QED
        BY <2>2
    <2> HIDE DEF g, Upto
    <2> QED
      BY <2>3
  <1>3. n \in S
    <2> HIDE DEF S
    <2> QED
      BY <1>1, <1>2, SetInduction
  <1> DEFINE inserted[i \in 0..n] == IF i = 0 THEN d ELSE InsertBlock(inserted[i - 1], run[i])
  <1>4. inserted = [i \in 0..n |-> IF i = 0 THEN d ELSE InsertBlock(inserted[i - 1], run[i])]
    BY <1>3
  <1>5. Inserted(d, run, n) = inserted[n]
    BY DEF Inserted
  <1> HIDE DEF inserted
  <1>6. inserted[0] = d /\ \A k \in 1..n : inserted[k] = InsertBlock(inserted[k - 1], run[k])
    BY <1>4
  <1> QED
    BY <1>5, <1>6

\* The branch after the first k blocks of a run.
BranchWith(B, run, k) == B \cup { run[i] : i \in 1..k }

LEMMA InsertedStored ==
    ASSUME txs \in Contents, NEW B, NEW c, BranchTo(B, c), NEW n \in Nat \ {0},
           NEW run \in RunsOn(c, n), NEW d, Stored(d, B), d.assets = AssetRowsOf(txs, PlacesIn(txs, B))
    PROVE  /\ Stored(Inserted(d, run, n), BranchWith(B, run, n))
           /\ AssetsGrown(Inserted(d, run, n), PlacesIn(txs, B), PlacesIn(txs, BranchWith(B, run, n)))
           /\ SamePosition(Inserted(d, run, n), d)
           /\ BranchTo(BranchWith(B, run, n), run[n])
  <1>1. /\ run \in [1..n -> Block]
        /\ \A i \in 1..n : Prev[run[i]] = IF i = 1 THEN c ELSE run[i - 1]
    BY DEF RunsOn
  <1>2. PICK f : /\ f[0] = d
                 /\ \A k \in 1..n : f[k] = InsertBlock(f[k - 1], run[k])
                 /\ Inserted(d, run, n) = f[n]
    BY InsertedLoop
  <1> DEFINE Last(k) == IF k = 0 THEN c ELSE run[k]
             P0 == PlacesIn(txs, B)
             Good(k) == /\ Stored(f[k], BranchWith(B, run, k)) /\ SamePosition(f[k], d)
                        /\ AssetsGrown(f[k], P0, PlacesIn(txs, BranchWith(B, run, k)))
                        /\ BranchTo(BranchWith(B, run, k), Last(k))
             S == { k \in Nat : k <= n => Good(k) }
  <1>3. 0 \in S
    <2>1. BranchWith(B, run, 0) = B
      BY DEF BranchWith
    <2>2. AssetsGrown(d, P0, P0)
      <3>1. P0 \ P0 = {} /\ RawRows({}) = {}
        BY OriginsAre DEF RawRows
      <3> HIDE DEF P0
      <3> QED
        BY <3>1 DEF AssetsGrown, P0
    <2> QED
      BY <1>2, <2>1, <2>2 DEF SamePosition
  <1>4. ASSUME NEW k \in Nat, k \in S PROVE k + 1 \in S
    <2> SUFFICES ASSUME k + 1 <= n PROVE Good(k + 1)
      OBVIOUS
    <2>1. k + 1 \in 1..n /\ (k + 1) - 1 = k /\ Good(k) /\ k + 1 # 0
      BY <1>4
    <2>2. run[k + 1] \in Block /\ Prev[run[k + 1]] = Last(k) /\ Last(k + 1) = run[k + 1]
      BY <1>1, <2>1
    <2>3. f[k + 1] = InsertBlock(f[k], run[k + 1])
      BY <1>2, <2>1
    <2>4. BranchWith(B, run, k + 1) = BranchWith(B, run, k) \cup {run[k + 1]}
      <3>1. 1..(k + 1) = (1..k) \cup {k + 1}
        OBVIOUS
      <3> QED
        BY <3>1 DEF BranchWith
    <2> HIDE DEF Last
    <2>5. OnTop(BranchWith(B, run, k), run[k + 1]) /\ BranchTo(BranchWith(B, run, k + 1), Last(k + 1))
      BY <2>1, <2>2, <2>4, Grow
    <2>6. Stored(f[k + 1], BranchWith(B, run, k + 1)) /\ SamePosition(f[k + 1], f[k])
          /\ AssetsGrown(f[k + 1], P0, PlacesIn(txs, BranchWith(B, run, k + 1)))
      <3>1. Stored(f[k], BranchWith(B, run, k)) /\ AssetsGrown(f[k], P0, PlacesIn(txs, BranchWith(B, run, k)))
        BY <2>1
      <3> HIDE DEF P0, Good
      <3>2. /\ Stored(InsertBlock(f[k], run[k + 1]), BranchWith(B, run, k) \cup {run[k + 1]})
            /\ SamePosition(InsertBlock(f[k], run[k + 1]), f[k])
            /\ AssetsGrown(InsertBlock(f[k], run[k + 1]), P0, PlacesIn(txs, BranchWith(B, run, k) \cup {run[k + 1]}))
        BY <2>5, <3>1, InsertBlockStored
      <3> QED
        BY <2>3, <2>4, <3>2
    <2> QED
      BY <2>1, <2>5, <2>6 DEF SamePosition
  <1>5. Good(n)
    <2>1. n \in S
      <3> HIDE DEF S
      <3> QED
        BY <1>3, <1>4, SetInduction
    <2>2. n <= n
      OBVIOUS
    <2> HIDE DEF Good
    <2> QED
      BY <2>1, <2>2
  <1> QED
    BY <1>2, <1>5

-------------------------------------------------------------------------------
(* rollbackBlock *)

\* The last block may be taken off, and its parent is the last one then.
LEMMA Shrink ==
    ASSUME NEW B, NEW c, BranchTo(B, c), c # NoBlock
    PROVE  /\ OnTop(B \ {c}, c) /\ (B \ {c}) \cup {c} = B
           /\ BranchTo(B \ {c}, Prev[c])
  <1> USE ConstantsAssumption
  <1> DEFINE A == B \ {c}
  <1>1. /\ B \in SUBSET Block /\ IsBranch(B) /\ IsFiniteSet(B) /\ c \in B
        /\ Cardinality(B) = Height[c] + 1 /\ \A a \in B : Height[a] <= Height[c]
    BY DEF BranchTo
  <1>2. \A a \in B : Height[a] \in Nat
    BY <1>1
  <1>3. \A a \in A : Height[a] < Height[c]
    BY <1>1, <1>2 DEF IsBranch
  <1>4. A \cup {c} = B
    BY <1>1
  <1>5. OnTop(A, c)
    BY <1>1, <1>3, <1>4 DEF OnTop
  <1>6. IsFiniteSet(A) /\ Cardinality(A) = Height[c]
    <2>1. IsFiniteSet(A) /\ Cardinality(A) = Cardinality(B) - 1
      BY <1>1, FS_RemoveElement
    <2> QED
      BY <1>1, <1>2, <2>1
  <1>7. IsBranch(A)
    <2>1. ASSUME NEW a \in A PROVE Prev[a] \in A \cup {NoBlock}
      <3>1. Prev[a] \in B \cup {NoBlock} /\ a \in Block
        BY <1>1 DEF IsBranch
      <3>2. Prev[a] # c
        <4>1. CASE Prev[a] = c
          <5>1. Height[a] = Height[c] + 1
            BY <3>1, <4>1
          <5> QED
            BY <5>1, <1>1, <1>2, <1>3
        <4> QED
          BY <4>1
      <3> QED
        BY <3>1, <3>2
    <2>2. \A a, e \in A : Height[a] = Height[e] => a = e
      BY <1>1 DEF IsBranch
    <2> QED
      BY <2>1, <2>2 DEF IsBranch
  <1>8. CASE Prev[c] = NoBlock
    <2>1. Height[c] = 0
      BY <1>1, <1>8
    <2>2. A = {}
      BY <1>6, <2>1, FS_EmptySet
    <2> QED
      BY <1>1, <1>4, <1>5, <1>6, <1>7, <1>8, <2>1, <2>2 DEF BranchTo
  <1>9. CASE Prev[c] # NoBlock
    <2>1. Prev[c] \in B /\ c \in Block
      BY <1>1, <1>9 DEF IsBranch
    <2>2. Height[c] = Height[Prev[c]] + 1 /\ Height[Prev[c]] \in Nat
      BY <1>2, <1>9, <2>1
    <2>3. Prev[c] \in A
      BY <2>1, <2>2
    <2>4. \A a \in A : Height[a] <= Height[Prev[c]]
      BY <1>2, <1>3, <2>2
    <2> QED
      BY <1>1, <1>4, <1>5, <1>6, <1>7, <1>9, <2>2, <2>3, <2>4 DEF BranchTo
  <1> QED
    BY <1>8, <1>9

\* What Unmark does to one row.
Unmarked(x, h) == IF x.spent # Null /\ x.spent.height = h THEN [x EXCEPT !.spent = Null] ELSE x

\* A row of a block below the top is unmarked exactly when the top block spends it.
LEMMA UnmarkedRow ==
    ASSUME txs \in Contents, NEW B, NEW b, OnTop(B, b),
           NEW r \in PlacesIn(txs, B), NEW o \in DOMAIN Vout[TxIn(txs, r)]
    PROVE  Unmarked(OutputRow(txs, PlacesIn(txs, B \cup {b}), r, o), Height[b])
             = OutputRow(txs, PlacesIn(txs, B), r, o)
  <1> DEFINE P0 == PlacesIn(txs, B)
             P == PlacesIn(txs, B \cup {b})
             t == TxIn(txs, r)
             out == <<t, o>>
             before == { i \in InputsIn(txs, P0) : PrevIn(txs, i) = out }
             after == { i \in InputsIn(txs, P) : PrevIn(txs, i) = out }
             row == OutputRow(txs, P, r, o)
             Marker(i) == [txid |-> TxIn(txs, i[1]), vin |-> i[2], height |-> HeightAt(i[1])]
  <1>1. B \cup {b} \in SUBSET Block /\ IsBranch(B \cup {b}) /\ P0 \subseteq P
    BY OnTopPlaces DEF OnTop
  <1>2. out # Null
    <2>1. t \in Tx
      BY <1>1, PlaceFacts
    <2> QED
      BY <2>1, TransactionsAssumption
  <1>3. before \subseteq after
    BY <1>1, InputsMonotone
  <1>4. \A i, j \in after : i = j
    BY <1>1, <1>2, BranchRules
  <1>5. SpentBy(txs, P, t, o) = IF after = {} THEN Null ELSE Marker(CHOOSE i \in after : TRUE)
    BY DEF SpentBy
  <1>6. SpentBy(txs, P0, t, o) = IF before = {} THEN Null ELSE Marker(CHOOSE i \in before : TRUE)
    BY DEF SpentBy
  <1>7. /\ row = [txid |-> t, vout |-> o, address |-> Vout[t][o], height |-> HeightAt(r),
                  spent |-> SpentBy(txs, P, t, o)]
        /\ OutputRow(txs, P0, r, o) = [row EXCEPT !.spent = SpentBy(txs, P0, t, o)]
        /\ row.spent = SpentBy(txs, P, t, o)
        /\ row = [row EXCEPT !.spent = SpentBy(txs, P, t, o)]
    BY DEF OutputRow
  <1>8. ASSUME NEW i \in after
        PROVE  /\ Marker(i) # Null /\ Marker(i).height = HeightAt(i[1])
               /\ HeightAt(i[1]) # Height[b] <=> i \in before
    <2>1. i \in InputsIn(txs, P) /\ PrevIn(txs, i) = out
      OBVIOUS
    <2>2. i[1] \in P /\ i[2] \in DOMAIN Vin[TxIn(txs, i[1])] /\ i = <<i[1], i[2]>>
      BY <2>1, InputFacts
    <2>3. TxIn(txs, i[1]) \in Tx /\ i[1][1] \in Block
      BY <1>1, <2>2, PlaceFacts
    <2>4. Marker(i) # Null
      BY <2>2, <2>3, TransactionsAssumption DEF HeightAt
    <2>5. HeightAt(i[1]) # Height[b] <=> i[1] \in P0
      BY <2>2, TopPlaces
    <2>6. i[1] \in P0 <=> i \in InputsIn(txs, P0)
      BY <2>2, InputsAre, InputFacts
    <2> QED
      BY <2>1, <2>4, <2>5, <2>6
  <1> HIDE DEF before, after, row, Marker
  <1>9. CASE after = {}
    <2>1. SpentBy(txs, P, t, o) = Null /\ SpentBy(txs, P0, t, o) = Null
      BY <1>3, <1>5, <1>6, <1>9
    <2> QED
      BY <1>7, <2>1 DEF Unmarked, row
  <1>10. CASE after # {}
    <2>1. PICK i \in after : TRUE
      BY <1>10
    <2>2. after = {i} /\ (CHOOSE j \in after : TRUE) = i
      BY <1>4, <2>1
    <2>3. row.spent = Marker(i)
      BY <1>5, <1>7, <1>10, <2>2
    <2>4. CASE i \in before
      <3>1. before = after
        BY <1>3, <2>2, <2>4
      <3>2. SpentBy(txs, P0, t, o) = SpentBy(txs, P, t, o)
        BY <1>5, <1>6, <3>1
      <3>3. Unmarked(row, Height[b]) = row
        BY <1>8, <2>1, <2>3, <2>4 DEF Unmarked
      <3> QED
        BY <1>7, <3>2, <3>3 DEF row
    <2>5. CASE i \notin before
      <3>1. before = {}
        BY <1>3, <2>2, <2>5
      <3>2. SpentBy(txs, P0, t, o) = Null
        BY <1>6, <3>1
      <3>3. Unmarked(row, Height[b]) = [row EXCEPT !.spent = Null]
        BY <1>8, <2>1, <2>3, <2>5 DEF Unmarked
      <3> QED
        BY <1>7, <3>2, <3>3 DEF row
    <2> QED
      BY <2>4, <2>5
  <1> QED
    BY <1>9, <1>10

LEMMA OutputsLeft ==
    ASSUME txs \in Contents, NEW B, NEW b, OnTop(B, b)
    PROVE  NotAt(Unmark(OutputsOf(txs, PlacesIn(txs, B \cup {b})), Height[b]), Height[b])
             = OutputsOf(txs, PlacesIn(txs, B))
  <1> DEFINE P0 == PlacesIn(txs, B)
             P == PlacesIn(txs, B \cup {b})
             h == Height[b]
             Row(q, o) == OutputRow(txs, P, q, o)
             unmarked == Unmark(OutputsOf(txs, P), h)
  <1>1. P0 \subseteq P
    BY OnTopPlaces
  <1>2. unmarked = { Unmarked(x, h) : x \in OutputsOf(txs, P) }
    BY DEF Unmark, Unmarked
  <1>3. \A q, o : Unmarked(Row(q, o), h).height = HeightAt(q)
    BY DEF Unmarked, OutputRow
  <1>4. ASSUME NEW x \in NotAt(unmarked, h) PROVE x \in OutputsOf(txs, P0)
    <2>1. x \in unmarked /\ x.height # h
      BY DEF NotAt
    <2>2. PICK y \in OutputsOf(txs, P) : x = Unmarked(y, h)
      BY <1>2, <2>1
    <2>3. PICK q \in P : \E o \in DOMAIN Vout[TxIn(txs, q)] : y = Row(q, o)
      BY OutputsAre
    <2>4. PICK o \in DOMAIN Vout[TxIn(txs, q)] : y = Row(q, o)
      BY <2>3
    <2>5. q \in P0
      <3>1. HeightAt(q) # h
        BY <1>3, <2>1, <2>2, <2>4
      <3> QED
        BY <3>1, TopPlaces
    <2>6. x = OutputRow(txs, P0, q, o)
      BY <2>2, <2>4, <2>5, UnmarkedRow
    <2> QED
      BY <2>5, <2>6, OutputsAre
  <1>5. ASSUME NEW x \in OutputsOf(txs, P0) PROVE x \in NotAt(unmarked, h)
    <2>1. PICK q \in P0 : \E o \in DOMAIN Vout[TxIn(txs, q)] : x = OutputRow(txs, P0, q, o)
      BY OutputsAre
    <2>2. PICK o \in DOMAIN Vout[TxIn(txs, q)] : x = OutputRow(txs, P0, q, o)
      BY <2>1
    <2>3. x = Unmarked(Row(q, o), h)
      BY <2>2, UnmarkedRow
    <2>4. Row(q, o) \in OutputsOf(txs, P)
      BY <1>1, OutputsAre
    <2>5. x.height # h
      BY <1>1, <1>3, <2>3, TopPlaces
    <2> HIDE DEF Row, unmarked, h
    <2> QED
      BY <1>2, <2>3, <2>4, <2>5 DEF NotAt
  <1> HIDE DEF unmarked
  <1> QED
    BY <1>4, <1>5 DEF unmarked

\* DELETE ... WHERE height = ? leaves the rows of the blocks below.
LEMMA RowsLeft ==
    ASSUME txs \in Contents, NEW B, NEW b, OnTop(B, b)
    PROVE  /\ NotAt(TransactionsOf(txs, PlacesIn(txs, B \cup {b})), Height[b])
                = TransactionsOf(txs, PlacesIn(txs, B))
           /\ NotAt(InputsOf(txs, PlacesIn(txs, B \cup {b})), Height[b])
                = InputsOf(txs, PlacesIn(txs, B))
           /\ NotAt(IssuanceRowsOf(txs, PlacesIn(txs, B \cup {b})), Height[b])
                = IssuanceRowsOf(txs, PlacesIn(txs, B))
           /\ NotAt(AddressTxsOf(txs, PlacesIn(txs, B \cup {b})), Height[b])
                = AddressTxsOf(txs, PlacesIn(txs, B))
  <1> DEFINE P0 == PlacesIn(txs, B)
             P == PlacesIn(txs, B \cup {b})
             h == Height[b]
  <1>1. P0 \subseteq P
    BY OnTopPlaces
  <1>2. \A q \in P : HeightAt(q) # h <=> q \in P0
    BY TopPlaces
  <1> HIDE DEF P0, P, h
  <1>3. NotAt(TransactionsOf(txs, P), h) = TransactionsOf(txs, P0)
    BY <1>1, <1>2 DEF NotAt, TransactionsOf
  <1>4. NotAt(InputsOf(txs, P), h) = InputsOf(txs, P0)
    <2> DEFINE Row(q, v) == [txid |-> TxIn(txs, q), vin |-> v,
                             prev |-> Vin[TxIn(txs, q)][v].prev, height |-> HeightAt(q)]
               Of(q) == DOMAIN Vin[TxIn(txs, q)]
    <2>1. \A q, v : Row(q, v).height = HeightAt(q)
      OBVIOUS
    <2>2. \A x : /\ x \in InputsOf(txs, P) <=> \E q \in P : \E v \in Of(q) : x = Row(q, v)
                 /\ x \in InputsOf(txs, P0) <=> \E q \in P0 : \E v \in Of(q) : x = Row(q, v)
      BY InputRowsAre
    <2> HIDE DEF Row, Of
    <2> QED
      BY <1>1, <1>2, <2>1, <2>2 DEF NotAt
  <1>5. NotAt(IssuanceRowsOf(txs, P), h) = IssuanceRowsOf(txs, P0)
    <2> DEFINE Row(q, v) == IssuanceRow(TxIn(txs, q), v, HeightAt(q))
               Of(q) == IssuingInputs(TxIn(txs, q))
    <2>1. \A q, v : Row(q, v).height = HeightAt(q)
      BY DEF IssuanceRow
    <2>2. \A x : /\ x \in IssuanceRowsOf(txs, P) <=> \E q \in P : \E v \in Of(q) : x = Row(q, v)
                 /\ x \in IssuanceRowsOf(txs, P0) <=> \E q \in P0 : \E v \in Of(q) : x = Row(q, v)
      BY DEF IssuanceRowsOf
    <2> HIDE DEF Row, Of
    <2> QED
      BY <1>1, <1>2, <2>1, <2>2 DEF NotAt
  <1>6. NotAt(AddressTxsOf(txs, P), h) = AddressTxsOf(txs, P0)
    <2> DEFINE Of(q) == PaidAddresses(TxIn(txs, q)) \cup SpentAddresses(TxIn(txs, q))
    <2>1. \A q, a : HistoryRow(q, a).height = HeightAt(q)
      BY DEF HistoryRow
    <2>2. \A x : /\ x \in AddressTxsOf(txs, P) <=> \E q \in P : \E a \in Of(q) : x = HistoryRow(q, a)
                 /\ x \in AddressTxsOf(txs, P0) <=> \E q \in P0 : \E a \in Of(q) : x = HistoryRow(q, a)
      BY AddressTxsAre
    <2> HIDE DEF Of
    <2> QED
      BY <1>1, <1>2, <2>1, <2>2 DEF NotAt
  <1> QED
    BY <1>3, <1>4, <1>5, <1>6 DEF P0, P, h

LEMMA BlocksLeft ==
    ASSUME NEW B, NEW b, OnTop(B, b)
    PROVE  NotAt({ BlockRow(a) : a \in B \cup {b} }, Height[b]) = { BlockRow(a) : a \in B }
  <1>1. \A a \in B : Height[a] # Height[b]
    BY ConstantsAssumption DEF OnTop
  <1>2. \A a : BlockRow(a).height = Height[a]
    BY DEF BlockRow
  <1> QED
    BY <1>1, <1>2 DEF NotAt

\* The deletions leave the tables of the branch without its last block.
LEMMA DeleteHeightStored ==
    ASSUME txs \in Contents, NEW B, NEW b, OnTop(B, b), NEW d, Stored(d, B \cup {b})
    PROVE  /\ Stored(DeleteHeight(d, Height[b]), B)
           /\ SamePosition(DeleteHeight(d, Height[b]), d)
  <1> DEFINE h == Height[b]
             e == DeleteHeight(d, h)
  <1>1. DOMAIN d = DOMAIN EmptyDb
    BY DEF Stored, Rows
  <1>2. /\ DOMAIN e = DOMAIN EmptyDb
        /\ e.outputs = NotAt(Unmark(d.outputs, h), h)
        /\ e.addressTxs = NotAt(d.addressTxs, h)
        /\ e.issuances = NotAt(d.issuances, h)
        /\ e.inputs = NotAt(d.inputs, h)
        /\ e.transactions = NotAt(d.transactions, h)
        /\ e.blocks = NotAt(d.blocks, h)
        /\ SamePosition(e, d)
    BY <1>1, TableNames DEF DeleteHeight, SamePosition
  <1> HIDE DEF e
  <1>3. Rows(e, PlacesIn(txs, B))
    BY <1>2, OutputsLeft, RowsLeft DEF Stored, Rows
  <1>4. e.blocks = { BlockRow(a) : a \in B }
    BY <1>2, BlocksLeft DEF Stored
  <1>5. e.addressTxs = AddressTxsOf(txs, PlacesIn(txs, B))
    BY <1>2, RowsLeft DEF Stored
  <1> QED
    BY <1>2, <1>3, <1>4, <1>5 DEF Stored, e

\* refreshAssets changes no other table.
LEMMA RefreshAssetsStored ==
    ASSUME NEW B, NEW d, NEW ids, Stored(d, B)
    PROVE  Stored(RefreshAssets(d, ids), B) /\ SamePosition(RefreshAssets(d, ids), d)
  <1> DEFINE e == RefreshAssets(d, ids)
  <1>1. DOMAIN d = DOMAIN EmptyDb
    BY DEF Stored, Rows
  <1>2. /\ DOMAIN e = DOMAIN EmptyDb
        /\ e.outputs = d.outputs /\ e.addressTxs = d.addressTxs /\ e.issuances = d.issuances
        /\ e.inputs = d.inputs /\ e.transactions = d.transactions /\ e.blocks = d.blocks
        /\ SamePosition(e, d)
    <2> DEFINE new == { LET rows == { r \in d.issuances : r.asset = a.asset }
                        IN  IF a.asset \in ids /\ rows # {} THEN Refreshed(a, rows) ELSE a
                        : a \in d.assets }
    <2>1. e = [d EXCEPT !.assets = new]
      BY DEF RefreshAssets
    <2> HIDE DEF new, e
    <2> QED
      BY <1>1, <2>1, TableNames DEF SamePosition
  <1> HIDE DEF e
  <1> QED
    BY <1>2 DEF Stored, Rows, e

-------------------------------------------------------------------------------
(* refreshAssets *)

RowOf(i) == IssuanceRow(TxIn(txs, i[1]), i[2], HeightAt(i[1]))

LEMMA RowOfFields ==
    ASSUME NEW i
    PROVE  RowOf(i).asset = IssuanceIn(txs, i).asset /\ RowOf(i).height = HeightAt(i[1])
  BY DEF RowOf, IssuanceRow, IssuanceIn

LEMMA IssuanceRowsAre ==
    ASSUME NEW P, NEW x
    PROVE  x \in IssuanceRowsOf(txs, P) <=> \E i \in IssuingIn(txs, P) : x = RowOf(i)
  <1>1. x \in IssuanceRowsOf(txs, P) <=>
          \E q \in P : \E v \in IssuingInputs(TxIn(txs, q)) : x = IssuanceRow(TxIn(txs, q), v, HeightAt(q))
    BY DEF IssuanceRowsOf
  <1>2. \A q, v : RowOf(<<q, v>>) = IssuanceRow(TxIn(txs, q), v, HeightAt(q))
    BY DEF RowOf
  <1>3. \A i : i \in IssuingIn(txs, P) <=>
               \E q \in P : \E v \in IssuingInputs(TxIn(txs, q)) : i = <<q, v>>
    BY IssuingAre
  <1>4. ASSUME NEW q \in P, NEW v \in IssuingInputs(TxIn(txs, q)), x = IssuanceRow(TxIn(txs, q), v, HeightAt(q))
        PROVE  \E i \in IssuingIn(txs, P) : x = RowOf(i)
    <2>1. <<q, v>> \in IssuingIn(txs, P)
      BY <1>3
    <2> QED
      BY <1>2, <1>4, <2>1
  <1>5. ASSUME NEW i \in IssuingIn(txs, P), x = RowOf(i)
        PROVE  \E q \in P : \E v \in IssuingInputs(TxIn(txs, q)) : x = IssuanceRow(TxIn(txs, q), v, HeightAt(q))
    <2>1. PICK q \in P : \E v \in IssuingInputs(TxIn(txs, q)) : i = <<q, v>>
      BY <1>3
    <2>2. PICK v \in IssuingInputs(TxIn(txs, q)) : i = <<q, v>>
      BY <2>1
    <2>3. x = IssuanceRow(TxIn(txs, q), v, HeightAt(q))
      BY <1>2, <1>5, <2>2
    <2> QED
      BY <2>3
  <1> QED
    BY <1>1, <1>4, <1>5

\* The row a of the asset with origin i, if refreshing the assets in ids makes its
\* aggregates those of the places Q.
Refreshable(a, i, Q, ids) ==
    LET asset == IssuanceIn(txs, i).asset
    IN  \/ a = OriginRow(i) /\ asset \in ids
        \/ \E X : a = Refreshed(OriginRow(i), X) /\ (asset \notin ids => X = IssuancesAt(Q, asset))

AllRefreshable(d, Q, ids) ==
    /\ \A a \in d.assets : \E i \in OriginsIn(txs, Q) : Refreshable(a, i, Q, ids)
    /\ \A i \in OriginsIn(txs, Q) : \E a \in d.assets : Refreshable(a, i, Q, ids)

LEMMA RefreshedToFull ==
    ASSUME NEW d, DOMAIN d = DOMAIN EmptyDb, NEW Q, d.issuances = IssuanceRowsOf(txs, Q),
           NEW ids, AllRefreshable(d, Q, ids)
    PROVE  RefreshAssets(d, ids).assets = AssetRowsOf(txs, Q)
  <1> DEFINE RowsFor(a) == { r \in d.issuances : r.asset = a.asset }
             New(a) == IF a.asset \in ids /\ RowsFor(a) # {} THEN Refreshed(a, RowsFor(a)) ELSE a
  <1>1. RefreshAssets(d, ids).assets = { New(a) : a \in d.assets }
    BY TableNames DEF RefreshAssets
  <1>2. ASSUME NEW i \in OriginsIn(txs, Q), NEW a, Refreshable(a, i, Q, ids)
        PROVE  New(a) = FullRow(Q, i)
    <2> DEFINE asset == IssuanceIn(txs, i).asset
    <2>1. a.asset = asset
      BY <1>2, RefreshedRow, OriginRowFields DEF Refreshable
    <2>2. RowsFor(a) = IssuancesAt(Q, asset)
      BY <2>1 DEF IssuancesAt
    <2>3. RowsFor(a) # {}
      <3>1. RowOf(i) \in IssuanceRowsOf(txs, Q)
        BY IssuanceRowsAre DEF OriginsIn
      <3>2. RowOf(i).asset = asset
        BY RowOfFields
      <3> QED
        BY <2>1, <3>1, <3>2
    <2> HIDE DEF RowsFor
    <2>4. CASE asset \in ids
      <3>1. New(a) = Refreshed(a, IssuancesAt(Q, asset))
        BY <2>1, <2>2, <2>3, <2>4
      <3>2. CASE a = OriginRow(i)
        BY <3>1, <3>2 DEF FullRow
      <3>3. CASE \E X : a = Refreshed(OriginRow(i), X)
        BY <3>1, <3>3, RefreshedRow DEF FullRow
      <3> QED
        BY <1>2, <3>2, <3>3 DEF Refreshable
    <2>5. CASE asset \notin ids
      <3>1. New(a) = a
        BY <2>1, <2>5
      <3>2. a = Refreshed(OriginRow(i), IssuancesAt(Q, asset))
        BY <1>2, <2>5 DEF Refreshable
      <3> QED
        BY <3>1, <3>2 DEF FullRow
    <2> QED
      BY <2>4, <2>5
  <1> HIDE DEF New
  <1>3. \A x : x \in { New(a) : a \in d.assets } <=> x \in AssetRowsOf(txs, Q)
    <2> SUFFICES ASSUME NEW x
                 PROVE  (\E a \in d.assets : x = New(a)) <=> \E i \in OriginsIn(txs, Q) : x = FullRow(Q, i)
      BY AssetRowsAre
    <2> QED
      BY <1>2 DEF AllRefreshable
  <1> QED
    BY <1>1, <1>3

\* An asset that is not issued between two sets of places has the same issuances in both.
LEMMA SameIssuances ==
    ASSUME NEW P0, NEW P, P0 \subseteq P, NEW asset,
           \A i \in IssuingIn(txs, P \ P0) : IssuanceIn(txs, i).asset # asset
    PROVE  IssuancesAt(P0, asset) = IssuancesAt(P, asset)
  <1>1. \A i : /\ i \in IssuingIn(txs, P0) => i \in IssuingIn(txs, P)
               /\ i \in IssuingIn(txs, P) => i \in IssuingIn(txs, P0) \/ i \in IssuingIn(txs, P \ P0)
    BY IssuingAre
  <1>2. \A x : x \in IssuancesAt(P0, asset) <=> x \in IssuancesAt(P, asset)
    <2> SUFFICES ASSUME NEW x
                 PROVE  x \in IssuancesAt(P0, asset) <=> x \in IssuancesAt(P, asset)
      OBVIOUS
    <2>1. x \in IssuancesAt(P0, asset) <=>
            x.asset = asset /\ \E i \in IssuingIn(txs, P0) : x = RowOf(i)
      BY IssuanceRowsAre DEF IssuancesAt
    <2>2. x \in IssuancesAt(P, asset) <=>
            x.asset = asset /\ \E i \in IssuingIn(txs, P) : x = RowOf(i)
      BY IssuanceRowsAre DEF IssuancesAt
    <2> QED
      BY <1>1, <2>1, <2>2, RowOfFields
  <1> QED
    BY <1>2

\* The assets issued at some places are among ids.
Covers(ids, Q) == \A i \in IssuingIn(txs, Q) : IssuanceIn(txs, i).asset \in ids

\* A batch touches the assets it issues, so refreshing them is enough.
LEMMA GrownRefreshable ==
    ASSUME NEW d, NEW P0, NEW P, AssetsGrown(d, P0, P), NEW ids, Covers(ids, P \ P0)
    PROVE  AllRefreshable(d, P, ids)
  <1>1. P0 \subseteq P /\ d.assets = AssetRowsOf(txs, P0) \cup RawRows(P \ P0)
    BY DEF AssetsGrown
  <1>2. ASSUME NEW i \in OriginsIn(txs, P0) PROVE Refreshable(FullRow(P0, i), i, P, ids)
    <2> DEFINE asset == IssuanceIn(txs, i).asset
    <2>1. asset \notin ids => IssuancesAt(P0, asset) = IssuancesAt(P, asset)
      BY <1>1, SameIssuances DEF Covers
    <2> QED
      BY <2>1 DEF Refreshable, FullRow
  <1>3. ASSUME NEW i \in OriginsIn(txs, P \ P0) PROVE Refreshable(OriginRow(i), i, P, ids)
    BY DEF Refreshable, Covers, OriginsIn
  <1>4. \A i : i \in OriginsIn(txs, P) <=> i \in OriginsIn(txs, P0) \/ i \in OriginsIn(txs, P \ P0)
    BY <1>1, OriginsAre
  <1>5. \A a : a \in d.assets <=> \/ \E i \in OriginsIn(txs, P0) : a = FullRow(P0, i)
                                  \/ \E i \in OriginsIn(txs, P \ P0) : a = OriginRow(i)
    BY <1>1, AssetRowsAre DEF RawRows
  <1> QED
    BY <1>2, <1>3, <1>4, <1>5 DEF AllRefreshable

\* A rollback touches the assets issued in the block it removes.
LEMMA LeftRefreshable ==
    ASSUME txs \in Contents, NEW B, NEW b, OnTop(B, b), NEW d,
           d.assets = NotAt(AssetRowsOf(txs, PlacesIn(txs, B \cup {b})), Height[b]),
           NEW ids, Covers(ids, PlacesIn(txs, B \cup {b}) \ PlacesIn(txs, B))
    PROVE  AllRefreshable(d, PlacesIn(txs, B), ids)
  <1> DEFINE P0 == PlacesIn(txs, B)
             P == PlacesIn(txs, B \cup {b})
  <1>1. P0 \subseteq P
    BY OnTopPlaces
  <1>2. ASSUME NEW i \in OriginsIn(txs, P0) PROVE Refreshable(FullRow(P, i), i, P0, ids)
    <2> DEFINE asset == IssuanceIn(txs, i).asset
    <2>1. asset \notin ids => IssuancesAt(P0, asset) = IssuancesAt(P, asset)
      <3>1. Covers(ids, P \ P0)
        OBVIOUS
      <3> HIDE DEF P, P0
      <3> QED
        BY <1>1, <3>1, SameIssuances DEF Covers
    <2> QED
      BY <2>1 DEF Refreshable, FullRow
  <1>3. \A i \in OriginsIn(txs, P) : i \in OriginsIn(txs, P0) <=> HeightAt(i[1]) # Height[b]
    BY TopPlaces, OriginFacts, OriginsAre
  <1>4. \A i : i \in OriginsIn(txs, P0) => i \in OriginsIn(txs, P)
    <2> HIDE DEF P, P0
    <2> QED
      BY <1>1, OriginsAre
  <1>5. \A i : FullRow(P, i).height = HeightAt(i[1])
    BY RefreshedRow DEF FullRow
  <1>6. \A a : a \in d.assets <=> \E i \in OriginsIn(txs, P0) : a = FullRow(P, i)
    <2> SUFFICES ASSUME NEW a
                 PROVE  a \in d.assets <=> \E i \in OriginsIn(txs, P0) : a = FullRow(P, i)
      OBVIOUS
    <2>1. a \in d.assets <=> a.height # Height[b] /\ \E i \in OriginsIn(txs, P) : a = FullRow(P, i)
      BY AssetRowsAre DEF NotAt
    <2> HIDE DEF P, P0
    <2> QED
      BY <1>3, <1>4, <1>5, <2>1
  <1> HIDE DEF P, P0
  <1>7. AllRefreshable(d, P0, ids)
    BY <1>2, <1>6 DEF AllRefreshable
  <1> QED
    BY <1>7 DEF P0

-------------------------------------------------------------------------------
(* The aggregates *)

LEMMA PlacesFinite ==
    ASSUME txs \in Contents, NEW B \in SUBSET Block, IsFiniteSet(B)
    PROVE  IsFiniteSet(PlacesIn(txs, B))
  <1> DEFINE P == PlacesIn(txs, B)
             m == [b \in B |-> { <<b, p>> : p \in DOMAIN txs[b] }]
             parts == { m[b] : b \in B }
  <1>1. ASSUME NEW b \in B PROVE IsFiniteSet(m[b])
    <2> DEFINE n == [p \in DOMAIN txs[b] |-> <<b, p>>]
    <2>1. IsFiniteSet(DOMAIN txs[b])
      BY ContentsAssumption, FS_Interval
    <2>2. IsFiniteSet({ n[p] : p \in DOMAIN txs[b] })
      <3> HIDE DEF n
      <3> QED
        BY <2>1, ImageFinite
    <2> QED
      BY <2>2
  <1>2. P = UNION parts
    BY DEF PlacesIn
  <1> HIDE DEF m
  <1>3. IsFiniteSet(parts)
    BY ImageFinite
  <1>4. \A T \in parts : IsFiniteSet(T)
    BY <1>1
  <1> HIDE DEF P, parts
  <1>5. IsFiniteSet(P)
    BY <1>2, <1>3, <1>4, FS_UNION
  <1> QED
    BY <1>5 DEF P

LEMMA InputsFinite ==
    ASSUME txs \in Contents, NEW B \in SUBSET Block, IsFiniteSet(B)
    PROVE  IsFiniteSet(InputsIn(txs, PlacesIn(txs, B)))
  <1> DEFINE P == PlacesIn(txs, B)
  <1>1. IsFiniteSet(P)
    BY PlacesFinite
  <1>2. IsFiniteSet(InputsIn(txs, P))
    <2> DEFINE m == [q \in P |-> { <<q, v>> : v \in DOMAIN Vin[TxIn(txs, q)] }]
               parts == { m[q] : q \in P }
    <2>1. ASSUME NEW q \in P PROVE IsFiniteSet(m[q])
      <3> DEFINE D == DOMAIN Vin[TxIn(txs, q)]
                 n == [v \in D |-> <<q, v>>]
      <3>1. IsFiniteSet(D)
        BY PlaceFacts, TransactionsAssumption, FS_Interval
      <3>2. IsFiniteSet({ n[v] : v \in D })
        <4> HIDE DEF n, D
        <4> QED
          BY <3>1, ImageFinite
      <3> QED
        BY <3>2
    <2>2. InputsIn(txs, P) = UNION parts
      <3> HIDE DEF P
      <3> QED
        BY DEF InputsIn
    <2> HIDE DEF m, P
    <2>3. IsFiniteSet(parts)
      BY <1>1, ImageFinite
    <2>4. \A T \in parts : IsFiniteSet(T)
      BY <2>1
    <2> HIDE DEF parts
    <2> QED
      BY <2>2, <2>3, <2>4, FS_UNION
  <1> QED
    BY <1>2

LEMMA OutputsFinite ==
    ASSUME txs \in Contents, NEW B \in SUBSET Block, IsFiniteSet(B)
    PROVE  IsFiniteSet(OutputsOf(txs, PlacesIn(txs, B)))
  <1> DEFINE P == PlacesIn(txs, B)
             m == [q \in P |-> { OutputRow(txs, P, q, o) : o \in DOMAIN Vout[TxIn(txs, q)] }]
             parts == { m[q] : q \in P }
  <1>1. IsFiniteSet(P)
    BY PlacesFinite
  <1>2. ASSUME NEW q \in P PROVE IsFiniteSet(m[q])
    <2> DEFINE D == DOMAIN Vout[TxIn(txs, q)]
               n == [o \in D |-> OutputRow(txs, P, q, o)]
    <2>1. IsFiniteSet(D)
      <3>1. TxIn(txs, q) \in Tx
        BY PlaceFacts
      <3> QED
        BY <3>1, TransactionsAssumption, FS_Interval
    <2>2. IsFiniteSet({ n[o] : o \in D })
      <3> HIDE DEF n, D
      <3> QED
        BY <2>1, ImageFinite
    <2> QED
      BY <2>2
  <1>3. OutputsOf(txs, P) = UNION parts
    <2> HIDE DEF P
    <2> QED
      BY DEF OutputsOf
  <1>4. OutputsOf(txs, P) = OutputsOf(txs, PlacesIn(txs, B))
    OBVIOUS
  <1> HIDE DEF m, P
  <1>5. IsFiniteSet(parts)
    BY <1>1, ImageFinite
  <1>6. \A T \in parts : IsFiniteSet(T)
    BY <1>2
  <1> HIDE DEF parts
  <1> QED
    BY <1>3, <1>4, <1>5, <1>6, FS_UNION

LEMMA IssuingFinite ==
    ASSUME txs \in Contents, NEW B \in SUBSET Block, IsFiniteSet(B)
    PROVE  IsFiniteSet(IssuingIn(txs, PlacesIn(txs, B)))
  <1>1. IssuingIn(txs, PlacesIn(txs, B)) \in SUBSET InputsIn(txs, PlacesIn(txs, B))
    BY DEF IssuingIn
  <1> QED
    BY <1>1, InputsFinite, FS_Subset

\* A row tells which issuance it is: no transaction is twice on a branch.
LEMMA RowOfInjective ==
    ASSUME txs \in Contents, NEW B \in SUBSET Block, IsBranch(B),
           NEW i \in IssuingIn(txs, PlacesIn(txs, B)), NEW j \in IssuingIn(txs, PlacesIn(txs, B)),
           RowOf(i) = RowOf(j)
    PROVE  i = j
  <1>1. TxIn(txs, i[1]) = TxIn(txs, j[1]) /\ i[2] = j[2]
    <2>1. \A k : RowOf(k).txid = TxIn(txs, k[1]) /\ RowOf(k).vin = k[2]
      BY DEF RowOf, IssuanceRow
    <2> QED
      BY <2>1
  <1>2. i[1] \in PlacesIn(txs, B) /\ j[1] \in PlacesIn(txs, B)
        /\ i = <<i[1], i[2]>> /\ j = <<j[1], j[2]>>
    <2>1. i \in InputsIn(txs, PlacesIn(txs, B)) /\ j \in InputsIn(txs, PlacesIn(txs, B))
      BY DEF IssuingIn
    <2> QED
      BY <2>1, InputFacts
  <1>3. i[1] = j[1]
    BY <1>1, <1>2, BranchRules
  <1> QED
    BY <1>1, <1>2, <1>3

\* What is known of the amounts a printed issuance has.
Printed(given, blinded, T) ==
    \A i \in T : given[i] # Null => given[i] \in Nat /\ blinded[i] = FALSE

\* The supply refreshAssets computes from the rows of the issuances T is the sum of
\* the printed amounts, unless one is blinded.
LEMMA SupplyCorrect ==
    ASSUME txs \in Contents, NEW B \in SUBSET Block, IsBranch(B), IsFiniteSet(B),
           NEW T \in SUBSET IssuingIn(txs, PlacesIn(txs, B)),
           NEW given, NEW blinded, Printed(given, blinded, T),
           NEW amount, DOMAIN amount = { RowOf(i) : i \in T },
           \A i \in T : amount[RowOf(i)] = AmountSats(given[i], blinded[i])
    PROVE  SumOrNull(amount) = IF \E i \in T : blinded[i] THEN Null
                               ELSE SumFunction([i \in T |-> Explicit(given[i])])
  <1>1. Null # 0
    BY TransactionsAssumption
  <1>2. \A i \in T : amount[RowOf(i)] = Null <=> blinded[i]
    BY <1>1 DEF AmountSats, Printed
  <1>3. CASE \E i \in T : blinded[i]
    BY <1>2, <1>3 DEF SumOrNull
  <1>4. CASE \A i \in T : ~blinded[i]
    <2> DEFINE m == [i \in T |-> RowOf(i)]
               f == [i \in T |-> Explicit(given[i])]
    <2>1. IsFiniteSet(T)
      BY IssuingFinite, FS_Subset
    <2>2. \A i, j \in T : m[i] = m[j] => i = j
      BY RowOfInjective
    <2>3. IntOn(f, T)
      BY DEF IntOn, Explicit, Printed
    <2>4. \A i \in T : amount[m[i]] = f[i]
      BY <1>4 DEF AmountSats, Explicit
    <2>5. { m[i] : i \in T } = DOMAIN amount
      OBVIOUS
    <2>6. SumFunction(amount) = SumFunctionOnSet(amount, { m[i] : i \in T })
      BY <2>5 DEF SumFunction
    <2>7. SumFunction(f) = SumFunctionOnSet(f, T)
      BY DEF SumFunction
    <2> HIDE DEF m, f
    <2>8. SumFunction(amount) = SumFunction(f)
      BY <2>1, <2>2, <2>3, <2>4, <2>6, <2>7, SumRenamed
    <2>9. SumOrNull(amount) = SumFunction(amount)
      <3>1. \A r \in DOMAIN amount : amount[r] # Null
        BY <1>2, <1>4
      <3> QED
        BY <3>1 DEF SumOrNull
    <2> QED
      BY <1>4, <2>8, <2>9 DEF f
  <1> QED
    BY <1>3, <1>4

\* insertIssuance checks the identifiers that the chain's rules give.
LEMMA VerifiedCorrect ==
    ASSUME NEW i
    PROVE  DerivationVerified(i) <=> HonestIds(i)
  <1> DEFINE tag == IF i.blinded THEN 2 ELSE 1
  <1>1. \A k \in DOMAIN FastMerkle : FastMerkle[k] # Null
    BY TransactionsAssumption
  <1>2. DerivationVerified(i) <=>
          /\ Derive(i.entropy, 0) # Null /\ Derive(i.entropy, 0) = i.asset
          /\ Derive(i.entropy, tag) # Null /\ Derive(i.entropy, tag) = i.tokenId
    BY DEF DerivationVerified, AssetIDFromEntropy, ReissuanceTokenFromEntropy
  <1>3. HonestIds(i) <=>
          /\ <<i.entropy, 0>> \in DOMAIN FastMerkle /\ i.asset = FastMerkle[<<i.entropy, 0>>]
          /\ <<i.entropy, tag>> \in DOMAIN FastMerkle /\ i.tokenId = FastMerkle[<<i.entropy, tag>>]
    BY DEF HonestIds
  <1> HIDE DEF tag
  <1> QED
    BY <1>1, <1>2, <1>3 DEF Derive

\* What AssetsExact says of one asset.
AssetCorrect(a, P) ==
    LET all == IssuancesIn(txs, P, a.asset)
        At(i) == IssuanceIn(txs, i)
        origin == CHOOSE i \in all : ~At(i).reissuance
    IN  /\ <<a.txid, a.vin, a.height>> = <<TxIn(txs, origin[1]), origin[2], HeightAt(origin[1])>>
        /\ a.confidential = At(origin).blinded
        /\ a.verified = HonestIds(At(origin))
        /\ a.issuances = Cardinality(all)
        /\ a.reissuances = Cardinality({ i \in all : At(i).reissuance })
        /\ a.issued = IF \E i \in all : At(i).blinded THEN Null
                      ELSE SumFunction([i \in all |-> Explicit(At(i).amount)])
        /\ a.tokens = IF \E i \in all : At(i).tokenBlinded THEN Null
                      ELSE SumFunction([i \in all |-> Explicit(At(i).token)])

LEMMA AssetRowCorrect ==
    ASSUME txs \in Contents, NEW B \in SUBSET Block, IsBranch(B), IsFiniteSet(B),
           NEW o \in OriginsIn(txs, PlacesIn(txs, B))
    PROVE  AssetCorrect(FullRow(PlacesIn(txs, B), o), PlacesIn(txs, B))
  <1> DEFINE P == PlacesIn(txs, B)
             At(i) == IssuanceIn(txs, i)
             asset == At(o).asset
             a == FullRow(P, o)
             rows == IssuancesAt(P, asset)
             all == IssuancesIn(txs, P, asset)
             m == [i \in all |-> RowOf(i)]
             again == { i \in all : At(i).reissuance }
             n == [i \in again |-> RowOf(i)]
  <1>1. a.asset = asset
    BY RefreshedRow DEF FullRow
  <1>2. o \in all /\ ~At(o).reissuance
    BY DEF IssuancesIn, OriginsIn
  <1>3. \A i \in all : ~At(i).reissuance => i = o
    <2> SUFFICES ASSUME NEW i \in all, ~At(i).reissuance PROVE i = o
      OBVIOUS
    <2>1. i \in OriginsIn(txs, P) /\ SameAsset(txs, i, o)
      BY DEF IssuancesIn, OriginsIn, SameAsset
    <2> QED
      BY <2>1, OriginRules
  <1>4. (CHOOSE i \in all : ~At(i).reissuance) = o
    <2> HIDE DEF all, At
    <2> QED
      BY <1>2, <1>3
  \* The rows stand for the issuances, one to one.
  <1>5. rows = { RowOf(i) : i \in all }
    <2>1. \A x : x \in rows <=> x.asset = asset /\ \E i \in IssuingIn(txs, P) : x = RowOf(i)
      BY IssuanceRowsAre DEF IssuancesAt
    <2>2. \A i : i \in all <=> i \in IssuingIn(txs, P) /\ RowOf(i).asset = asset
      BY RowOfFields DEF IssuancesIn
    <2> HIDE DEF rows, all, P, asset
    <2> QED
      BY <2>1, <2>2
  <1>6. all \in SUBSET IssuingIn(txs, P)
    BY DEF IssuancesIn
  <1>7. IsFiniteSet(all) /\ IsFiniteSet(again)
    <2>1. IsFiniteSet(IssuingIn(txs, P))
      BY IssuingFinite
    <2> HIDE DEF all
    <2>2. IsFiniteSet(all) /\ again \in SUBSET all
      BY <1>6, <2>1, FS_Subset
    <2> QED
      BY <2>2, FS_Subset
  <1>8. \A i, j \in all : RowOf(i) = RowOf(j) => i = j
    BY <1>6, RowOfInjective
  <1>9. \A i : /\ RowOf(i).reissuance = At(i).reissuance
               /\ RowOf(i).amount = AmountSats(At(i).amount, At(i).blinded)
               /\ RowOf(i).token = AmountSats(At(i).token, At(i).tokenBlinded)
    BY DEF RowOf, IssuanceRow, IssuanceIn
  <1>10. Cardinality(rows) = Cardinality(all)
    <2>1. rows = { m[i] : i \in all } /\ \A i, j \in all : m[i] = m[j] => i = j
      BY <1>5, <1>8
    <2> HIDE DEF rows, all, m
    <2> QED
      BY <1>7, <2>1, ImageSize
  <1>11. Cardinality({ r \in rows : r.reissuance }) = Cardinality(again)
    <2>1. \A i, j \in again : n[i] = n[j] => i = j
      BY <1>8
    <2>2. { r \in rows : r.reissuance } = { n[i] : i \in again }
      <3> HIDE DEF rows, all, At
      <3> QED
        BY <1>5, <1>9
    <2> HIDE DEF rows, again, n
    <2> QED
      BY <1>7, <2>1, <2>2, ImageSize
  <1>12. \A i \in all : /\ At(i).amount # Null => At(i).amount \in Nat /\ ~At(i).blinded
                        /\ At(i).token # Null => At(i).token \in Nat /\ ~At(i).tokenBlinded
    <2> SUFFICES ASSUME NEW i \in all
                 PROVE  /\ At(i).amount # Null => At(i).amount \in Nat /\ ~At(i).blinded
                        /\ At(i).token # Null => At(i).token \in Nat /\ ~At(i).tokenBlinded
      OBVIOUS
    <2>1. i \in InputsIn(txs, P) /\ At(i) # Null
      BY <1>6 DEF IssuingIn
    <2>2. i[1] \in P /\ i[2] \in DOMAIN Vin[TxIn(txs, i[1])]
      BY <2>1, InputFacts
    <2>3. TxIn(txs, i[1]) \in Tx
      BY <2>2, PlaceFacts
    <2>4. At(i) = Vin[TxIn(txs, i[1])][i[2]].issuance
      BY DEF IssuanceIn
    <2> QED
      BY <2>1, <2>2, <2>3, <2>4, TransactionsAssumption
  <1>13. SumOrNull([r \in rows |-> r.amount]) =
           IF \E i \in all : At(i).blinded THEN Null
           ELSE SumFunction([i \in all |-> Explicit(At(i).amount)])
    <2> DEFINE given == [i \in all |-> At(i).amount]
               blinded == [i \in all |-> IF At(i).blinded THEN TRUE ELSE FALSE]
               amount == [r \in rows |-> r.amount]
    <2>1. Printed(given, blinded, all)
      BY <1>12 DEF Printed
    <2>2. DOMAIN amount = { RowOf(i) : i \in all }
      BY <1>5
    <2>3. \A i \in all : amount[RowOf(i)] = AmountSats(given[i], blinded[i])
      <3> HIDE DEF rows, all, At
      <3> QED
        BY <1>5, <1>9 DEF AmountSats
    <2>4. \A i \in all : (blinded[i] <=> At(i).blinded) /\ given[i] = At(i).amount
      OBVIOUS
    <2> HIDE DEF given, blinded, amount, all
    <2>5. SumOrNull(amount) = IF \E i \in all : blinded[i] THEN Null
                              ELSE SumFunction([i \in all |-> Explicit(given[i])])
      BY <1>6, <2>1, <2>2, <2>3, SupplyCorrect
    <2>6. [i \in all |-> Explicit(given[i])] = [i \in all |-> Explicit(At(i).amount)]
      BY <2>4
    <2>7. (\E i \in all : blinded[i]) <=> \E i \in all : At(i).blinded
      BY <2>4
    <2> QED
      BY <2>5, <2>6, <2>7 DEF amount
  <1>14. SumOrNull([r \in rows |-> r.token]) =
           IF \E i \in all : At(i).tokenBlinded THEN Null
           ELSE SumFunction([i \in all |-> Explicit(At(i).token)])
    <2> DEFINE given == [i \in all |-> At(i).token]
               blinded == [i \in all |-> IF At(i).tokenBlinded THEN TRUE ELSE FALSE]
               amount == [r \in rows |-> r.token]
    <2>1. Printed(given, blinded, all)
      BY <1>12 DEF Printed
    <2>2. DOMAIN amount = { RowOf(i) : i \in all }
      BY <1>5
    <2>3. \A i \in all : amount[RowOf(i)] = AmountSats(given[i], blinded[i])
      <3> HIDE DEF rows, all, At
      <3> QED
        BY <1>5, <1>9 DEF AmountSats
    <2>4. \A i \in all : (blinded[i] <=> At(i).tokenBlinded) /\ given[i] = At(i).token
      OBVIOUS
    <2> HIDE DEF given, blinded, amount, all
    <2>5. SumOrNull(amount) = IF \E i \in all : blinded[i] THEN Null
                              ELSE SumFunction([i \in all |-> Explicit(given[i])])
      BY <1>6, <2>1, <2>2, <2>3, SupplyCorrect
    <2>6. [i \in all |-> Explicit(given[i])] = [i \in all |-> Explicit(At(i).token)]
      BY <2>4
    <2>7. (\E i \in all : blinded[i]) <=> \E i \in all : At(i).tokenBlinded
      BY <2>4
    <2> QED
      BY <2>5, <2>6, <2>7 DEF amount
  <1>15. /\ a.txid = TxIn(txs, o[1]) /\ a.vin = o[2] /\ a.height = HeightAt(o[1])
         /\ a.confidential = At(o).blinded /\ a.verified = DerivationVerified(At(o))
         /\ a.issuances = Cardinality(rows) /\ a.reissuances = Cardinality({ r \in rows : r.reissuance })
         /\ a.issued = SumOrNull([r \in rows |-> r.amount])
         /\ a.tokens = SumOrNull([r \in rows |-> r.token])
    <2> HIDE DEF rows
    <2> QED
      BY DEF FullRow, Refreshed, OriginRow, AssetRow, IssuanceIn, rows
  <1>16. a.verified = HonestIds(At(o))
    <2>1. DerivationVerified(At(o)) = HonestIds(At(o))
      <3>1. DerivationVerified(At(o)) <=> HonestIds(At(o))
        BY VerifiedCorrect
      <3>2. DerivationVerified(At(o)) \in BOOLEAN /\ HonestIds(At(o)) \in BOOLEAN
        BY DEF DerivationVerified, HonestIds
      <3> QED
        BY <3>1, <3>2
    <2> QED
      BY <1>15, <2>1
  <1> HIDE DEF a, At, rows, all, asset, again, P
  <1> QED
    BY <1>1, <1>4, <1>10, <1>11, <1>13, <1>14, <1>15, <1>16 DEF AssetCorrect, all, again, At, a, P

-------------------------------------------------------------------------------
(* The inductive invariant *)

\* The same, of the contents c and the tables d, for the branch B to block p.
Held(c, d, B, p) ==
    /\ c \in Contents
    /\ BranchTo(B, p)
    /\ DOMAIN d = DOMAIN EmptyDb
    /\ d.outputs = OutputsOf(c, PlacesIn(c, B))
    /\ d.transactions = TransactionsOf(c, PlacesIn(c, B))
    /\ d.inputs = InputsOf(c, PlacesIn(c, B))
    /\ d.issuances = IssuanceRowsOf(c, PlacesIn(c, B))
    /\ d.assets = AssetRowsOf(c, PlacesIn(c, B))
    /\ d.addressTxs = AddressTxsOf(c, PlacesIn(c, B))
    /\ d.blocks = { [height |-> Height[b], hash |-> b, fees |-> FeesIn(c, b)] : b \in B }
    /\ d.cursor = IF p = NoBlock THEN NoCursor ELSE [height |-> Height[p], hash |-> p]
    /\ B # {} => d.genesis \in B /\ Height[d.genesis] = 0

LEMMA BlockRows ==
    ASSUME txs \in Contents, NEW B \in SUBSET Block
    PROVE  { [height |-> Height[b], hash |-> b, fees |-> FeesIn(txs, b)] : b \in B }
             = { BlockRow(b) : b \in B }
  <1>1. \A b \in B : BlockRow(b) = [height |-> Height[b], hash |-> b, fees |-> FeesIn(txs, b)]
    BY FeesCorrect DEF BlockRow
  <1> QED
    BY <1>1

LEMMA HeldIsStored ==
    ASSUME NEW d, NEW B, NEW p
    PROVE  Held(txs, d, B, p) <=>
             /\ txs \in Contents /\ BranchTo(B, p) /\ Stored(d, B)
             /\ d.assets = AssetRowsOf(txs, PlacesIn(txs, B))
             /\ d.cursor = IF p = NoBlock THEN NoCursor ELSE [height |-> Height[p], hash |-> p]
             /\ B # {} => d.genesis \in B /\ Height[d.genesis] = 0
  <1>1. ASSUME txs \in Contents, BranchTo(B, p)
        PROVE  { [height |-> Height[b], hash |-> b, fees |-> FeesIn(txs, b)] : b \in B }
                 = { BlockRow(b) : b \in B }
    BY <1>1, BlockRows DEF BranchTo
  <1> QED
    BY <1>1 DEF Held, Stored, Rows

LEMMA InvariantHeld ==
    ASSUME IInv
    PROVE  Held(txs, db, Indexed, db.cursor.hash)
  <1> DEFINE p == db.cursor.hash
             Row(b) == [height |-> Height[b], hash |-> b, fees |-> FeesIn(txs, b)]
  <1>1. BranchStored /\ SpentMarkersExact /\ HistoryExact /\ FeesExact
        /\ db.issuances = IssuanceRowsOf(txs, Places) /\ db.assets = AssetRowsOf(txs, Places)
    BY DEF IInv
  <1>2. txs \in Contents /\ DOMAIN db = DOMAIN EmptyDb
    BY <1>1 DEF BranchStored
  <1>3. db.blocks = { Row(b) : b \in Indexed }
    <2>1. \A r \in db.blocks : r = Row(r.hash)
      BY <1>1 DEF BranchStored, FeesExact
    <2> HIDE DEF Row
    <2> QED
      BY <2>1 DEF Indexed
  <1>4. BranchTo(Indexed, p) /\ db.cursor = IF p = NoBlock THEN NoCursor ELSE [height |-> Height[p], hash |-> p]
    <2>1. Indexed \in SUBSET Block /\ IsBranch(Indexed) /\ IsFiniteSet(Indexed)
          /\ Cardinality(Indexed) = db.cursor.height + 1
      BY <1>1 DEF BranchStored, HistoryExact
    <2>2. CASE Indexed = {}
      <3>1. db.cursor = NoCursor
        BY <1>1, <2>2 DEF BranchStored
      <3>2. p = NoBlock /\ db.cursor.height = -1
        BY <3>1 DEF NoCursor
      <3> QED
        BY <2>1, <2>2, <3>1, <3>2 DEF BranchTo
    <2>3. CASE Indexed # {}
      <3>1. p \in Indexed /\ db.cursor = [height |-> Height[p], hash |-> p]
            /\ \A b \in Indexed : Height[b] <= db.cursor.height
        BY <1>1, <2>3 DEF BranchStored
      <3>2. p # NoBlock /\ db.cursor.height = Height[p]
        BY <2>1, <3>1, ConstantsAssumption
      <3> QED
        BY <2>1, <3>1, <3>2 DEF BranchTo
    <2> QED
      BY <2>2, <2>3
  <1>5. Indexed # {} => db.genesis \in Indexed /\ Height[db.genesis] = 0
    BY <1>1 DEF HistoryExact
  <1> QED
    BY <1>1, <1>2, <1>3, <1>4, <1>5 DEF Held, SpentMarkersExact, HistoryExact, Places

LEMMA HeldInvariant ==
    ASSUME NEW B, NEW p, Held(txs', db', B, p)
    PROVE  IInv'
  <1> DEFINE Row(b) == [height |-> Height[b], hash |-> b, fees |-> FeesIn(txs', b)]
  <1>1. db'.blocks = { Row(b) : b \in B }
    BY DEF Held
  <1>2. Indexed' = B
    <2>1. \A b : Row(b).hash = b
      OBVIOUS
    <2> HIDE DEF Row
    <2> QED
      BY <1>1, <2>1 DEF Indexed
  <1>3. Places' = PlacesIn(txs', B)
    BY <1>2 DEF Places
  <1>4. /\ B \in SUBSET Block /\ IsBranch(B) /\ IsFiniteSet(B)
        /\ Cardinality(B) = db'.cursor.height + 1
        /\ IF B = {} THEN db'.cursor = NoCursor
           ELSE /\ db'.cursor.hash \in B
                /\ db'.cursor = [height |-> Height[db'.cursor.hash], hash |-> db'.cursor.hash]
                /\ \A b \in B : Height[b] <= db'.cursor.height
        /\ db'.cursor.hash \in B \cup {NoBlock}
    <2>0. BranchTo(B, p)
          /\ db'.cursor = IF p = NoBlock THEN NoCursor ELSE [height |-> Height[p], hash |-> p]
      BY DEF Held
    <2>1. CASE p = NoBlock
      BY <2>0, <2>1 DEF BranchTo, NoCursor
    <2>2. CASE p # NoBlock
      BY <2>0, <2>2 DEF BranchTo
    <2> QED
      BY <2>1, <2>2
  <1>5. \A b \in B : Prev[b] \in B \cup {NoBlock}
    BY <1>4 DEF IsBranch
  <1>6. \A r \in db'.blocks : r = [height |-> Height[r.hash], hash |-> r.hash, fees |-> r.fees]
                              /\ r.fees = FeesIn(txs', r.hash)
    BY <1>1
  <1>7. BranchStored'
    <2>1. txs' \in Contents /\ DOMAIN db' = DOMAIN EmptyDb
      BY DEF Held
    <2> QED
      BY <1>2, <1>4, <1>6, <2>1 DEF BranchStored
  <1>8. SpentMarkersExact'
    BY <1>3 DEF SpentMarkersExact, Held
  <1>9. HistoryExact'
    BY <1>2, <1>3, <1>4, <1>5 DEF HistoryExact, Held
  <1>10. FeesExact'
    BY <1>6 DEF FeesExact
  <1>11. db'.issuances = IssuanceRowsOf(txs', Places') /\ db'.assets = AssetRowsOf(txs', Places')
    BY <1>3 DEF Held
  <1> QED
    BY <1>7, <1>8, <1>9, <1>10, <1>11 DEF IInv

LEMMA EmptyPlaces ==
    /\ PlacesIn(txs, {}) = {}
    /\ OutputsOf(txs, {}) = {} /\ TransactionsOf(txs, {}) = {} /\ InputsOf(txs, {}) = {}
    /\ IssuanceRowsOf(txs, {}) = {} /\ AddressTxsOf(txs, {}) = {} /\ AssetRowsOf(txs, {}) = {}
  <1>1. PlacesIn(txs, {}) = {} /\ InputsIn(txs, {}) = {}
    BY DEF PlacesIn, InputsIn
  <1> QED
    BY <1>1 DEF OutputsOf, TransactionsOf, InputsOf, IssuanceRowsOf, AddressTxsOf, AssetRowsOf,
                OriginsIn, IssuingIn

LEMMA InitIInv ==
    ASSUME Init
    PROVE  IInv
  <1>1. txs \in Contents /\ db = EmptyDb
    BY DEF Init
  <1>2. /\ db.blocks = {} /\ db.outputs = {} /\ db.transactions = {} /\ db.inputs = {}
        /\ db.issuances = {} /\ db.assets = {} /\ db.addressTxs = {} /\ db.cursor = NoCursor
    BY <1>1 DEF EmptyDb
  <1>3. Indexed = {} /\ Places = {}
    BY <1>2, EmptyPlaces DEF Indexed, Places
  <1>4. IsFiniteSet({}) /\ Cardinality({}) = 0
    BY FS_EmptySet
  <1>5. IsBranch({})
    BY DEF IsBranch
  <1>6. BranchStored
    BY <1>1, <1>2, <1>3, <1>4, <1>5 DEF BranchStored
  <1>7. /\ SpentMarkersExact /\ FeesExact
        /\ db.issuances = IssuanceRowsOf(txs, Places) /\ db.assets = AssetRowsOf(txs, Places)
    BY <1>2, <1>3, EmptyPlaces DEF SpentMarkersExact, FeesExact
  <1>8. HistoryExact
    <2>1. db.cursor.hash = NoBlock /\ db.cursor.height = -1
      BY <1>2 DEF NoCursor
    <2> QED
      BY <1>2, <1>3, <1>4, <2>1, EmptyPlaces DEF HistoryExact
  <1> QED
    BY <1>6, <1>7, <1>8 DEF IInv

\* The blocks of a run on top of p are one higher each.
LEMMA RunHeights ==
    ASSUME NEW p \in Block \cup {NoBlock}, NEW n \in Nat \ {0}, NEW run \in RunsOn(p, n)
    PROVE  Height[run[n]] = (IF p = NoBlock THEN -1 ELSE Height[p]) + n
  <1> USE ConstantsAssumption
  <1> DEFINE base == IF p = NoBlock THEN -1 ELSE Height[p]
             S == { k \in Nat : k \in 1..n => Height[run[k]] = base + k }
  <1>1. /\ run \in [1..n -> Block]
        /\ \A i \in 1..n : Prev[run[i]] = IF i = 1 THEN p ELSE run[i - 1]
    BY DEF RunsOn
  <1>2. base \in Int
    OBVIOUS
  <1> HIDE DEF base
  <1>3. 0 \in S
    OBVIOUS
  <1>4. ASSUME NEW k \in Nat, k \in S PROVE k + 1 \in S
    <2> SUFFICES ASSUME k + 1 \in 1..n PROVE Height[run[k + 1]] = base + (k + 1)
      OBVIOUS
    <2>1. CASE k = 0
      <3>1. run[1] \in Block /\ Prev[run[1]] = p
        BY <1>1, <2>1
      <3>2. Height[run[1]] = base + 1
        BY <3>1 DEF base
      <3> QED
        BY <2>1, <3>2
    <2>2. CASE k # 0
      <3>1. k \in 1..n /\ Height[run[k]] = base + k
        BY <1>4, <2>2
      <3>2. run[k + 1] \in Block /\ run[k] \in Block /\ Prev[run[k + 1]] = run[k]
        BY <1>1, <2>2, <3>1
      <3> QED
        BY <1>2, <3>1, <3>2
    <2> QED
      BY <2>1, <2>2
  <1>5. n \in S
    <2> HIDE DEF S
    <2> QED
      BY <1>3, <1>4, SetInduction
  <1> QED
    BY <1>5 DEF base

LEMMA ApplyBlocksIInv ==
    ASSUME IInv, ApplyBlocks
    PROVE  /\ IInv' /\ db'.mempool = db.mempool
           /\ db'.cursor.height <= db.cursor.height + BatchSize
  <1> DEFINE B == Indexed
             p == db.cursor.hash
  <1>1. Held(txs, db, B, p)
    BY InvariantHeld
  <1>2. PICK n \in 1..BatchSize : \E run \in RunsOn(p, n) :
          LET filled == Inserted(db, run, n)
              touched == AssetsAt(filled, { Height[run[i]] : i \in 1..n })
          IN  /\ db' = [RefreshAssets(filled, touched) EXCEPT
                          !.cursor = [height |-> Height[run[n]], hash |-> run[n]],
                          !.genesis = IF Height[run[1]] = 0 THEN run[1] ELSE @]
              /\ UNCHANGED txs
    BY DEF ApplyBlocks
  <1>3. PICK run \in RunsOn(p, n) :
          LET filled == Inserted(db, run, n)
              touched == AssetsAt(filled, { Height[run[i]] : i \in 1..n })
          IN  /\ db' = [RefreshAssets(filled, touched) EXCEPT
                          !.cursor = [height |-> Height[run[n]], hash |-> run[n]],
                          !.genesis = IF Height[run[1]] = 0 THEN run[1] ELSE @]
              /\ UNCHANGED txs
    BY <1>2
  <1> DEFINE filled == Inserted(db, run, n)
             touched == AssetsAt(filled, { Height[run[i]] : i \in 1..n })
             e == RefreshAssets(filled, touched)
             G == BranchWith(B, run, n)
  <1>4. db' = [e EXCEPT !.cursor = [height |-> Height[run[n]], hash |-> run[n]],
                        !.genesis = IF Height[run[1]] = 0 THEN run[1] ELSE @]
        /\ txs' = txs
    BY <1>3
  <1>5. txs \in Contents /\ BranchTo(B, p) /\ Stored(db, B)
        /\ db.assets = AssetRowsOf(txs, PlacesIn(txs, B))
        /\ (B # {} => db.genesis \in B /\ Height[db.genesis] = 0)
    BY <1>1, HeldIsStored
  <1>6. n \in Nat \ {0}
    BY ConstantsAssumption
  <1>7. Stored(filled, G) /\ SamePosition(filled, db) /\ BranchTo(G, run[n])
        /\ AssetsGrown(filled, PlacesIn(txs, B), PlacesIn(txs, G))
    BY <1>5, <1>6, InsertedStored
  <1>8. Stored(e, G) /\ SamePosition(e, filled)
    BY <1>7, RefreshAssetsStored
  <1>9. run[n] \in Block /\ run[1] \in Block /\ Prev[run[1]] = p /\ run[1] \in G /\ B \subseteq G
    BY <1>6 DEF RunsOn, BranchWith
  <1>10. run[n] # NoBlock
    BY <1>9, ConstantsAssumption
  <1>a. e.assets = AssetRowsOf(txs, PlacesIn(txs, G))
    <2>1. filled.issuances = IssuanceRowsOf(txs, PlacesIn(txs, G)) /\ DOMAIN filled = DOMAIN EmptyDb
      BY <1>7 DEF Stored, Rows
    <2>2. Covers(touched, PlacesIn(txs, G) \ PlacesIn(txs, B))
      <3> SUFFICES ASSUME NEW i \in IssuingIn(txs, PlacesIn(txs, G) \ PlacesIn(txs, B))
                   PROVE  IssuanceIn(txs, i).asset \in touched
        BY DEF Covers
      <3>1. i[1] \in PlacesIn(txs, G) \ PlacesIn(txs, B) /\ i \in IssuingIn(txs, PlacesIn(txs, G))
        BY InputFacts, IssuingAre DEF IssuingIn
      <3>2. RowOf(i) \in filled.issuances
        BY <2>1, <3>1, IssuanceRowsAre
      <3>3. RowOf(i).height = Height[i[1][1]] /\ RowOf(i).asset = IssuanceIn(txs, i).asset
        BY RowOfFields DEF HeightAt
      <3>4. i[1][1] \in G /\ i[1][1] \notin B
        <4>1. G \in SUBSET Block
          BY <1>7 DEF BranchTo
        <4>2. i[1][1] \in G /\ i[1][2] \in DOMAIN txs[i[1][1]] /\ i[1] = <<i[1][1], i[1][2]>>
          BY <1>5, <3>1, <4>1, PlaceFacts
        <4>3. i[1][1] \in B => i[1] \in PlacesIn(txs, B)
          BY <4>2, PlaceIn
        <4> QED
          BY <3>1, <4>2, <4>3
      <3>5. PICK k \in 1..n : i[1][1] = run[k]
        BY <3>4 DEF BranchWith
      <3>6. RowOf(i).height \in { Height[run[j]] : j \in 1..n }
        BY <3>3, <3>5
      <3> HIDE DEF filled
      <3> QED
        BY <3>2, <3>3, <3>6 DEF AssetsAt
    <2> HIDE DEF filled, touched, G, B
    <2>3. AllRefreshable(filled, PlacesIn(txs, G), touched)
      BY <1>7, <2>2, GrownRefreshable
    <2> QED
      BY <2>1, <2>3, RefreshedToFull
  <1> HIDE DEF e, filled, G, B, p
  <1>11. DOMAIN e = DOMAIN EmptyDb
    BY <1>8 DEF Stored, Rows
  <1>12. /\ DOMAIN db' = DOMAIN EmptyDb
         /\ db'.outputs = e.outputs /\ db'.transactions = e.transactions /\ db'.inputs = e.inputs
         /\ db'.issuances = e.issuances /\ db'.addressTxs = e.addressTxs /\ db'.blocks = e.blocks
         /\ db'.assets = e.assets /\ db'.mempool = e.mempool
         /\ db'.cursor = [height |-> Height[run[n]], hash |-> run[n]]
         /\ db'.genesis = IF Height[run[1]] = 0 THEN run[1] ELSE e.genesis
    BY <1>4, <1>11, TableNames
  <1>13. Stored(db', G)
    BY <1>8, <1>12 DEF Stored, Rows
  <1>14. db'.genesis \in G /\ Height[db'.genesis] = 0
    <2>1. CASE Height[run[1]] = 0
      BY <1>9, <1>12, <2>1
    <2>2. CASE Height[run[1]] # 0
      <3>1. p # NoBlock
        BY <1>9, <2>2, ConstantsAssumption
      <3>2. B # {}
        BY <1>5, <3>1 DEF BranchTo
      <3>3. db'.genesis = db.genesis
        BY <1>7, <1>8, <1>12, <2>2 DEF SamePosition
      <3> QED
        BY <1>5, <1>9, <3>2, <3>3
    <2> QED
      BY <2>1, <2>2
  <1>15. Held(txs, db', G, run[n])
    BY <1>5, <1>7, <1>10, <1>12, <1>13, <1>14, <1>a, HeldIsStored
  <1>16. Height[run[n]] <= db.cursor.height + BatchSize
    <2>1. Height[run[n]] = db.cursor.height + n
      <3>1. db.cursor = IF p = NoBlock THEN NoCursor ELSE [height |-> Height[p], hash |-> p]
        BY <1>1 DEF Held
      <3>2. db.cursor.height = IF p = NoBlock THEN -1 ELSE Height[p]
        BY <3>1 DEF NoCursor
      <3>3. p \in Block \cup {NoBlock}
        BY <1>5 DEF BranchTo
      <3> QED
        BY <1>6, <3>2, <3>3, RunHeights
    <2>2. db.cursor.height \in Int
      <3>1. db.cursor = IF p = NoBlock THEN NoCursor ELSE [height |-> Height[p], hash |-> p]
        BY <1>1 DEF Held
      <3>2. p \in Block \cup {NoBlock}
        BY <1>5 DEF BranchTo
      <3> QED
        BY <3>1, <3>2, ConstantsAssumption DEF NoCursor
    <2> QED
      BY <2>1, <2>2, ConstantsAssumption
  <1> QED
    BY <1>4, <1>7, <1>8, <1>12, <1>15, <1>16, HeldInvariant DEF SamePosition

\* The highest block left is the parent of the block rolled back.
LEMMA TopLeft ==
    ASSUME NEW B, NEW p \in B, BranchTo(B, p), p # NoBlock
    PROVE  LET blocks == { BlockRow(b) : b \in B }
           IN  (CHOOSE r \in blocks : \A s \in blocks : s.height <= r.height) = BlockRow(p)
  <1> DEFINE blocks == { BlockRow(b) : b \in B }
             Highest(r) == r \in blocks /\ \A s \in blocks : s.height <= r.height
  <1>1. \A b : BlockRow(b).height = Height[b]
    BY DEF BlockRow
  <1>2. \A b \in B : Height[b] \in Nat /\ Height[b] <= Height[p]
    BY ConstantsAssumption DEF BranchTo
  <1>3. Highest(BlockRow(p))
    BY <1>1, <1>2
  <1>4. ASSUME NEW r, Highest(r) PROVE r = BlockRow(p)
    <2>1. PICK b \in B : r = BlockRow(b)
      BY <1>4
    <2>2. Height[p] <= Height[b]
      BY <1>1, <1>4, <2>1
    <2>3. Height[p] = Height[b]
      BY <1>2, <2>2
    <2> QED
      BY <2>1, <2>3 DEF BranchTo, IsBranch
  <1>5. (CHOOSE r : Highest(r)) = BlockRow(p)
    <2> HIDE DEF Highest
    <2> QED
      BY <1>3, <1>4
  <1>6. (CHOOSE r : Highest(r)) = (CHOOSE r \in blocks : \A s \in blocks : s.height <= r.height)
    OBVIOUS
  <1> QED
    BY <1>5, <1>6

LEMMA RollbackBlockIInv ==
    ASSUME IInv, RollbackBlock
    PROVE  /\ IInv' /\ db'.mempool = db.mempool
           /\ db'.cursor.height <= db.cursor.height
  <1> DEFINE B == Indexed
             p == db.cursor.hash
             h == db.cursor.height
             left == RefreshAssets(DeleteHeight(db, h), TouchedByRollback(h))
             A == B \ {p}
             top == CHOOSE r \in left.blocks : \A s \in left.blocks : s.height <= r.height
  <1>1. /\ h >= 0
        /\ db' = [left EXCEPT !.cursor = IF left.blocks = {} THEN NoCursor
                                         ELSE [height |-> top.height, hash |-> top.hash]]
        /\ txs' = txs
    BY DEF RollbackBlock
  <1>2. /\ txs \in Contents /\ BranchTo(B, p) /\ Stored(db, B)
        /\ db.assets = AssetRowsOf(txs, PlacesIn(txs, B))
        /\ db.cursor = IF p = NoBlock THEN NoCursor ELSE [height |-> Height[p], hash |-> p]
        /\ B # {} => db.genesis \in B /\ Height[db.genesis] = 0
    BY InvariantHeld, HeldIsStored
  <1>3. p # NoBlock /\ h = Height[p]
    BY <1>1, <1>2 DEF NoCursor
  <1>4. OnTop(A, p) /\ A \cup {p} = B /\ BranchTo(A, Prev[p])
    BY <1>2, <1>3, Shrink
  <1>5. Stored(DeleteHeight(db, h), A) /\ SamePosition(DeleteHeight(db, h), db)
    BY <1>2, <1>3, <1>4, DeleteHeightStored
  <1>6. Stored(left, A) /\ SamePosition(left, DeleteHeight(db, h))
    BY <1>5, RefreshAssetsStored
  <1>7. left.blocks = { BlockRow(b) : b \in A } /\ DOMAIN left = DOMAIN EmptyDb
    BY <1>6 DEF Stored, Rows
  <1>8. p \in B /\ p \in Block
    BY <1>2, <1>3 DEF BranchTo
  <1>a. left.assets = AssetRowsOf(txs, PlacesIn(txs, A))
    <2> DEFINE e == DeleteHeight(db, h)
               touched == TouchedByRollback(h)
    <2>1. e.issuances = IssuanceRowsOf(txs, PlacesIn(txs, A)) /\ DOMAIN e = DOMAIN EmptyDb
      BY <1>5 DEF Stored, Rows
    <2>2. e.assets = NotAt(AssetRowsOf(txs, PlacesIn(txs, A \cup {p})), Height[p])
      <3>1. DOMAIN db = DOMAIN EmptyDb
        BY <1>2 DEF Stored, Rows
      <3>2. e.assets = NotAt(db.assets, h)
        BY <3>1, TableNames DEF DeleteHeight
      <3> HIDE DEF e, h, p
      <3> QED
        BY <1>2, <1>3, <1>4, <3>2
    <2>3. Covers(touched, PlacesIn(txs, A \cup {p}) \ PlacesIn(txs, A))
      <3> SUFFICES ASSUME NEW i \in IssuingIn(txs, PlacesIn(txs, A \cup {p}) \ PlacesIn(txs, A))
                   PROVE  IssuanceIn(txs, i).asset \in touched
        BY DEF Covers
      <3>1. i[1] \in PlacesIn(txs, A \cup {p}) \ PlacesIn(txs, A)
            /\ i \in IssuingIn(txs, PlacesIn(txs, A \cup {p}))
        <4> DEFINE Q == PlacesIn(txs, A \cup {p})
                   Q0 == PlacesIn(txs, A)
        <4> HIDE DEF Q, Q0
        <4>1. i \in IssuingIn(txs, Q \ Q0)
          BY DEF Q, Q0
        <4>2. i[1] \in Q \ Q0
          BY <4>1, InputFacts DEF IssuingIn
        <4>3. i \in IssuingIn(txs, Q)
          BY <4>1, IssuingAre
        <4> QED
          BY <4>2, <4>3 DEF Q, Q0
      <3>2. RowOf(i) \in db.issuances
        <4>1. db.issuances = IssuanceRowsOf(txs, PlacesIn(txs, A \cup {p}))
          BY <1>2, <1>4 DEF Stored, Rows
        <4> QED
          BY <3>1, <4>1, IssuanceRowsAre
      <3>3. HeightAt(i[1]) = Height[p]
        BY <1>2, <1>4, <3>1, TopPlaces
      <3>4. RowOf(i).height = Height[p] /\ RowOf(i).asset = IssuanceIn(txs, i).asset
        BY <3>3, RowOfFields
      <3> HIDE DEF p, A, h
      <3> QED
        BY <1>3, <3>2, <3>4 DEF TouchedByRollback, AssetsAt
    <2> HIDE DEF e, touched, A, p, h
    <2>4. AllRefreshable(e, PlacesIn(txs, A), touched)
      BY <1>2, <1>4, <2>2, <2>3, LeftRefreshable
    <2>5. RefreshAssets(e, touched).assets = AssetRowsOf(txs, PlacesIn(txs, A))
      BY <2>1, <2>4, RefreshedToFull
    <2> QED
      BY <2>5 DEF e, touched
  <1> HIDE DEF left, A, B, p, h, top
  <1> DEFINE cursor == IF left.blocks = {} THEN NoCursor ELSE [height |-> top.height, hash |-> top.hash]
  <1>9. cursor = IF Prev[p] = NoBlock THEN NoCursor ELSE [height |-> Height[Prev[p]], hash |-> Prev[p]]
    <2>1. CASE Prev[p] = NoBlock
      <3>1. A = {}
        BY <1>4, <2>1 DEF BranchTo
      <3> QED
        BY <1>7, <2>1, <3>1
    <2>2. CASE Prev[p] # NoBlock
      <3>1. Prev[p] \in A
        BY <1>4, <2>2 DEF BranchTo
      <3>2. top = BlockRow(Prev[p])
        BY <1>4, <1>7, <2>2, <3>1, TopLeft DEF top
      <3>3. left.blocks # {}
        BY <1>7, <3>1
      <3> QED
        BY <2>2, <3>2, <3>3 DEF BlockRow
    <2> QED
      BY <2>1, <2>2
  <1>10. db' = [left EXCEPT !.cursor = cursor]
    BY <1>1
  <1> HIDE DEF cursor
  <1>11. /\ DOMAIN db' = DOMAIN EmptyDb
         /\ db'.outputs = left.outputs /\ db'.transactions = left.transactions
         /\ db'.inputs = left.inputs /\ db'.issuances = left.issuances
         /\ db'.addressTxs = left.addressTxs /\ db'.blocks = left.blocks
         /\ db'.cursor = cursor /\ db'.genesis = left.genesis /\ db'.assets = left.assets
         /\ db'.mempool = left.mempool
    BY <1>7, <1>10, TableNames
  <1>12. Stored(db', A)
    BY <1>6, <1>11 DEF Stored, Rows
  <1>13. A # {} => db'.genesis \in A /\ Height[db'.genesis] = 0
    <2> SUFFICES ASSUME A # {} PROVE db'.genesis \in A /\ Height[db'.genesis] = 0
      OBVIOUS
    <2>1. db'.genesis = db.genesis
      BY <1>5, <1>6, <1>11 DEF SamePosition
    <2>2. Prev[p] # NoBlock
      BY <1>4 DEF BranchTo
    <2>3. Height[p] # 0
      BY <1>8, <2>2, ConstantsAssumption
    <2> QED
      BY <1>2, <1>8, <2>1, <2>3 DEF A
  <1>14. Held(txs, db', A, Prev[p])
    BY <1>2, <1>4, <1>9, <1>11, <1>12, <1>13, <1>a, HeldIsStored
  <1>15. db'.cursor.height <= db.cursor.height
    <2>1. db.cursor.height = Height[p] /\ p \in Block
      BY <1>3, <1>8 DEF h
    <2>2. CASE Prev[p] = NoBlock
      BY <1>9, <1>11, <2>1, <2>2, ConstantsAssumption DEF NoCursor
    <2>3. CASE Prev[p] # NoBlock
      BY <1>9, <1>11, <2>1, <2>3, ConstantsAssumption
    <2> QED
      BY <2>2, <2>3
  <1> QED
    BY <1>1, <1>5, <1>6, <1>11, <1>14, <1>15, HeldInvariant DEF SamePosition

LEMMA ReplaceMempoolIInv ==
    ASSUME IInv, ReplaceMempool
    PROVE  IInv'
  <1> DEFINE B == Indexed
             p == db.cursor.hash
  <1>1. Held(txs, db, B, p)
    BY InvariantHeld
  <1>2. PICK entries \in Pending : db' = [db EXCEPT !.mempool = entries]
    BY DEF ReplaceMempool
  <1>3. txs' = txs
    BY DEF ReplaceMempool
  <1> HIDE DEF B, p
  <1>4. DOMAIN db = DOMAIN EmptyDb
    BY <1>1 DEF Held
  <1>5. /\ DOMAIN db' = DOMAIN EmptyDb
        /\ db'.outputs = db.outputs /\ db'.transactions = db.transactions /\ db'.inputs = db.inputs
        /\ db'.issuances = db.issuances /\ db'.addressTxs = db.addressTxs /\ db'.blocks = db.blocks
        /\ db'.cursor = db.cursor /\ db'.genesis = db.genesis /\ db'.assets = db.assets
    BY <1>2, <1>4, TableNames
  <1>6. Held(txs, db', B, p)
    BY <1>1, <1>5 DEF Held
  <1> QED
    BY <1>3, <1>6, HeldInvariant

LEMMA StutterIInv ==
    ASSUME IInv, txs' = txs, db' = db
    PROVE  IInv'
  BY InvariantHeld, HeldInvariant

\* The tables always are those of the branch that ends with the
\* cursor, whatever is applied, rolled back and applied again in whichever order.
THEOREM TablesFollowTheBranch == Spec => []IInv
  <1>1. Init => IInv
    BY InitIInv
  <1>2. IInv /\ [Next]_vars => IInv'
    <2> SUFFICES ASSUME IInv, [Next]_vars PROVE IInv'
      OBVIOUS
    <2>1. CASE ApplyBlocks
      BY <2>1, ApplyBlocksIInv
    <2>2. CASE RollbackBlock
      BY <2>2, RollbackBlockIInv
    <2>3. CASE ReplaceMempool
      BY <2>3, ReplaceMempoolIInv
    <2>4. CASE UNCHANGED vars
      BY <2>4, StutterIInv DEF vars
    <2> QED
      BY <2>1, <2>2, <2>3, <2>4 DEF Next
  <1> QED
    BY <1>1, <1>2, PTL DEF Spec

\* Every output is marked spent by exactly the input of the indexed branch that
\* spends it: the markers insertTransaction sets are those rollbackBlock clears.
THEOREM SpentMarkersCorrect == Spec => []SpentMarkersExact
  <1>1. IInv => SpentMarkersExact
    BY DEF IInv
  <1> QED
    BY <1>1, TablesFollowTheBranch, PTL

\* Blocks, transactions, inputs and address history are those of the branch from
\* the recorded genesis block to the cursor; INSERT OR IGNORE loses no row.
THEOREM HistoryCorrect == Spec => []HistoryExact
  <1>1. IInv => HistoryExact
    BY DEF IInv
  <1> QED
    BY <1>1, TablesFollowTheBranch, PTL

\* The fees insertBlock adds up transaction by transaction are the sum of the
\* explicit fees of the block.
THEOREM FeesAreTheSum == Spec => []FeesExact
  <1>1. IInv => FeesExact
    BY DEF IInv
  <1> QED
    BY <1>1, TablesFollowTheBranch, PTL

LEMMA InvariantAssets == IInv => AssetsExact
  <1> SUFFICES ASSUME IInv PROVE AssetsExact
    OBVIOUS
  <1> DEFINE B == Indexed
             P == PlacesIn(txs, B)
  <1>1. txs \in Contents /\ B \in SUBSET Block /\ IsBranch(B) /\ IsFiniteSet(B)
    BY DEF IInv, BranchStored
  <1>2. db.assets = AssetRowsOf(txs, P) /\ Places = P
    BY DEF IInv, Places
  <1> HIDE DEF B
  <1>3. \A a \in db.assets : AssetCorrect(a, P)
    BY <1>1, <1>2, AssetRowsAre, AssetRowCorrect
  <1>4. { a.asset : a \in db.assets } = { IssuanceIn(txs, i).asset : i \in IssuingIn(txs, P) }
    <2>1. \A i \in OriginsIn(txs, P) : FullRow(P, i).asset = IssuanceIn(txs, i).asset
      BY RefreshedRow DEF FullRow
    <2>2. \A i \in IssuingIn(txs, P) : \E j \in OriginsIn(txs, P) :
            IssuanceIn(txs, i).asset = IssuanceIn(txs, j).asset
      BY <1>1, OriginRules DEF SameAsset
    <2>3. \A i \in OriginsIn(txs, P) : i \in IssuingIn(txs, P)
      BY DEF OriginsIn
    <2>4. \A a : a \in db.assets <=> \E i \in OriginsIn(txs, P) : a = FullRow(P, i)
      BY <1>2, AssetRowsAre
    <2> HIDE DEF P
    <2> QED
      BY <2>1, <2>2, <2>3, <2>4
  <1> HIDE DEF P
  <1> QED
    BY <1>2, <1>3, <1>4 DEF AssetsExact, AssetCorrect

\* Origin, verification, counts and supply of every asset are those of its issuances on
\* the indexed branch: refreshing what a batch or a rollback touches is enough.
THEOREM AssetsCorrect == Spec => []AssetsExact
  <1> QED
    BY InvariantAssets, TablesFollowTheBranch, PTL
===============================================================================
