---------------------------- MODULE ApiReads_proofs ----------------------------
(***************************************************************************)
(* What the replies of the explorer mean, for every block tree, contents,  *)
(* set of requests and number of commits between two statements.           *)
(***************************************************************************)
EXTENDS ApiReads, IndexStore_proofs

-------------------------------------------------------------------------------
(* Handlers only read *)

\* A step of the handlers, the client or the status leaves the tables alone.
LEMMA StoreSteps ==
    ASSUME [ApiNext]_apiVars
    PROVE  [Next]_vars
  BY DEF ApiNext, apiVars, vars, Ask, Serve, Follow, Leave, WriteBlocks, WriteMempool,
         PublishStatus, RestartExplorer, Next

\* The handlers, the client and the status leave the index to its writers: beside
\* them the store does what it does alone.
THEOREM ReadersOnlyRead == ApiSpec => Spec
  <1>1. ApiInit => Init
    BY DEF ApiInit
  <1>2. [ApiNext]_apiVars => [Next]_vars
    BY StoreSteps
  <1> QED
    BY <1>1, <1>2, PTL DEF ApiSpec, Spec

-------------------------------------------------------------------------------
(* Handlers *)

\* The statements of a handler are all different, and each comes after those whose
\* answers it uses.
WellOrdered(r, H) ==
    /\ Len(H) \in Nat /\ DOMAIN H = 1..Len(H)
    /\ \A i, j \in 1..Len(H) : H[i] = H[j] => i = j
    /\ \A i \in 1..Len(H) :
         /\ r.op = "block" /\ r.form = "hash" /\ H[i] \in {"header", "count", "page"} =>
              \E j \in 1..(i - 1) : H[j] = "resolve"
         /\ H[i] = "header" => r.op = "block"
         /\ H[i] \in {"count", "page"} => r.op \in Listings
         /\ r.op # "overview" /\ H[i] \in {"page", "blocks", "recent"} =>
              \E j \in 1..(i - 1) : H[j] = "params"

\* The statements of every handler, spelt out.
LEMMA HandlerCases ==
    ASSUME NEW r \in Request
    PROVE  \/ r.op = "block" /\ r.form = "hash" /\ Handler(r) = <<"resolve", "params", "header", "count", "page">>
           \/ r.op = "block" /\ r.form # "hash" /\ Handler(r) = <<"params", "header", "count", "page">>
           \/ r.op = "tx" /\ Handler(r) = <<"txrow", "issuances", "inputs", "outputs">>
           \/ r.op = "address" /\ Handler(r) = <<"params", "counts", "balances", "count", "page">>
           \/ r.op = "asset" /\ Handler(r) = <<"record", "assetoutputs", "params", "count", "page">>
           \/ /\ r.op \in {"utxos", "assets", "assettxs", "mempool"}
              /\ Handler(r) = <<"params", "count", "page">>
           \/ r.op = "blocks" /\ Handler(r) = <<"params", "total", "blocks">>
           \/ r.op = "transactions" /\ Handler(r) = <<"params", "recent">>
           \/ r.op = "overview" /\ Handler(r) = <<"stats", "sample", "total", "blocks", "recent", "status">>
           \/ r.op = "explorer" /\ Handler(r) = <<"stats", "sample", "status">>
           \/ r.op = "search" /\ r.form = "number" /\ Handler(r) = <<"byheight", "byaddress">>
           \/ r.op = "search" /\ r.form = "hex" /\ Handler(r) = <<"block", "transaction", "mempool", "asset", "token">>
           \/ r.op = "search" /\ r.form = "text" /\ Handler(r) = <<"byaddress">>
  <1>1. r.op \in Operations /\ (r.op = "search" => r.form \in {"number", "hex", "text"})
    BY RequestsAssumption
  <1>2. CASE r.op = "block"
    BY <1>2 DEF Handler, HandleBlock
  <1>3. CASE r.op = "search"
    BY <1>1, <1>3 DEF Handler, HandleSearch, HexLookups
  <1>4. CASE r.op \in {"tx", "address", "asset", "utxos", "assets", "assettxs", "mempool"}
    BY <1>4 DEF Handler, HandleTransaction, HandleAddress, HandleAsset, HandlePage
  <1>5. CASE r.op \in {"blocks", "transactions", "overview", "explorer"}
    BY <1>5 DEF Handler, HandleBlocks, HandleRecentTransactions, HandleOverview, HandleExplorerStatus
  <1> QED
    BY <1>1, <1>2, <1>3, <1>4, <1>5 DEF Operations

\* Every handler of api.go asks for what it needs before it uses it.
LEMMA HandlerOrder ==
    ASSUME NEW r \in Request
    PROVE  WellOrdered(r, Handler(r))
  <1> DEFINE H == Handler(r)
  <1> SUFFICES WellOrdered(r, H)
    OBVIOUS
  <1> HIDE DEF H
  <1>1. CASE r.op = "block" /\ r.form = "hash" /\ H = <<"resolve", "params", "header", "count", "page">>
    BY <1>1 DEF WellOrdered, Listings
  <1>2. CASE r.op = "block" /\ r.form # "hash" /\ H = <<"params", "header", "count", "page">>
    BY <1>2 DEF WellOrdered, Listings
  <1>3. CASE r.op = "tx" /\ H = <<"txrow", "issuances", "inputs", "outputs">>
    BY <1>3 DEF WellOrdered, Listings
  <1>4. CASE r.op = "address" /\ H = <<"params", "counts", "balances", "count", "page">>
    BY <1>4 DEF WellOrdered, Listings
  <1>5. CASE r.op = "asset" /\ H = <<"record", "assetoutputs", "params", "count", "page">>
    BY <1>5 DEF WellOrdered, Listings
  <1>6. CASE r.op \in {"utxos", "assets", "assettxs", "mempool"} /\ H = <<"params", "count", "page">>
    BY <1>6 DEF WellOrdered, Listings
  <1>7. CASE r.op = "blocks" /\ H = <<"params", "total", "blocks">>
    BY <1>7 DEF WellOrdered, Listings
  <1>8. CASE r.op = "transactions" /\ H = <<"params", "recent">>
    BY <1>8 DEF WellOrdered, Listings
  <1>9. CASE r.op = "overview" /\ H = <<"stats", "sample", "total", "blocks", "recent", "status">>
    BY <1>9 DEF WellOrdered, Listings
  <1>10. CASE r.op = "explorer" /\ H = <<"stats", "sample", "status">>
    BY <1>10 DEF WellOrdered, Listings
  <1>11. CASE r.op = "search" /\ H = <<"byheight", "byaddress">>
    BY <1>11 DEF WellOrdered, Listings
  <1>12. CASE r.op = "search" /\ H = <<"block", "transaction", "mempool", "asset", "token">>
    BY <1>12 DEF WellOrdered, Listings
  <1>13. CASE r.op = "search" /\ H = <<"byaddress">>
    BY <1>13 DEF WellOrdered, Listings
  <1> QED
    BY HandlerCases, <1>1, <1>2, <1>3, <1>4, <1>5, <1>6, <1>7, <1>8, <1>9, <1>10, <1>11, <1>12, <1>13 DEF H

\* A statement is a query of the tables as soon as the answers it uses are there.
SameBefore(r, i, g, h) ==
    /\ r \in Request /\ i \in 1..Len(Handler(r))
    /\ \A j \in 1..(i - 1) : g[Handler(r)[j]] = h[Handler(r)[j]]

AnsweredAlike(r, q, g, h) == \A c, f, d : Query(c, r, f, g, q, d) = Query(c, r, f, h, q, d)

\* So what a statement gives depends on the statements before it only.
LEMMA QueryOf ==
    ASSUME NEW r, NEW i, NEW g, NEW h, SameBefore(r, i, g, h)
    PROVE  AnsweredAlike(r, Handler(r)[i], g, h)
  <1> SUFFICES ASSUME NEW c, NEW f, NEW d
               PROVE  Query(c, r, f, g, Handler(r)[i], d) = Query(c, r, f, h, Handler(r)[i], d)
    BY DEF AnsweredAlike
  <1> DEFINE H == Handler(r)
             q == H[i]
  <1>0. WellOrdered(r, H)
    BY HandlerOrder DEF SameBefore
  <1>1. q \in {"page", "blocks", "recent"} => Params(r, g) = Params(r, h)
    BY <1>0 DEF WellOrdered, Params, SameBefore
  <1>2. r.op = "block" /\ q \in {"header", "count", "page"} => BlockHeight(r, g) = BlockHeight(r, h)
    BY <1>0 DEF WellOrdered, BlockHeight, SameBefore
  <1>3. q \in {"count", "page"} => Listing(r, g, d) = Listing(r, h, d)
    <2>1. q \in {"count", "page"} => r.op \in Listings
      BY <1>0 DEF WellOrdered, SameBefore
    <2> HIDE DEF q
    <2>2. CASE r.op = "block"
      BY <2>2, <1>2 DEF Listing
    <2>3. CASE r.op # "block"
      BY <2>1, <2>3 DEF Listing, Listings
    <2> QED
      BY <2>2, <2>3
  <1>4. q = "header" => r.op = "block"
    BY <1>0 DEF WellOrdered, SameBefore
  <1> HIDE DEF q
  <1>5. Query(c, r, f, g, q, d) = Query(c, r, f, h, q, d)
    BY <1>1, <1>2, <1>3, <1>4 DEF Query
  <1> QED
    BY <1>5 DEF q

-------------------------------------------------------------------------------
(* Answers *)

\* Answers stay right when a commit adds a version.
LEMMA AnsweredByMore ==
    ASSUME NEW c, NEW r, NEW s, NEW e, NEW f, NEW g, Answered(c, r, s, f, g),
           \A i \in DOMAIN s : i \in DOMAIN e /\ e[i] = s[i]
    PROVE  Answered(c, r, e, f, g)
  <1> DEFINE H == Handler(r)
             n == Cardinality(DOMAIN g)
  <1>1. /\ IsFiniteSet(DOMAIN g) /\ n <= Len(H)
        /\ DOMAIN g = { H[i] : i \in 1..n }
    BY DEF Answered
  <1>2. ASSUME NEW i \in 1..n
        PROVE  LET a == g[H[i]] IN
             /\ a.at \in DOMAIN e
             /\ \A j \in 1..i : g[H[j]].at <= a.at
             /\ H[i] # "status" => a.val = Query(c, r, f, g, H[i], e[a.at])
             /\ H[i] = "status" => Behind(a.val, e[a.at])
             /\ i < n => a.val # NotFound
    <2>1. LET a == g[H[i]] IN
             /\ a.at \in DOMAIN s
             /\ \A j \in 1..i : g[H[j]].at <= a.at
             /\ H[i] # "status" => a.val = Query(c, r, f, g, H[i], s[a.at])
             /\ H[i] = "status" => Behind(a.val, s[a.at])
             /\ i < n => a.val # NotFound
      BY <1>2 DEF Answered
    <2> HIDE DEF H
    <2> QED
      BY <2>1
  <1> QED
    BY <1>1, <1>2 DEF Answered

\* A request that was just made has no answers yet.
LEMMA NothingAnswered ==
    ASSUME NEW c, NEW r \in Request, NEW s, NEW f
    PROVE  Answered(c, r, s, f, NoAnswers)
  <1>1. DOMAIN NoAnswers = {} /\ IsFiniteSet({}) /\ Cardinality({}) = 0
    BY FS_EmptySet DEF NoAnswers
  <1>2. Len(Handler(r)) \in Nat
    BY HandlerOrder DEF WellOrdered
  <1>3. { Handler(r)[i] : i \in 1..0 } = {} /\ 1..0 = {}
    OBVIOUS
  <1> QED
    BY <1>1, <1>2, <1>3 DEF Answered

\* The answers with one more.
With(g, q, answer) == [p \in DOMAIN g \cup {q} |-> IF p = q THEN answer ELSE g[p]]

\* The answer of the next statement, read from the current version, fits those before.
LEMMA OneMore ==
    ASSUME NEW c, NEW r \in Request, NEW s, NEW f, NEW g, Answered(c, r, s, f, g), ~Failed(g),
           Cardinality(DOMAIN g) # Len(Handler(r)),
           NEW v, Len(s) \in Nat \ {0}, DOMAIN s = 1..Len(s),
           LET q == Handler(r)[Cardinality(DOMAIN g) + 1] IN
             /\ q # "status" => v = Query(c, r, f, g, q, s[Len(s)])
             /\ q = "status" => Behind(v, s[Len(s)])
    PROVE  LET q == Handler(r)[Cardinality(DOMAIN g) + 1]
               h == With(g, q, [at |-> Len(s), val |-> v])
           IN  Answered(c, r, s, f, h)
  <1> DEFINE H == Handler(r)
             n == Cardinality(DOMAIN g)
             q == H[n + 1]
             h == With(g, q, [at |-> Len(s), val |-> v])
  <1>0. WellOrdered(r, H)
    BY HandlerOrder
  <1>1. /\ IsFiniteSet(DOMAIN g) /\ n <= Len(H)
        /\ DOMAIN g = { H[i] : i \in 1..n }
    BY DEF Answered
  <1>2. n \in Nat /\ Len(H) \in Nat /\ n + 1 \in 1..Len(H)
    BY <1>0, <1>1, FS_CardinalityType DEF WellOrdered
  <1>3. \A i \in 1..n : H[i] # q
    BY <1>0, <1>2 DEF WellOrdered
  <1>4. q \notin DOMAIN g
    BY <1>1, <1>3
  <1>5. DOMAIN h = DOMAIN g \cup {q} /\ h[q] = [at |-> Len(s), val |-> v]
        /\ \A p \in DOMAIN g : h[p] = g[p]
    BY <1>4 DEF With
  <1>6. IsFiniteSet(DOMAIN h) /\ Cardinality(DOMAIN h) = n + 1
    <2>1. /\ IsFiniteSet(DOMAIN g \cup {q})
          /\ Cardinality(DOMAIN g \cup {q}) = Cardinality(DOMAIN g) + 1
      <3> HIDE DEF q, n, H
      <3> QED
        BY <1>1, <1>4, FS_AddElement
    <2> HIDE DEF q, h, H
    <2> QED
      BY <1>5, <2>1
  <1>7. DOMAIN h = { H[i] : i \in 1..(n + 1) }
    <2>1. 1..(n + 1) = (1..n) \cup {n + 1}
      BY <1>2
    <2>2. DOMAIN h = { H[i] : i \in 1..n } \cup {H[n + 1]}
      BY <1>1, <1>5
    <2> HIDE DEF h, H, n
    <2> QED
      BY <2>1, <2>2
  <1>8. \A i \in 1..n : h[H[i]] = g[H[i]] /\ g[H[i]].val # NotFound
    BY <1>1, <1>5 DEF Failed
  <1>9. ASSUME NEW i \in 1..(n + 1)
        PROVE  LET a == h[H[i]] IN
             /\ a.at \in DOMAIN s
             /\ \A j \in 1..i : h[H[j]].at <= a.at
             /\ H[i] # "status" => a.val = Query(c, r, f, h, H[i], s[a.at])
             /\ H[i] = "status" => Behind(a.val, s[a.at])
             /\ i < n + 1 => a.val # NotFound
    <2>0. Query(c, r, f, h, H[i], s[h[H[i]].at]) = Query(c, r, f, g, H[i], s[h[H[i]].at])
      <3>1. i \in 1..Len(H) /\ \A j \in 1..(i - 1) : j \in 1..n
        BY <1>2
      <3>2. SameBefore(r, i, h, g)
        BY <1>8, <3>1 DEF SameBefore
      <3> HIDE DEF h, n
      <3>3. AnsweredAlike(r, H[i], h, g)
        BY <3>2, QueryOf
      <3> HIDE DEF H
      <3> QED
        BY <3>3 DEF AnsweredAlike
    <2>1. CASE i \in 1..n
      <3>1. LET a == g[H[i]] IN
             /\ a.at \in DOMAIN s
             /\ \A j \in 1..i : g[H[j]].at <= a.at
             /\ H[i] # "status" => a.val = Query(c, r, f, g, H[i], s[a.at])
             /\ H[i] = "status" => Behind(a.val, s[a.at])
        BY <2>1 DEF Answered
      <3>2. \A j \in 1..i : j \in 1..n
        BY <2>1, <1>2
      <3> HIDE DEF h, H, n, q
      <3> QED
        BY <3>1, <3>2, <2>0, <2>1, <1>8
    <2>2. CASE i = n + 1
      <3>1. h[H[i]] = [at |-> Len(s), val |-> v]
        BY <1>5, <2>2
      <3>2. \A j \in 1..n : g[H[j]].at \in 1..Len(s)
        BY DEF Answered
      <3>3. \A j \in 1..i : h[H[j]].at <= Len(s)
        <4> SUFFICES ASSUME NEW j \in 1..i PROVE h[H[j]].at <= Len(s)
          OBVIOUS
        <4>1. CASE j = i
          BY <4>1, <3>1
        <4>2. CASE j # i
          <5>1. j \in 1..n
            BY <4>2, <2>2, <1>2
          <5>2. h[H[j]].at \in 1..Len(s)
            BY <5>1, <3>2, <1>8
          <5> QED
            BY <5>2
        <4> QED
          BY <4>1, <4>2
      <3>4. /\ q # "status" => v = Query(c, r, f, g, q, s[Len(s)])
            /\ q = "status" => Behind(v, s[Len(s)])
        OBVIOUS
      <3>5. Len(s) \in DOMAIN s /\ H[i] = q /\ ~(i < n + 1)
        BY <2>2, <1>2
      <3> HIDE DEF h, H, n, q
      <3> QED
        BY <2>0, <3>1, <3>3, <3>4, <3>5
    <2>3. i \in 1..n \/ i = n + 1
      BY <1>2
    <2> QED
      BY <2>1, <2>2, <2>3
  <1> HIDE DEF h, H, n, q
  <1>10. n + 1 <= Len(H)
    BY <1>2
  <1>11. Answered(c, r, s, f, h)
    BY <1>6, <1>7, <1>9, <1>10 DEF Answered, H
  <1> QED
    BY <1>11 DEF h, H, n, q

\* What a reply consists of: the answers of all statements.
LEMMA WholeReply ==
    ASSUME NEW c, NEW r \in Request, NEW s, NEW f, NEW g, Answered(c, r, s, f, g), ~Failed(g),
           Cardinality(DOMAIN g) = Len(Handler(r)), Len(s) \in Nat, DOMAIN s = 1..Len(s)
    PROVE  LET H == Handler(r) IN
           /\ DOMAIN g = { H[i] : i \in 1..Len(H) }
           /\ \A i, j \in 1..Len(H) : i <= j => g[H[i]].at <= g[H[j]].at
           /\ \A i \in 1..Len(H) : LET a == g[H[i]] IN
                /\ a.at \in 1..Len(s) /\ a.val # NotFound
                /\ H[i] # "status" => a.val = Query(c, r, f, g, H[i], s[a.at])
                /\ H[i] = "status" => Behind(a.val, s[a.at])
  <1> DEFINE H == Handler(r)
  <1>1. /\ DOMAIN g = { H[i] : i \in 1..Len(H) }
        /\ \A i \in 1..Len(H) : LET a == g[H[i]] IN
             /\ a.at \in 1..Len(s)
             /\ \A j \in 1..i : g[H[j]].at <= a.at
             /\ H[i] # "status" => a.val = Query(c, r, f, g, H[i], s[a.at])
             /\ H[i] = "status" => Behind(a.val, s[a.at])
    BY DEF Answered
  <1>2. \A i \in 1..Len(H) : g[H[i]].val # NotFound
    BY <1>1 DEF Failed
  <1>3. Len(H) \in Nat
    BY HandlerOrder DEF WellOrdered
  <1>4. \A i, j \in 1..Len(H) : i <= j => i \in 1..j
    BY <1>3
  <1> HIDE DEF H
  <1> QED
    BY <1>1, <1>2, <1>4 DEF H

-------------------------------------------------------------------------------
(* The inductive invariant *)

\* A version a statement may see: the tables of a branch, and a finite mempool.
HashesIn(d) == { b.hash : b \in d.blocks }
MempoolListed(d) == IsFiniteSet(d.mempool) /\ \A t \in d.mempool : Rank[t] \in Int
Version(d) == Held(txs, d, HashesIn(d), d.cursor.hash) /\ MempoolListed(d)

ReaderInv ==
    /\ IInv
    /\ MempoolListed(db)
    /\ VersionsKept
    /\ StatusFollows
    /\ \A i \in DOMAIN seen : Version(seen[i])
    /\ req # Null => Answered(txs, req, seen, from, got)
    /\ req # Null => \E begin : Walked(begin)

\* What the invariant of the tables says, said of the tables as a version.
LEMMA CurrentVersion == IInv /\ MempoolListed(db) => Version(db)
  BY InvariantHeld DEF Version, HashesIn, Indexed

\* The same after a step.
LEMMA NextVersion == IInv' /\ MempoolListed(db)' => Version(db)'
  BY CurrentVersion, PTL

\* The cursor of an empty index is at -1.
LEMMA VersionHeight ==
    ASSUME NEW d, Version(d)
    PROVE  d.cursor.height \in Int /\ d.cursor.height >= -1
  <1>1. LET p == d.cursor.hash IN
          /\ d.cursor = IF p = NoBlock THEN NoCursor ELSE [height |-> Height[p], hash |-> p]
          /\ p \in Block \cup {NoBlock}
    BY DEF Version, Held, BranchTo
  <1> QED
    BY <1>1, ConstantsAssumption DEF NoCursor

\* Nobody is served when the index is new.
LEMMA ReaderInit ==
    ASSUME ApiInit
    PROVE  ReaderInv
  <1>1. Init /\ published = -1 /\ written = FALSE
        /\ req = Null /\ from = Start /\ got = NoAnswers /\ walk = <<>> /\ seen = <<>>
    BY DEF ApiInit
  <1>2. IInv
    BY <1>1, InitIInv
  <1>3. db.mempool = {} /\ db.cursor.height = -1
    BY <1>1 DEF Init, EmptyDb, NoCursor
  <1>4. MempoolListed(db)
    BY <1>3, FS_EmptySet DEF MempoolListed
  <1>5. VersionsKept
    BY <1>1 DEF VersionsKept
  <1>6. StatusFollows
    BY <1>1, <1>3, ConstantsAssumption DEF StatusFollows, Behind
  <1>7. DOMAIN seen = {}
    BY <1>1
  <1> QED
    BY <1>1, <1>2, <1>4, <1>5, <1>6, <1>7 DEF ReaderInv

\* A request begins with the version it finds.
LEMMA AskInv ==
    ASSUME ReaderInv, NEW r \in Request, Ask(r)
    PROVE  ReaderInv'
  <1>1. /\ req = Null /\ req' = r /\ from' = Start /\ seen' = <<db>> /\ r # Null
        /\ txs' = txs /\ db' = db /\ published' = published /\ written' = written
        /\ got' = got /\ walk' = walk
    BY RequestsAssumption DEF Ask, vars
  <1>2. IInv' /\ MempoolListed(db)' /\ StatusFollows'
    <2>1. IInv'
      BY <1>1, StutterIInv DEF ReaderInv
    <2> QED
      BY <1>1, <2>1 DEF ReaderInv, MempoolListed, StatusFollows
  <1>3. got' = NoAnswers /\ walk' = <<>>
    BY <1>1 DEF ReaderInv, VersionsKept
  <1>4. Len(seen') = 1 /\ DOMAIN seen' = 1..1 /\ seen'[1] = db
    BY <1>1
  <1>5. VersionsKept'
    BY <1>1, <1>4 DEF VersionsKept
  <1>6. \A i \in DOMAIN seen' : Version(seen[i])'
    BY <1>1, <1>4, CurrentVersion DEF ReaderInv, Version
  <1>7. Answered(txs', req', seen', from', got')
    BY <1>1, <1>3, NothingAnswered
  <1>8. Walked([i \in {1} |-> Start])'
    <2>1. Len(walk') = 0 /\ DOMAIN walk' = 1..0 /\ 1..0 = {}
      BY <1>3
    <2> QED
      BY <1>1, <2>1 DEF Walked
  <1> QED
    BY <1>2, <1>5, <1>6, <1>7, <1>8 DEF ReaderInv

\* The height of the cursor after a step.
LEMMA NextHeight == IInv' /\ MempoolListed(db)' => (db.cursor.height \in Int)'
  <1>1. IInv /\ MempoolListed(db) => db.cursor.height \in Int
    BY CurrentVersion, VersionHeight
  <1> QED
    BY <1>1, PTL

\* The answers of a whole reply saw versions of the walk.
LEMMA RepliesSee ==
    ASSUME NEW r \in Request, NEW s, NEW f, NEW g, Answered(txs, r, s, f, g), ~Failed(g),
           Cardinality(DOMAIN g) = Len(Handler(r)), Len(s) \in Nat, DOMAIN s = 1..Len(s),
           NEW p \in DOMAIN g
    PROVE  g[p].at \in 1..Len(s)
  <1> DEFINE H == Handler(r)
  <1>1. /\ DOMAIN g = { H[i] : i \in 1..Len(H) }
        /\ \A i \in 1..Len(H) : g[H[i]].at \in 1..Len(s)
    BY WholeReply
  <1> HIDE DEF H
  <1> QED
    BY <1>1

\* A step that only concerns the status.
LEMMA SameReader ==
    ASSUME ReaderInv, StatusFollows', txs' = txs, db' = db, req' = req, from' = from, got' = got,
           walk' = walk, seen' = seen
    PROVE  ReaderInv'
  <1>1. IInv'
    BY StutterIInv DEF ReaderInv
  <1>2. MempoolListed(db)' /\ VersionsKept'
    BY DEF ReaderInv, MempoolListed, VersionsKept
  <1>3. \A i \in DOMAIN seen' : Version(seen[i])'
    BY DEF ReaderInv, Version
  <1>4. req # Null => Answered(txs', req', seen', from', got')
    BY DEF ReaderInv
  <1>5. ASSUME req # Null PROVE \E begin : Walked(begin)'
    <2>1. PICK begin : Walked(begin)
      BY <1>5 DEF ReaderInv
    <2>2. Walked(begin)'
      BY <2>1 DEF Walked
    <2> QED
      BY <2>2
  <1> QED
    BY <1>1, <1>2, <1>3, <1>4, <1>5 DEF ReaderInv

\* Where the reader is, when it is served: facts the steps below start from.
LEMMA Serving ==
    ASSUME ReaderInv, req # Null
    PROVE  /\ req \in Request /\ Len(seen) \in Nat \ {0} /\ DOMAIN seen = 1..Len(seen)
           /\ seen[Len(seen)] = db
           /\ Answered(txs, req, seen, from, got)
  BY DEF ReaderInv, VersionsKept

\* A handler stops at its first error, or has run all its statements.
LEMMA DoneReply ==
    ASSUME req # Null
    PROVE  /\ ~Done => ~Failed(got) /\ Cardinality(DOMAIN got) # Len(Handler(req))
           /\ Done /\ ~Failed(got) => Cardinality(DOMAIN got) = Len(Handler(req))
  BY DEF Done

\* A statement.
LEMMA ServeInv ==
    ASSUME ReaderInv, Serve
    PROVE  ReaderInv'
  <1> DEFINE q == Handler(req)[Cardinality(DOMAIN got) + 1]
             h == With(got, q, [at |-> Len(seen), val |-> Answer(q)])
  <1>1. /\ req # Null /\ ~Done
        /\ txs' = txs /\ db' = db /\ published' = published /\ written' = written
        /\ req' = req /\ from' = from /\ walk' = walk /\ seen' = seen
        /\ got' = h
    BY DEF Serve, vars, With
  <1>2. /\ req \in Request /\ Len(seen) \in Nat \ {0} /\ DOMAIN seen = 1..Len(seen)
        /\ seen[Len(seen)] = db
        /\ Answered(txs, req, seen, from, got)
    BY <1>1, Serving
  <1>3. ~Failed(got) /\ Cardinality(DOMAIN got) # Len(Handler(req))
    BY <1>1, DoneReply
  <1>4. /\ q # "status" => Answer(q) = Query(txs, req, from, got, q, seen[Len(seen)])
        /\ q = "status" => Behind(Answer(q), seen[Len(seen)])
    <2> HIDE DEF q
    <2>1. StatusFollows
      BY DEF ReaderInv
    <2> QED
      BY <1>2, <2>1 DEF Answer, StatusFollows
  <1>5. Answered(txs, req, seen, from, h)
    BY <1>2, <1>3, <1>4, OneMore
  <1>6. PICK begin : Walked(begin)
    BY <1>1 DEF ReaderInv
  <1>7. \A p \in DOMAIN h : (p \in DOMAIN got /\ h[p] = got[p]) \/ h[p].at = Len(seen)
    BY DEF With
  <1> HIDE DEF h, q
  <1>8. Walked(begin)'
    <2> DEFINE n == Len(walk)
    <2>1. ASSUME NEW i \in 1..n, NEW p \in DOMAIN walk[i], NEW t \in DOMAIN h
          PROVE  walk[i][p].at <= h[t].at
      <3>1. CASE t \in DOMAIN got /\ h[t] = got[t]
        BY <1>6, <2>1, <3>1 DEF Walked
      <3>2. CASE h[t].at = Len(seen)
        <4>1. /\ Answered(txs, req, seen, begin[i], walk[i])
              /\ Cardinality(DOMAIN walk[i]) = Len(Handler(req)) /\ ~Failed(walk[i])
          BY <1>6 DEF Walked
        <4>2. walk[i][p].at \in 1..Len(seen)
          BY <1>2, <4>1, RepliesSee
        <4> QED
          BY <1>2, <3>2, <4>2
      <3> QED
        BY <1>7, <3>1, <3>2
    <2> HIDE DEF n
    <2> QED
      BY <1>1, <1>6, <2>1 DEF Walked, n
  <1>9. IInv' /\ MempoolListed(db)' /\ StatusFollows' /\ VersionsKept'
    <2>1. IInv'
      BY <1>1, StutterIInv DEF ReaderInv
    <2> QED
      BY <1>1, <2>1 DEF ReaderInv, MempoolListed, StatusFollows, VersionsKept
  <1>10. \A i \in DOMAIN seen' : Version(seen[i])'
    BY <1>1 DEF ReaderInv, Version
  <1> QED
    BY <1>1, <1>5, <1>8, <1>9, <1>10 DEF ReaderInv

\* The next page: the reply joins the walk, and the new page begins where it says.
LEMMA FollowInv ==
    ASSUME ReaderInv, Follow
    PROVE  ReaderInv'
  <1>1. /\ Done /\ ~Failed(got) /\ NextOf(req, got) # Null /\ req # Null
        /\ txs' = txs /\ db' = db /\ published' = published /\ written' = written
        /\ req' = req /\ from' = NextFrom(req, from, got) /\ walk' = Append(walk, got) /\ seen' = seen
        /\ got' = NoAnswers
    BY DEF Follow, vars, Done
  <1>2. /\ req \in Request /\ Len(seen) \in Nat \ {0} /\ DOMAIN seen = 1..Len(seen)
        /\ Answered(txs, req, seen, from, got)
    BY <1>1, Serving
  <1>3. Cardinality(DOMAIN got) = Len(Handler(req))
    BY <1>1, DoneReply
  <1>6. PICK begin : Walked(begin)
    BY <1>1 DEF ReaderInv
  <1> DEFINE n == Len(walk)
             longer == [i \in 1..(n + 2) |-> IF i = n + 2 THEN from' ELSE begin[i]]
             W(i, j) == \A p \in DOMAIN walk'[i], q \in DOMAIN walk'[j] : walk'[i][p].at <= walk'[j][q].at
  <1>7. n \in Nat /\ DOMAIN walk = 1..n /\ begin[1] = Start /\ begin[n + 1] = from
    BY <1>6 DEF Walked
  <1>8. /\ Len(walk') = n + 1 /\ DOMAIN walk' = 1..(n + 1) /\ walk'[n + 1] = got
        /\ \A i \in 1..n : walk'[i] = walk[i]
    BY <1>1, <1>7
  <1>9. PICK more : /\ more[1] = Start /\ more[n + 1] = from /\ more[n + 2] = from'
                    /\ \A i \in 1..n : more[i] = begin[i] /\ more[i + 1] = begin[i + 1]
    <2>1. /\ longer[1] = Start /\ longer[n + 1] = from /\ longer[n + 2] = from'
          /\ \A i \in 1..n : longer[i] = begin[i] /\ longer[i + 1] = begin[i + 1]
      BY <1>7
    <2> HIDE DEF longer
    <2> QED
      BY <2>1
  <1>10. DOMAIN got' = {}
    BY <1>1 DEF NoAnswers
  <1>11. ASSUME NEW i \in 1..(n + 1)
         PROVE /\ Answered(txs, req, seen, more[i], walk'[i])
               /\ Cardinality(DOMAIN walk'[i]) = Len(Handler(req)) /\ ~Failed(walk'[i])
               /\ NextOf(req, walk'[i]) # Null
               /\ more[i + 1] = NextFrom(req, more[i], walk'[i])
    <2>1. CASE i \in 1..n
      <3>1. /\ Answered(txs, req, seen, begin[i], walk[i])
            /\ Cardinality(DOMAIN walk[i]) = Len(Handler(req)) /\ ~Failed(walk[i])
            /\ NextOf(req, walk[i]) # Null
            /\ begin[i + 1] = NextFrom(req, begin[i], walk[i])
        BY <1>6, <2>1 DEF Walked
      <3> QED
        BY <1>8, <1>9, <2>1, <3>1
    <2>2. CASE i = n + 1
      <3>1. i + 1 = n + 2
        BY <1>7, <2>2
      <3> QED
        BY <1>1, <1>2, <1>3, <1>8, <1>9, <2>2, <3>1
    <2> QED
      BY <1>7, <2>1, <2>2
  <1>12. ASSUME NEW i \in 1..(n + 1), NEW j \in (i + 1)..(n + 1) PROVE W(i, j)
    <2>1. i \in 1..n /\ j \in 1..(n + 1)
      BY <1>7
    <2>2. CASE j = n + 1
      <3>1. \A p \in DOMAIN walk[i], q \in DOMAIN got : walk[i][p].at <= got[q].at
        BY <1>6, <2>1 DEF Walked
      <3> QED
        BY <1>8, <2>1, <2>2, <3>1
    <2>3. CASE j \in 1..n
      <3>1. j \in (i + 1)..n
        BY <1>7, <2>1, <2>3
      <3>2. \A p \in DOMAIN walk[i], q \in DOMAIN walk[j] : walk[i][p].at <= walk[j][q].at
        BY <1>6, <2>1, <3>1 DEF Walked
      <3> QED
        BY <1>8, <2>1, <2>3, <3>2
    <2> QED
      BY <2>1, <2>2, <2>3, <1>7
  <1>13. Walked(more)'
    <2>1. (n + 1) + 1 = n + 2 /\ n + 1 \in Nat
      BY <1>7
    <2>2. \A i \in 1..(n + 1) :
            /\ \A j \in (i + 1)..(n + 1) : \A p \in DOMAIN walk'[i], q \in DOMAIN walk'[j] :
                 walk'[i][p].at <= walk'[j][q].at
            /\ \A p \in DOMAIN walk'[i], q \in DOMAIN got' : walk'[i][p].at <= got'[q].at
      BY <1>10, <1>12
    <2>3. more[1] = Start /\ more[(n + 1) + 1] = from'
      BY <1>9, <2>1
    <2> DEFINE m == n + 1
    <2>4. \A i \in 1..m :
            /\ Answered(txs', req', seen', more[i], walk'[i])
            /\ Cardinality(DOMAIN walk'[i]) = Len(Handler(req')) /\ ~Failed(walk'[i])
            /\ NextOf(req', walk'[i]) # Null
            /\ more[i + 1] = NextFrom(req', more[i], walk'[i])
      BY <1>1, <1>11
    <2>5. Len(walk') = m /\ DOMAIN walk' = 1..m /\ m \in Nat
      BY <1>8, <2>1
    <2>6. more[1] = Start /\ more[m + 1] = from'
      BY <2>3
    <2>7. \A i \in 1..m :
            /\ \A j \in (i + 1)..m : \A p \in DOMAIN walk'[i], q \in DOMAIN walk'[j] :
                 walk'[i][p].at <= walk'[j][q].at
            /\ \A p \in DOMAIN walk'[i], q \in DOMAIN got' : walk'[i][p].at <= got'[q].at
      BY <2>2
    <2> HIDE DEF n, m
    <2> QED
      BY <2>4, <2>5, <2>6, <2>7 DEF Walked
  <1>14. IInv' /\ MempoolListed(db)' /\ StatusFollows' /\ VersionsKept'
    <2>1. IInv'
      BY <1>1, StutterIInv DEF ReaderInv
    <2> QED
      BY <1>1, <2>1 DEF ReaderInv, MempoolListed, StatusFollows, VersionsKept
  <1>15. \A i \in DOMAIN seen' : Version(seen[i])'
    BY <1>1 DEF ReaderInv, Version
  <1>16. Answered(txs', req', seen', from', got')
    BY <1>1, <1>2, NothingAnswered
  <1> QED
    BY <1>13, <1>14, <1>15, <1>16 DEF ReaderInv

\* A client that leaves is forgotten.
LEMMA LeaveInv ==
    ASSUME ReaderInv, Leave
    PROVE  ReaderInv'
  <1>1. /\ txs' = txs /\ db' = db /\ published' = published /\ written' = written
        /\ req' = Null /\ from' = Start /\ got' = NoAnswers /\ walk' = <<>> /\ seen' = <<>>
    BY DEF Leave, vars
  <1>2. IInv'
    BY <1>1, StutterIInv DEF ReaderInv
  <1>3. MempoolListed(db)' /\ StatusFollows' /\ VersionsKept' /\ DOMAIN seen' = {}
    BY <1>1 DEF ReaderInv, MempoolListed, StatusFollows, VersionsKept
  <1> QED
    BY <1>1, <1>2, <1>3 DEF ReaderInv

\* A commit: what has been answered stays right for the versions it was read from.
LEMMA CommitInv ==
    ASSUME ReaderInv, IInv', MempoolListed(db)', StatusFollows', Versioned,
           txs' = txs, UNCHANGED readerVars
    PROVE  ReaderInv'
  <1>1. req' = req /\ from' = from /\ got' = got /\ walk' = walk
    BY DEF readerVars
  <1>2. CASE req = Null
    <2>1. seen' = seen
      BY <1>2 DEF Versioned
    <2>2. seen = <<>>
      BY <1>2 DEF ReaderInv, VersionsKept
    <2>3. VersionsKept' /\ DOMAIN seen' = {}
      BY <1>1, <1>2, <2>1, <2>2 DEF ReaderInv, VersionsKept
    <2> QED
      BY <1>1, <1>2, <2>3 DEF ReaderInv
  <1>3. CASE req # Null
    <2>1. req \in Request /\ Len(seen) \in Nat \ {0} /\ DOMAIN seen = 1..Len(seen)
          /\ Answered(txs, req, seen, from, got)
      BY <1>3, Serving
    <2>2. seen' = Append(seen, db')
      BY <1>3 DEF Versioned
    <2>3. /\ Len(seen') = Len(seen) + 1 /\ DOMAIN seen' = 1..(Len(seen) + 1)
          /\ seen'[Len(seen) + 1] = db'
          /\ \A i \in DOMAIN seen : i \in DOMAIN seen' /\ seen'[i] = seen[i]
      BY <2>1, <2>2
    <2>4. VersionsKept'
      BY <1>1, <1>3, <2>1, <2>3 DEF VersionsKept
    <2>5. \A i \in DOMAIN seen' : Version(seen[i])'
      <3> SUFFICES ASSUME NEW i \in DOMAIN seen' PROVE Version(seen[i])'
        OBVIOUS
      <3>1. CASE i \in DOMAIN seen
        BY <2>3, <3>1 DEF ReaderInv, Version
      <3>2. CASE i = Len(seen) + 1
        BY <2>3, <3>2, NextVersion DEF Version
      <3> QED
        BY <2>1, <2>3, <3>1, <3>2
    <2>6. Answered(txs, req, seen', from, got)
      BY <2>1, <2>3, AnsweredByMore
    <2>7. PICK begin : Walked(begin)
      BY <1>3 DEF ReaderInv
    <2>8. \A i \in 1..Len(walk) : Answered(txs, req, seen', begin[i], walk[i])
      <3> SUFFICES ASSUME NEW i \in 1..Len(walk) PROVE Answered(txs, req, seen', begin[i], walk[i])
        OBVIOUS
      <3>1. Answered(txs, req, seen, begin[i], walk[i])
        BY <2>7 DEF Walked
      <3> QED
        BY <3>1, <2>3, AnsweredByMore
    <2>9. Walked(begin)'
      <3> HIDE <1>3
      <3>1. \A i \in 1..Len(walk') : Answered(txs', req', seen', begin[i], walk'[i])
        BY <1>1, <2>8
      <3> QED
        BY <1>1, <2>7, <3>1 DEF Walked
    <2> QED
      BY <1>1, <2>4, <2>5, <2>6, <2>9 DEF ReaderInv
  <1> QED
    BY <1>2, <1>3

\* A batch or a rollback: the status lags behind by what it added.
LEMMA WriteBlocksInv ==
    ASSUME ReaderInv, WriteBlocks
    PROVE  ReaderInv'
  <1>1. /\ ~written /\ written' = TRUE /\ published' = published
        /\ ApplyBlocks \/ RollbackBlock
        /\ Versioned /\ UNCHANGED readerVars
    BY DEF WriteBlocks, MayWrite
  <1>2. IInv /\ MempoolListed(db) /\ StatusFollows
    BY DEF ReaderInv
  <1>3. db.cursor.height \in Int
    BY <1>2, CurrentVersion, VersionHeight
  <1>4. txs' = txs
    BY <1>1 DEF ApplyBlocks, RollbackBlock
  <1>5. IInv' /\ db'.mempool = db.mempool /\ db'.cursor.height <= db.cursor.height + BatchSize
    <2>1. CASE ApplyBlocks
      BY <1>2, <2>1, ApplyBlocksIInv
    <2>2. CASE RollbackBlock
      <3>1. IInv' /\ db'.mempool = db.mempool /\ db'.cursor.height <= db.cursor.height
        BY <1>2, <2>2, RollbackBlockIInv
      <3>2. MempoolListed(db)'
        BY <1>2, <3>1 DEF MempoolListed
      <3>3. db'.cursor.height \in Int
        BY <3>1, <3>2, NextHeight
      <3> QED
        BY <1>3, <3>1, <3>3, ConstantsAssumption
    <2> QED
      BY <1>1, <2>1, <2>2
  <1>6. MempoolListed(db)'
    BY <1>2, <1>5 DEF MempoolListed
  <1>7. db'.cursor.height \in Int
    BY <1>5, <1>6, NextHeight
  <1>8. StatusFollows'
    BY <1>1, <1>2, <1>3, <1>5, <1>7, ConstantsAssumption DEF StatusFollows, Behind
  <1> QED
    BY <1>1, <1>4, <1>5, <1>6, <1>8, CommitInv

\* A mempool: its transactions have a rank, so that they can be listed.
LEMMA WriteMempoolInv ==
    ASSUME ReaderInv, WriteMempool
    PROVE  ReaderInv'
  <1>1. ReplaceMempool /\ Versioned /\ UNCHANGED <<published, written, readerVars>> /\ txs' = txs
    BY DEF WriteMempool, ReplaceMempool
  <1>2. IInv'
    BY <1>1, ReplaceMempoolIInv DEF ReaderInv
  <1>3. PICK entries \in Pending : db' = [db EXCEPT !.mempool = entries]
    BY <1>1 DEF ReplaceMempool
  <1>4. db'.mempool = entries /\ db'.cursor = db.cursor
    <2>1. DOMAIN db = DOMAIN EmptyDb
      BY DEF ReaderInv, IInv, BranchStored
    <2> QED
      BY <1>3, <2>1, TableNames
  <1>5. MempoolListed(db)' /\ StatusFollows'
    BY <1>1, <1>4, RowsAssumption DEF MempoolListed, ReaderInv, StatusFollows, Behind
  <1> QED
    BY <1>1, <1>2, <1>5, CommitInv

\* The status catches up.
LEMMA PublishStatusInv ==
    ASSUME ReaderInv, PublishStatus
    PROVE  ReaderInv'
  <1>1. /\ published' = db.cursor.height /\ written' = FALSE
        /\ txs' = txs /\ db' = db /\ req' = req /\ from' = from /\ got' = got /\ walk' = walk
        /\ seen' = seen
    BY DEF PublishStatus, vars, readerVars
  <1>2. db.cursor.height \in Int
    BY CurrentVersion, VersionHeight DEF ReaderInv
  <1>3. StatusFollows'
    BY <1>1, <1>2, ConstantsAssumption DEF StatusFollows, Behind
  <1> QED
    BY <1>1, <1>3, SameReader

\* The explorer dies in the middle of a page, which is asked for again: a walk that
\* still has what it had, and no answers yet.
LEMMA RestartExplorerInv ==
    ASSUME ReaderInv, RestartExplorer
    PROVE  ReaderInv'
  <1>1. /\ published' \in {db.cursor.height, -1} /\ written' = FALSE
        /\ txs' = txs /\ db' = db /\ req' = req /\ from' = from /\ walk' = walk /\ seen' = seen
        /\ got' = IF Done THEN got ELSE NoAnswers
    BY DEF RestartExplorer, vars
  <1>2. db.cursor.height \in Int
    BY CurrentVersion, VersionHeight DEF ReaderInv
  <1>3. StatusFollows'
    BY <1>1, <1>2, ConstantsAssumption DEF StatusFollows, Behind
  <1>4. CASE Done
    BY <1>1, <1>3, <1>4, SameReader
  <1>5. CASE ~Done
    <2>1. got' = NoAnswers /\ DOMAIN got' = {}
      BY <1>1, <1>5 DEF NoAnswers
    <2>2. IInv' /\ MempoolListed(db)'
      <3>1. IInv'
        BY <1>1, StutterIInv DEF ReaderInv
      <3> QED
        BY <1>1, <3>1 DEF ReaderInv, MempoolListed
    <2>3. VersionsKept'
      BY <1>1, <2>1 DEF ReaderInv, VersionsKept
    <2>4. \A i \in DOMAIN seen' : Version(seen[i])'
      BY <1>1 DEF ReaderInv, Version
    <2>5. ASSUME req # Null PROVE Answered(txs', req', seen', from', got')
      BY <1>1, <2>1, <2>5, Serving, NothingAnswered
    <2>6. ASSUME req # Null PROVE \E begin : Walked(begin)'
      <3>1. PICK begin : Walked(begin)
        BY <2>6 DEF ReaderInv
      <3>2. Walked(begin)'
        BY <1>1, <2>1, <3>1 DEF Walked
      <3> QED
        BY <3>2
    <2> QED
      BY <1>1, <1>3, <2>2, <2>3, <2>4, <2>5, <2>6 DEF ReaderInv
  <1> QED
    BY <1>4, <1>5

\* Whatever the indexer commits between two statements, the answers so far are those of
\* versions that each hold one branch, in the order in which they were committed.
THEOREM RepliesRead == ApiSpec => []ReaderInv
  <1>1. ApiInit => ReaderInv
    BY ReaderInit
  <1>2. ReaderInv /\ [ApiNext]_apiVars => ReaderInv'
    <2> SUFFICES ASSUME ReaderInv, [ApiNext]_apiVars PROVE ReaderInv'
      OBVIOUS
    <2>1. CASE \E r \in Request : Ask(r)
      BY <2>1, AskInv
    <2>2. CASE Serve
      BY <2>2, ServeInv
    <2>3. CASE Follow
      BY <2>3, FollowInv
    <2>4. CASE Leave
      BY <2>4, LeaveInv
    <2>5. CASE WriteBlocks
      BY <2>5, WriteBlocksInv
    <2>6. CASE WriteMempool
      BY <2>6, WriteMempoolInv
    <2>7. CASE PublishStatus
      BY <2>7, PublishStatusInv
    <2>8. CASE RestartExplorer
      BY <2>8, RestartExplorerInv
    <2>9. CASE UNCHANGED apiVars
      <3>1. /\ published' = published /\ written' = written
            /\ txs' = txs /\ db' = db /\ req' = req /\ from' = from /\ got' = got /\ walk' = walk
            /\ seen' = seen
        BY <2>9 DEF apiVars, vars, readerVars
      <3>2. StatusFollows'
        BY <3>1 DEF ReaderInv, StatusFollows
      <3> QED
        BY <3>1, <3>2, SameReader
    <2> QED
      BY <2>1, <2>2, <2>3, <2>4, <2>5, <2>6, <2>7, <2>8, <2>9 DEF ApiNext
  <1> QED
    BY <1>1, <1>2, PTL DEF ApiSpec

-------------------------------------------------------------------------------
(* Versions *)

\* What a version holds.
LEMMA VersionFacts ==
    ASSUME NEW d, Version(d)
    PROVE  LET B == HashesIn(d)
               P == PlacesIn(txs, B)
           IN  /\ txs \in Contents
               /\ B \in SUBSET Block /\ IsBranch(B) /\ IsFiniteSet(B) /\ BranchTo(B, d.cursor.hash)
               /\ d.outputs = OutputsOf(txs, P) /\ d.transactions = TransactionsOf(txs, P)
               /\ d.inputs = InputsOf(txs, P) /\ d.issuances = IssuanceRowsOf(txs, P)
               /\ d.assets = AssetRowsOf(txs, P) /\ d.addressTxs = AddressTxsOf(txs, P)
               /\ d.cursor = IF d.cursor.hash = NoBlock THEN NoCursor
                             ELSE [height |-> Height[d.cursor.hash], hash |-> d.cursor.hash]
  BY DEF Version, Held, BranchTo

\* The rows of blocks are its blocks at their heights, one of each.
LEMMA BlocksOf ==
    ASSUME NEW d, Version(d)
    PROVE  /\ \A x \in d.blocks : x.hash \in HashesIn(d) /\ x.height = Height[x.hash] /\ x.height \in Nat
           /\ \A b \in HashesIn(d) : \E x \in d.blocks : x.hash = b /\ x.height = Height[b]
           /\ \A x, y \in d.blocks : x.height = y.height => x = y
           /\ \A x \in d.blocks : x.height <= d.cursor.height
  <1> DEFINE B == HashesIn(d)
             Row(b) == [height |-> Height[b], hash |-> b, fees |-> FeesIn(txs, b)]
  <1>1. d.blocks = { Row(b) : b \in B }
    BY DEF Version, Held
  <1>2. B \in SUBSET Block /\ IsBranch(B) /\ BranchTo(B, d.cursor.hash)
        /\ d.cursor = IF d.cursor.hash = NoBlock THEN NoCursor
                      ELSE [height |-> Height[d.cursor.hash], hash |-> d.cursor.hash]
    BY VersionFacts
  <1>3. \A b \in B : Height[b] \in Nat
    BY <1>2, ConstantsAssumption
  <1>4. \A b : Row(b).hash = b /\ Row(b).height = Height[b]
    OBVIOUS
  <1>5. \A b \in B : Height[b] <= d.cursor.height
    <2>1. CASE d.cursor.hash = NoBlock
      BY <1>2, <2>1 DEF BranchTo
    <2>2. CASE d.cursor.hash # NoBlock
      BY <1>2, <2>2 DEF BranchTo
    <2> QED
      BY <2>1, <2>2
  <1> HIDE DEF Row, B
  <1> QED
    BY <1>1, <1>2, <1>3, <1>4, <1>5 DEF IsBranch, B

\* The transactions of the branch, by place.
LEMMA OnBranchAre ==
    ASSUME NEW d
    PROVE  OnBranch(d) = { TxIn(txs, q) : q \in PlacesIn(txs, HashesIn(d)) }
  <1>1. \A t : t \in OnBranch(d) <=> \E b \in HashesIn(d) : \E p \in DOMAIN txs[b] : t = txs[b][p]
    BY DEF OnBranch, HashesIn
  <1>2. \A q : q \in PlacesIn(txs, HashesIn(d)) <=> \E b \in HashesIn(d) : \E p \in DOMAIN txs[b] : q = <<b, p>>
    BY DEF PlacesIn
  <1>3. \A b, p : TxIn(txs, <<b, p>>) = txs[b][p]
    BY DEF TxIn
  <1>4. \A q \in PlacesIn(txs, HashesIn(d)) : TxIn(txs, q) \in OnBranch(d)
    BY <1>1, <1>2, <1>3
  <1>5. ASSUME NEW t \in OnBranch(d) PROVE \E q \in PlacesIn(txs, HashesIn(d)) : t = TxIn(txs, q)
    <2>1. PICK b \in HashesIn(d) : \E p \in DOMAIN txs[b] : t = txs[b][p]
      BY <1>1
    <2>2. PICK p \in DOMAIN txs[b] : t = txs[b][p]
      BY <2>1
    <2> QED
      BY <2>2, <1>3, PlaceIn
  <1> QED
    BY <1>4, <1>5

\* A branch has a block at every height up to its top.
LEMMA HeightsFilled ==
    ASSUME NEW B, NEW p, BranchTo(B, p), p # NoBlock, NEW h \in Nat, h <= Height[p]
    PROVE  \E b \in B : Height[b] = h
  <1> USE ConstantsAssumption
  <1>1. B \in SUBSET Block /\ IsBranch(B) /\ p \in B /\ Height[p] \in Nat
    BY DEF BranchTo
  <1> DEFINE S == { k \in Nat : k <= Height[p] => \E b \in B : Height[b] = Height[p] - k }
  <1>2. 0 \in S
    BY <1>1
  <1>3. ASSUME NEW k \in Nat, k \in S PROVE k + 1 \in S
    <2> SUFFICES ASSUME k + 1 <= Height[p] PROVE \E b \in B : Height[b] = Height[p] - (k + 1)
      OBVIOUS
    <2>1. PICK b \in B : Height[b] = Height[p] - k
      BY <1>1, <1>3
    <2>2. b \in Block /\ Height[b] # 0
      BY <1>1, <2>1
    <2>3. Prev[b] # NoBlock /\ Prev[b] \in B /\ Prev[b] \in Block
      BY <1>1, <2>2 DEF IsBranch
    <2>4. Height[b] = Height[Prev[b]] + 1 /\ Height[Prev[b]] \in Nat
      BY <2>2, <2>3
    <2> QED
      BY <1>1, <2>1, <2>3, <2>4
  <1>4. Height[p] - h \in Nat
    BY <1>1
  <1>5. Height[p] - h \in S
    <2> HIDE DEF S
    <2> QED
      BY <1>2, <1>3, <1>4, SetInduction
  <1> QED
    BY <1>1, <1>5

\* A version into which another has grown: what it adds is above the other's top.
LEMMA GrownVersion ==
    ASSUME NEW d, Version(d), NEW e, Version(e), d.blocks \subseteq e.blocks
    PROVE  /\ HashesIn(d) \subseteq HashesIn(e)
           /\ PlacesIn(txs, HashesIn(d)) \subseteq PlacesIn(txs, HashesIn(e))
           /\ d.cursor.height <= e.cursor.height
           /\ \A x \in e.blocks : x.height <= d.cursor.height => x \in d.blocks
           /\ \A q \in PlacesIn(txs, HashesIn(e)) :
                HeightAt(q) <= d.cursor.height => q \in PlacesIn(txs, HashesIn(d))
  <1>1. HashesIn(d) \subseteq HashesIn(e)
    BY DEF HashesIn
  <1>2. PlacesIn(txs, HashesIn(d)) \subseteq PlacesIn(txs, HashesIn(e))
    BY <1>1 DEF PlacesIn
  <1> DEFINE p == d.cursor.hash
  <1>3. BranchTo(HashesIn(d), p)
        /\ d.cursor = IF p = NoBlock THEN NoCursor ELSE [height |-> Height[p], hash |-> p]
    BY VersionFacts
  <1>4. d.cursor.height <= e.cursor.height
    <2>1. CASE p = NoBlock
      <3>1. e.cursor.height >= -1 /\ e.cursor.height \in Int
        BY VersionHeight
      <3> QED
        BY <1>3, <2>1, <3>1 DEF NoCursor
    <2>2. CASE p # NoBlock
      <3>1. p \in HashesIn(d) /\ d.cursor.height = Height[p]
        BY <1>3, <2>2 DEF BranchTo
      <3>2. PICK x \in d.blocks : x.height = Height[p]
        BY <3>1, BlocksOf
      <3> QED
        BY <3>1, <3>2, BlocksOf
    <2> QED
      BY <2>1, <2>2
  <1>5. ASSUME NEW x \in e.blocks, x.height <= d.cursor.height
        PROVE  x \in d.blocks
    <2>1. x.height \in Nat
      BY BlocksOf
    <2>2. p # NoBlock /\ d.cursor.height = Height[p]
      BY <1>3, <1>5, <2>1 DEF NoCursor
    <2>3. PICK b \in HashesIn(d) : Height[b] = x.height
      BY <1>3, <1>5, <2>1, <2>2, HeightsFilled
    <2>4. PICK y \in d.blocks : y.height = x.height
      BY <2>3, BlocksOf
    <2> QED
      BY <2>4, BlocksOf
  <1>6. ASSUME NEW q \in PlacesIn(txs, HashesIn(e)), HeightAt(q) <= d.cursor.height
        PROVE  q \in PlacesIn(txs, HashesIn(d))
    <2>1. /\ q[1] \in HashesIn(e) /\ q[2] \in DOMAIN txs[q[1]] /\ q = <<q[1], q[2]>>
          /\ HeightAt(q) = Height[q[1]]
      BY VersionFacts, PlaceFacts DEF HeightAt
    <2>2. PICK x \in e.blocks : x.hash = q[1] /\ x.height = Height[q[1]]
      BY <2>1, BlocksOf
    <2>3. q[1] \in HashesIn(d)
      BY <1>5, <1>6, <2>1, <2>2, BlocksOf
    <2> QED
      BY <2>1, <2>3, PlaceIn
  <1> QED
    BY <1>1, <1>2, <1>4, <1>5, <1>6

\* Without a rollback every version has grown into each later one.
LEMMA GrownBlocks ==
    ASSUME NEW k \in Nat, GrownSince(k), Len(seen) \in Nat,
           NEW i \in k..Len(seen), NEW j \in i..Len(seen)
    PROVE  seen[i].blocks \subseteq seen[j].blocks
  <1> DEFINE S == { n \in Nat : i + n <= Len(seen) => seen[i].blocks \subseteq seen[i + n].blocks }
  <1>1. 0 \in S
    <2>1. i + 0 = i
      OBVIOUS
    <2> QED
      BY <2>1
  <1>2. ASSUME NEW n \in Nat, n \in S PROVE n + 1 \in S
    <2> SUFFICES ASSUME i + (n + 1) <= Len(seen)
                 PROVE  seen[i].blocks \subseteq seen[i + (n + 1)].blocks
      OBVIOUS
    <2>1. i + n \in k..(Len(seen) - 1) /\ i + n <= Len(seen) /\ (i + n) + 1 = i + (n + 1)
      OBVIOUS
    <2>2. seen[i + n].blocks \subseteq seen[(i + n) + 1].blocks
      BY <2>1 DEF GrownSince
    <2> QED
      BY <1>2, <2>1, <2>2
  <1>3. j - i \in Nat /\ i + (j - i) = j
    OBVIOUS
  <1>4. j - i \in S
    <2> HIDE DEF S
    <2> QED
      BY <1>1, <1>2, <1>3, SetInduction
  <1> QED
    BY <1>3, <1>4

-------------------------------------------------------------------------------
(* Replies *)

\* What a reply consists of, by statement.
LEMMA ReplyRead ==
    ASSUME ReaderInv, Done, ~Failed(got)
    PROVE  LET H == Handler(req) IN
           /\ req \in Request /\ Len(seen) \in Nat \ {0} /\ DOMAIN seen = 1..Len(seen)
           /\ \A i \in 1..Len(seen) : Version(seen[i])
           /\ DOMAIN got = { H[i] : i \in 1..Len(H) }
           /\ \A i, j \in 1..Len(H) : i <= j => got[H[i]].at <= got[H[j]].at
           /\ \A q \in DOMAIN got :
                /\ got[q].at \in 1..Len(seen) /\ got[q].val # NotFound
                /\ q # "status" => got[q].val = Query(txs, req, from, got, q, seen[got[q].at])
                /\ q = "status" => Behind(got[q].val, seen[got[q].at])
  <1> DEFINE H == Handler(req)
  <1>1. req # Null /\ Cardinality(DOMAIN got) = Len(H)
    BY DoneReply DEF Done
  <1>2. /\ req \in Request /\ Len(seen) \in Nat \ {0} /\ DOMAIN seen = 1..Len(seen)
        /\ Answered(txs, req, seen, from, got)
    BY <1>1, Serving
  <1>3. \A i \in 1..Len(seen) : Version(seen[i])
    BY <1>2 DEF ReaderInv
  <1>4. /\ DOMAIN got = { H[i] : i \in 1..Len(H) }
        /\ \A i, j \in 1..Len(H) : i <= j => got[H[i]].at <= got[H[j]].at
        /\ \A i \in 1..Len(H) :
                /\ got[H[i]].at \in 1..Len(seen) /\ got[H[i]].val # NotFound
                /\ H[i] # "status" => got[H[i]].val = Query(txs, req, from, got, H[i], seen[got[H[i]].at])
                /\ H[i] = "status" => Behind(got[H[i]].val, seen[got[H[i]].at])
    BY <1>1, <1>2, WholeReply
  <1> HIDE DEF H
  <1>5. \A q \in DOMAIN got :
                /\ got[q].at \in 1..Len(seen) /\ got[q].val # NotFound
                /\ q # "status" => got[q].val = Query(txs, req, from, got, q, seen[got[q].at])
                /\ q = "status" => Behind(got[q].val, seen[got[q].at])
    BY <1>4
  <1> QED
    BY <1>2, <1>3, <1>4, <1>5 DEF H

\* Each statement by its name.
LEMMA Statements ==
    ASSUME ReaderInv, Done, ~Failed(got), NEW q \in DOMAIN got
    PROVE  LET d == seen[got[q].at]
               a == got[q].val
           IN  /\ got[q].at \in 1..Len(seen) /\ Version(d) /\ a # NotFound
               /\ q = "params" => a = PageParams(req.limit, from.offset)
               /\ q = "resolve" => a = HeightForHash(d, req.id)
               /\ q = "header" => a = BlockHeader(txs, d, BlockHeight(req, got))
               /\ q = "count" => a = Cardinality(Listing(req, got, d))
               /\ q = "page" => a = Page(req, Params(req, got), Listing(req, got, d))
               /\ q = "txrow" => a = TheRow({ t \in d.transactions : t.txid = req.id })
               /\ q = "issuances" => a = IssuancesForTx(d, req.id)
               /\ q = "inputs" => a = TxInputs(d, req.id)
               /\ q = "outputs" => a = { o \in d.outputs : o.txid = req.id }
               /\ q = "counts" => a = AddressCounts(d, req.id)
               /\ q = "balances" => a = Balances(d, req.id)
               /\ q = "record" => a = AssetRecord(d, req.id)
               /\ q = "stats" => a = IndexedBlocks(d)
               /\ q = "sample" => a = SampleBlocks(d)
               /\ q = "total" => a = IndexedBlocks(d)
               /\ q = "blocks" => a = BlockPage(d, Params(req, got).limit, Before(from, d))
               /\ q = "recent" => a = RecentTransactions(d, Params(req, got).limit)
               /\ q \in Lookups => a = Lookup(d, q, req)
               /\ q = "status" => Behind(a, d)
  <1> DEFINE d == seen[got[q].at]
             a == got[q].val
  <1>1. /\ got[q].at \in 1..Len(seen) /\ Version(d) /\ a # NotFound
        /\ q # "status" => a = Query(txs, req, from, got, q, d)
        /\ q = "status" => Behind(a, d)
    BY ReplyRead
  <1> HIDE DEF d, a
  <1>2. /\ q = "params" => Query(txs, req, from, got, q, d) = PageParams(req.limit, from.offset)
        /\ q = "resolve" => Query(txs, req, from, got, q, d) = HeightForHash(d, req.id)
        /\ q = "header" => Query(txs, req, from, got, q, d) = BlockHeader(txs, d, BlockHeight(req, got))
        /\ q = "count" => Query(txs, req, from, got, q, d) = Cardinality(Listing(req, got, d))
        /\ q = "page" => Query(txs, req, from, got, q, d) = Page(req, Params(req, got), Listing(req, got, d))
        /\ q = "txrow" => Query(txs, req, from, got, q, d) = TheRow({ t \in d.transactions : t.txid = req.id })
        /\ q = "issuances" => Query(txs, req, from, got, q, d) = IssuancesForTx(d, req.id)
        /\ q = "inputs" => Query(txs, req, from, got, q, d) = TxInputs(d, req.id)
        /\ q = "outputs" => Query(txs, req, from, got, q, d) = { o \in d.outputs : o.txid = req.id }
        /\ q = "counts" => Query(txs, req, from, got, q, d) = AddressCounts(d, req.id)
        /\ q = "balances" => Query(txs, req, from, got, q, d) = Balances(d, req.id)
        /\ q = "record" => Query(txs, req, from, got, q, d) = AssetRecord(d, req.id)
        /\ q = "stats" => Query(txs, req, from, got, q, d) = IndexedBlocks(d)
        /\ q = "sample" => Query(txs, req, from, got, q, d) = SampleBlocks(d)
        /\ q = "total" => Query(txs, req, from, got, q, d) = IndexedBlocks(d)
        /\ q = "blocks" => Query(txs, req, from, got, q, d) = BlockPage(d, Params(req, got).limit, Before(from, d))
        /\ q = "recent" => Query(txs, req, from, got, q, d) = RecentTransactions(d, Params(req, got).limit)
        /\ q \in Lookups => Query(txs, req, from, got, q, d) = Lookup(d, q, req)
    BY DEF Query, Lookups
  <1>3. q \in Lookups => q # "status"
    BY DEF Lookups
  <1> QED
    BY <1>1, <1>2, <1>3 DEF d, a

\* A row that was found is one of those looked for.
LEMMA RowThere ==
    ASSUME NEW rows, TheRow(rows) # NotFound
    PROVE  TheRow(rows) \in rows
  BY DEF TheRow

-------------------------------------------------------------------------------
(* A block *)

\* The rows of transactions are the places of the branch.
LEMMA RowsOfTransactions ==
    ASSUME NEW d, Version(d), NEW x
    PROVE  x \in d.transactions <=>
             \E q \in PlacesIn(txs, HashesIn(d)) :
               x = [txid |-> TxIn(txs, q), block |-> q[1], height |-> HeightAt(q), position |-> q[2]]
  <1>1. d.transactions = TransactionsOf(txs, PlacesIn(txs, HashesIn(d)))
    BY VersionFacts
  <1> QED
    BY <1>1 DEF TransactionsOf

\* The transactions at the height of a block are that block's.
LEMMA TransactionsAt ==
    ASSUME NEW d, Version(d), NEW b \in HashesIn(d)
    PROVE  /\ \A t \in TransactionsInBlock(d, Height[b]) : t.block = b
           /\ Cardinality(TransactionsInBlock(d, Height[b])) = Len(txs[b])
  <1> DEFINE T == TransactionsInBlock(d, Height[b])
             P == PlacesIn(txs, HashesIn(d))
             Row(q) == [txid |-> TxIn(txs, q), block |-> q[1], height |-> HeightAt(q), position |-> q[2]]
             m == [p \in 1..Len(txs[b]) |-> Row(<<b, p>>)]
  <1>1. txs \in Contents /\ HashesIn(d) \in SUBSET Block /\ IsBranch(HashesIn(d))
    BY VersionFacts
  <1>2. Len(txs[b]) \in Nat /\ DOMAIN txs[b] = 1..Len(txs[b])
    BY <1>1, ContentsAssumption
  <1>3. \A x : x \in T <=> x.height = Height[b] /\ \E q \in P : x = Row(q)
    BY RowsOfTransactions DEF TransactionsInBlock
  <1>4. \A q \in P : HeightAt(q) = Height[b] => q[1] = b /\ q[2] \in 1..Len(txs[b]) /\ q = <<b, q[2]>>
    <2> SUFFICES ASSUME NEW q \in P, HeightAt(q) = Height[b]
                 PROVE  q[1] = b /\ q[2] \in 1..Len(txs[b]) /\ q = <<b, q[2]>>
      OBVIOUS
    <2>1. q[1] \in HashesIn(d) /\ q[2] \in DOMAIN txs[q[1]] /\ q = <<q[1], q[2]>>
      BY <1>1, PlaceFacts
    <2>2. q[1] = b
      BY <1>1, <2>1 DEF IsBranch, HeightAt
    <2> QED
      BY <1>2, <2>1, <2>2
  <1>5. \A p \in 1..Len(txs[b]) : <<b, p>> \in P /\ HeightAt(<<b, p>>) = Height[b]
    BY <1>2, PlaceIn DEF HeightAt
  <1>6. \A q : Row(q).block = q[1] /\ Row(q).height = HeightAt(q) /\ Row(q).position = q[2]
    OBVIOUS
  <1> HIDE DEF Row, T, P
  <1>7. T = { m[p] : p \in 1..Len(txs[b]) }
    <2>1. ASSUME NEW x \in T PROVE \E p \in 1..Len(txs[b]) : x = m[p]
      <3>1. PICK q \in P : x = Row(q) /\ HeightAt(q) = Height[b]
        BY <1>3, <1>6
      <3> QED
        BY <1>4, <3>1
    <2>2. ASSUME NEW p \in 1..Len(txs[b]) PROVE m[p] \in T
      <3>1. m[p] = Row(<<b, p>>)
        OBVIOUS
      <3> QED
        BY <1>3, <1>5, <1>6, <3>1
    <2> HIDE DEF m
    <2> QED
      BY <2>1, <2>2
  <1>8. \A p, q \in 1..Len(txs[b]) : m[p] = m[q] => p = q
    <2>1. \A p \in 1..Len(txs[b]) : m[p].position = p
      BY <1>6
    <2> HIDE DEF m
    <2> QED
      BY <2>1
  <1>9. IsFiniteSet(1..Len(txs[b])) /\ Cardinality(1..Len(txs[b])) = Len(txs[b])
    BY <1>2, FS_Interval
  <1>10. Cardinality(T) = Len(txs[b])
    <2> HIDE DEF m
    <2> QED
      BY <1>7, <1>8, <1>9, ImageSize
  <1>11. \A t \in T : t.block = b
    BY <1>3, <1>4, <1>6
  <1> QED
    BY <1>10, <1>11 DEF T

\* The first statement of blockDetail: a block, its size and the block above.
LEMMA HeaderRow ==
    ASSUME NEW d, Version(d), NEW h, BlockHeader(txs, d, h) # NotFound
    PROVE  LET r == BlockHeader(txs, d, h) IN
           /\ \E x \in d.blocks : x.height = h /\ x.hash = r.hash
           /\ r.txCount = Len(txs[r.hash])
           /\ r.next # NotFound => \E x \in d.blocks : x.height = h + 1 /\ x.hash = r.next
  <1> DEFINE next == TheRow({ a.hash : a \in { x \in d.blocks : x.height = h + 1 } })
             rows == { [hash |-> b.hash, txCount |-> Len(txs[b.hash]), next |-> next]
                       : b \in { x \in d.blocks : x.height = h } }
  <1>1. BlockHeader(txs, d, h) = TheRow(rows)
    BY DEF BlockHeader
  <1>2. TheRow(rows) \in rows
    BY <1>1, RowThere
  <1>3. next # NotFound => \E x \in d.blocks : x.height = h + 1 /\ x.hash = next
    <2>1. next # NotFound => next \in { a.hash : a \in { x \in d.blocks : x.height = h + 1 } }
      BY RowThere
    <2> HIDE DEF next
    <2> QED
      BY <2>1
  <1> HIDE DEF next
  <1>4. PICK b \in d.blocks : b.height = h
          /\ TheRow(rows) = [hash |-> b.hash, txCount |-> Len(txs[b.hash]), next |-> next]
    BY <1>2
  <1> HIDE DEF rows
  <1> QED
    BY <1>1, <1>3, <1>4

\* A page holds rows of its listing.
LEMMA PageRows ==
    ASSUME NEW r, NEW p, NEW rows
    PROVE  Page(r, p, rows) \subseteq rows
  BY DEF Page, Window

\* A block reply: all its answers are about the one block of that height.
LEMMA BlockReply ==
    ASSUME ReaderInv
    PROVE  BlockReplyWhole
  <1> SUFFICES ASSUME Replied("block") PROVE BlockReplyWhole
    BY DEF BlockReplyWhole
  <1> DEFINE H == Handler(req)
             h == BlockHeight(req, got)
             header == got["header"].val
             count == got["count"].val
             page == got["page"].val
             d == seen[got["header"].at]
             e == seen[got["page"].at]
             k == seen[got["count"].at]
             a == seen[got["resolve"].at]
             hashed == req.form = "hash"
  <1>1. Done /\ ~Failed(got) /\ req.op = "block"
    BY DEF Replied
  <1>2. /\ req \in Request /\ Len(seen) \in Nat \ {0} /\ DOMAIN seen = 1..Len(seen)
        /\ \A i \in 1..Len(seen) : Version(seen[i])
        /\ DOMAIN got = { H[i] : i \in 1..Len(H) }
        /\ \A i, j \in 1..Len(H) : i <= j => got[H[i]].at <= got[H[j]].at
        /\ \A q \in DOMAIN got :
             /\ got[q].at \in 1..Len(seen) /\ got[q].val # NotFound
             /\ q # "status" => got[q].val = Query(txs, req, from, got, q, seen[got[q].at])
    BY <1>1, ReplyRead
  <1>3. H = IF hashed THEN <<"resolve", "params", "header", "count", "page">>
            ELSE <<"params", "header", "count", "page">>
    BY <1>1 DEF Handler, HandleBlock
  <1> HIDE DEF H
  <1>4. /\ {"header", "count", "page"} \subseteq DOMAIN got
        /\ got["header"].at <= got["count"].at /\ got["count"].at <= got["page"].at
        /\ hashed => "resolve" \in DOMAIN got /\ got["resolve"].at <= got["header"].at
    <2>1. CASE hashed
      BY <1>2, <1>3, <2>1
    <2>2. CASE ~hashed
      BY <1>2, <1>3, <2>2
    <2> QED
      BY <2>1, <2>2
  <1>5. /\ Version(d) /\ Version(e) /\ Version(k) /\ (hashed => Version(a))
        /\ header # NotFound
    BY <1>2, <1>4
  <1>6. header = BlockHeader(txs, d, h)
    BY <1>1, <1>4, Statements
  <1>7. count = Cardinality(TransactionsInBlock(k, h))
    <2>1. count = Cardinality(Listing(req, got, k))
      BY <1>1, <1>4, Statements
    <2>2. Listing(req, got, k) = TransactionsInBlock(k, h)
      BY <1>1 DEF Listing
    <2> QED
      BY <2>1, <2>2
  <1>8. page \subseteq TransactionsInBlock(e, h)
    <2>1. page = Page(req, Params(req, got), Listing(req, got, e))
      BY <1>1, <1>4, Statements
    <2>2. Listing(req, got, e) = TransactionsInBlock(e, h)
      BY <1>1 DEF Listing
    <2> QED
      BY <2>1, <2>2, PageRows
  <1>9. hashed => \E x \in a.blocks : x.height = h /\ x.hash = req.id
    <2> SUFFICES ASSUME hashed PROVE \E x \in a.blocks : x.height = h /\ x.hash = req.id
      OBVIOUS
    <2>1. got["resolve"].val = HeightForHash(a, req.id) /\ got["resolve"].val # NotFound
      BY <1>1, <1>4, Statements
    <2>2. h = HeightForHash(a, req.id) /\ h # NotFound
      BY <2>1 DEF BlockHeight
    <2>3. h \in { b.height : b \in { x \in a.blocks : x.hash = req.id } }
      BY <2>2, RowThere DEF HeightForHash
    <2> QED
      BY <2>3
  <1> HIDE DEF h, hashed
  <1>10. PICK x \in d.blocks : x.height = h /\ x.hash = header.hash
    BY <1>5, <1>6, HeaderRow
  <1>11. header.txCount = Len(txs[header.hash])
         /\ (header.next # NotFound => \E y \in d.blocks : y.height = h + 1 /\ y.hash = header.next)
    BY <1>5, <1>6, HeaderRow
  <1>12. header.hash \in HashesIn(d) /\ header.hash \in Block /\ h = Height[header.hash] /\ h \in Nat
    <2>1. HashesIn(d) \in SUBSET Block
      BY <1>5, VersionFacts
    <2>2. x.hash \in HashesIn(d) /\ x.height = Height[x.hash] /\ x.height \in Nat
      BY <1>5, <1>10, BlocksOf
    <2> QED
      BY <1>10, <2>1, <2>2
  <1>13. header.next # NotFound => Prev[header.next] = header.hash
    <2> SUFFICES ASSUME header.next # NotFound PROVE Prev[header.next] = header.hash
      OBVIOUS
    <2>1. PICK y \in d.blocks : y.height = h + 1 /\ y.hash = header.next
      BY <1>11
    <2>2. y.hash \in HashesIn(d) /\ Height[y.hash] = h + 1
      BY <1>5, <2>1, BlocksOf
    <2>3. HashesIn(d) \in SUBSET Block /\ IsBranch(HashesIn(d))
      BY <1>5, VersionFacts
    <2>4. Prev[y.hash] \in HashesIn(d) /\ Height[Prev[y.hash]] = h
      BY <1>12, <2>2, <2>3, ConstantsAssumption DEF IsBranch
    <2> QED
      BY <1>12, <2>1, <2>3, <2>4 DEF IsBranch
  <1>14. \A s, t \in page : s.block = t.block
    <2> SUFFICES ASSUME NEW s \in page, NEW t \in page PROVE s.block = t.block
      OBVIOUS
    <2>1. s \in TransactionsInBlock(e, h) /\ t \in TransactionsInBlock(e, h)
      BY <1>8
    <2>2. s \in e.transactions /\ s.height = h
      BY <2>1 DEF TransactionsInBlock
    <2>3. PICK q \in PlacesIn(txs, HashesIn(e)) : s = [txid |-> TxIn(txs, q), block |-> q[1], height |-> HeightAt(q), position |-> q[2]]
      BY <1>5, <2>2, RowsOfTransactions
    <2>4. q[1] \in HashesIn(e) /\ Height[q[1]] = h
      <3>1. txs \in Contents /\ HashesIn(e) \in SUBSET Block
        BY <1>5, VersionFacts
      <3>2. q[1] \in HashesIn(e)
        BY <3>1, PlaceFacts
      <3> QED
        BY <2>2, <2>3, <3>2 DEF HeightAt
    <2> QED
      BY <1>5, <2>1, <2>4, TransactionsAt
  <1>15. ASSUME Grown
         PROVE  /\ \A t \in page : t.block = header.hash
                /\ count = header.txCount
                /\ hashed => header.hash = req.id
    <2>1. /\ got["header"].at \in 1..Len(seen) /\ got["count"].at \in got["header"].at..Len(seen)
          /\ got["page"].at \in got["header"].at..Len(seen)
          /\ hashed => got["resolve"].at \in 1..Len(seen) /\ got["header"].at \in got["resolve"].at..Len(seen)
      <3>1. \A q \in {"header", "count", "page"} : got[q].at \in 1..Len(seen)
        BY <1>2, <1>4
      <3>2. hashed => got["resolve"].at \in 1..Len(seen)
        BY <1>2, <1>4
      <3> QED
        BY <1>2, <1>4, <3>1, <3>2
    <2>2. d.blocks \subseteq k.blocks /\ d.blocks \subseteq e.blocks /\ (hashed => a.blocks \subseteq d.blocks)
      <3>1. 1 \in Nat /\ GrownSince(1) /\ Len(seen) \in Nat
        BY <1>2, <1>15 DEF Grown
      <3>2. \A i \in 1..Len(seen) : \A j \in i..Len(seen) : seen[i].blocks \subseteq seen[j].blocks
        BY <3>1, GrownBlocks
      <3> QED
        BY <2>1, <3>2
    <2>3. header.hash \in HashesIn(e) /\ header.hash \in HashesIn(k)
      BY <1>10, <2>2 DEF HashesIn
    <2>4. \A t \in page : t.block = header.hash
      BY <1>5, <1>8, <1>12, <2>3, TransactionsAt
    <2>5. count = header.txCount
      BY <1>5, <1>7, <1>11, <1>12, <2>3, TransactionsAt
    <2>6. hashed => header.hash = req.id
      <3> SUFFICES ASSUME hashed PROVE header.hash = req.id
        OBVIOUS
      <3>1. PICK y \in a.blocks : y.height = h /\ y.hash = req.id
        BY <1>9
      <3>2. y \in d.blocks
        BY <2>2, <3>1
      <3>3. y = x
        BY <1>5, <1>10, <3>1, <3>2, BlocksOf
      <3> QED
        BY <1>10, <3>1, <3>3
    <2> QED
      BY <2>4, <2>5, <2>6
  <1> QED
    BY <1>13, <1>14, <1>15 DEF BlockReplyWhole, Reply, hashed

\* A reply about a block, put together by up to five statements: its header and the
\* block above are of one branch, its transactions of one block, and without a rollback
\* meanwhile they are the ones of the header, whatever else is committed.
THEOREM BlockReplyCorrect == ApiSpec => []BlockReplyWhole
  <1>1. ReaderInv => BlockReplyWhole
    BY BlockReply
  <1> QED
    BY <1>1, RepliesRead, PTL

-------------------------------------------------------------------------------
(* A transaction *)

\* Where a transaction of the branch is; it is there once.
LEMMA PlaceOf ==
    ASSUME NEW d, Version(d), NEW t \in OnBranch(d)
    PROVE  \E q \in PlacesIn(txs, HashesIn(d)) :
             TxIn(txs, q) = t /\ \A r \in PlacesIn(txs, HashesIn(d)) : TxIn(txs, r) = t => r = q
  <1> DEFINE B == HashesIn(d)
             P == PlacesIn(txs, B)
  <1>1. PICK q \in P : TxIn(txs, q) = t
    BY OnBranchAre
  <1>2. \A r \in P : TxIn(txs, r) = TxIn(txs, q) => r = q
    <2>1. txs \in Contents /\ B \in SUBSET Block /\ IsBranch(B)
      BY VersionFacts
    <2> QED
      BY <2>1, BranchRules
  <1> QED
    BY <1>1, <1>2

\* issuancesForTx finds the issuing inputs of a transaction of the branch.
LEMMA IssuancesOfTransaction ==
    ASSUME NEW d, Version(d), NEW t \in OnBranch(d)
    PROVE  IssuancesForTx(d, t) = IssuingInputs(t)
  <1> DEFINE P == PlacesIn(txs, HashesIn(d))
  <1>1. PICK q \in P : TxIn(txs, q) = t /\ \A r \in P : TxIn(txs, r) = t => r = q
    BY PlaceOf
  <1>2. d.issuances = IssuanceRowsOf(txs, P)
    BY VersionFacts
  <1>3. \A u, v, h : IssuanceRow(u, v, h).txid = u /\ IssuanceRow(u, v, h).vin = v
    BY DEF IssuanceRow
  <1>4. \A x : x \in d.issuances <=>
               \E r \in P : \E v \in IssuingInputs(TxIn(txs, r)) : x = IssuanceRow(TxIn(txs, r), v, HeightAt(r))
    BY <1>2 DEF IssuanceRowsOf
  <1> HIDE DEF P
  <1>5. ASSUME NEW x \in d.issuances, x.txid = t PROVE x.vin \in IssuingInputs(t)
    <2>1. PICK r \in P : \E v \in IssuingInputs(TxIn(txs, r)) : x = IssuanceRow(TxIn(txs, r), v, HeightAt(r))
      BY <1>4
    <2>2. PICK v \in IssuingInputs(TxIn(txs, r)) : x = IssuanceRow(TxIn(txs, r), v, HeightAt(r))
      BY <2>1
    <2> QED
      BY <1>3, <1>5, <2>2
  <1>6. ASSUME NEW v \in IssuingInputs(t) PROVE \E x \in d.issuances : x.txid = t /\ x.vin = v
    <2>1. IssuanceRow(t, v, HeightAt(q)) \in d.issuances
      BY <1>1, <1>4
    <2> QED
      BY <1>3, <2>1
  <1> QED
    BY <1>5, <1>6 DEF IssuancesForTx

\* The outputs of the branch by transaction and number.
LEMMA OutputRows ==
    ASSUME NEW d, Version(d), NEW o \in d.outputs
    PROVE  /\ o.txid \in OnBranch(d) /\ o.txid \in Tx /\ o.vout \in DOMAIN Vout[o.txid]
           /\ o.address = Vout[o.txid][o.vout]
           /\ o.spent = SpentBy(txs, PlacesIn(txs, HashesIn(d)), o.txid, o.vout)
           /\ \E q \in PlacesIn(txs, HashesIn(d)) : o.txid = TxIn(txs, q) /\ o.height = HeightAt(q)
  <1> DEFINE P == PlacesIn(txs, HashesIn(d))
  <1>1. d.outputs = OutputsOf(txs, P) /\ txs \in Contents /\ HashesIn(d) \in SUBSET Block
    BY VersionFacts
  <1>2. PICK q \in P : \E v \in DOMAIN Vout[TxIn(txs, q)] : o = OutputRow(txs, P, q, v)
    BY <1>1, OutputsAre
  <1>3. PICK v \in DOMAIN Vout[TxIn(txs, q)] : o = OutputRow(txs, P, q, v)
    BY <1>2
  <1>4. /\ o.txid = TxIn(txs, q) /\ o.vout = v /\ o.address = Vout[TxIn(txs, q)][v]
        /\ o.height = HeightAt(q) /\ o.spent = SpentBy(txs, P, TxIn(txs, q), v)
    BY <1>3 DEF OutputRow
  <1>5. TxIn(txs, q) \in Tx
    BY <1>1, PlaceFacts
  <1>6. TxIn(txs, q) \in OnBranch(d)
    BY OnBranchAre
  <1> QED
    BY <1>4, <1>5, <1>6

\* Every output of a transaction of the branch has a row.
LEMMA OutputThere ==
    ASSUME NEW d, Version(d), NEW t \in OnBranch(d), NEW v \in DOMAIN Vout[t]
    PROVE  \E o \in d.outputs : o.txid = t /\ o.vout = v
  <1> DEFINE P == PlacesIn(txs, HashesIn(d))
  <1>1. d.outputs = OutputsOf(txs, P)
    BY VersionFacts
  <1>2. PICK q \in P : TxIn(txs, q) = t
    BY PlaceOf
  <1>3. OutputRow(txs, P, q, v) \in d.outputs
    BY <1>1, <1>2, OutputsAre
  <1>4. OutputRow(txs, P, q, v).txid = t /\ OutputRow(txs, P, q, v).vout = v
    BY <1>2 DEF OutputRow
  <1> QED
    BY <1>3, <1>4

\* Who spends an output, as the tables and as the branch have it.
LEMMA SpendersAre ==
    ASSUME NEW d, Version(d), NEW t, NEW v, <<t, v>> # Null
    PROVE  LET mark == SpentBy(txs, PlacesIn(txs, HashesIn(d)), t, v) IN
           IF mark = Null THEN Spenders(d, t, v) = {}
           ELSE Spenders(d, t, v) = {[txid |-> mark.txid, vin |-> mark.vin]}
  <1> DEFINE B == HashesIn(d)
             P == PlacesIn(txs, B)
             by == { i \in InputsIn(txs, P) : PrevIn(txs, i) = <<t, v>> }
             S(i) == [txid |-> TxIn(txs, i[1]), vin |-> i[2]]
             M(i) == [txid |-> TxIn(txs, i[1]), vin |-> i[2], height |-> HeightAt(i[1])]
  <1>1. txs \in Contents /\ B \in SUBSET Block /\ IsBranch(B)
    BY VersionFacts
  <1>2. Spenders(d, t, v) = { S(i) : i \in by }
    <2>1. ASSUME NEW x \in Spenders(d, t, v) PROVE \E i \in by : x = S(i)
      <3>1. PICK s \in OnBranch(d) : \E w \in DOMAIN Vin[s] : Vin[s][w].prev = <<t, v>> /\ x = [txid |-> s, vin |-> w]
        BY DEF Spenders
      <3>2. PICK w \in DOMAIN Vin[s] : Vin[s][w].prev = <<t, v>> /\ x = [txid |-> s, vin |-> w]
        BY <3>1
      <3>3. PICK q \in P : TxIn(txs, q) = s
        BY OnBranchAre
      <3>4. <<q, w>> \in InputsIn(txs, P) /\ PrevIn(txs, <<q, w>>) = <<t, v>>
        BY <3>2, <3>3, InputsAre DEF PrevIn
      <3>5. <<q, w>> \in by /\ x = S(<<q, w>>)
        BY <3>2, <3>3, <3>4
      <3> QED
        BY <3>5
    <2>2. ASSUME NEW i \in by PROVE S(i) \in Spenders(d, t, v)
      <3>1. i \in InputsIn(txs, P) /\ PrevIn(txs, i) = <<t, v>>
        OBVIOUS
      <3>2. i[1] \in P /\ i[2] \in DOMAIN Vin[TxIn(txs, i[1])] /\ Vin[TxIn(txs, i[1])][i[2]].prev = <<t, v>>
        BY <3>1, InputFacts
      <3>3. TxIn(txs, i[1]) \in OnBranch(d)
        BY <3>2, OnBranchAre
      <3> QED
        BY <3>2, <3>3 DEF Spenders
    <2> HIDE DEF by, S
    <2> QED
      BY <2>1, <2>2
  <1>3. \A i, j \in by : i = j
    BY <1>1, BranchRules
  <1>4. \A i \in by : M(i) # Null
    <2> SUFFICES ASSUME NEW i \in by PROVE M(i) # Null
      OBVIOUS
    <2>1. i[1] \in P /\ i[2] \in DOMAIN Vin[TxIn(txs, i[1])]
      BY InputFacts
    <2>2. TxIn(txs, i[1]) \in Tx /\ i[1][1] \in Block /\ HeightAt(i[1]) = Height[i[1][1]]
      BY <1>1, <2>1, PlaceFacts DEF HeightAt
    <2> QED
      BY <2>1, <2>2, TransactionsAssumption
  <1>5. SpentBy(txs, P, t, v) = IF by = {} THEN Null ELSE M(CHOOSE i \in by : TRUE)
    BY DEF SpentBy
  <1>6. \A i : M(i).txid = S(i).txid /\ M(i).vin = S(i).vin /\ S(i) = [txid |-> M(i).txid, vin |-> M(i).vin]
    OBVIOUS
  <1> HIDE DEF by, S, M
  <1>7. CASE by = {}
    BY <1>2, <1>5, <1>7
  <1>8. CASE by # {}
    <2>1. PICK i \in by : TRUE
      BY <1>8
    <2>2. (CHOOSE j \in by : TRUE) = i /\ { S(j) : j \in by } = {S(i)}
      BY <1>3, <2>1
    <2>3. SpentBy(txs, P, t, v) = M(i) /\ M(i) # Null
      BY <1>4, <1>5, <1>8, <2>2
    <2> HIDE DEF P
    <2> QED
      BY <1>2, <1>6, <2>2, <2>3 DEF P
  <1> QED
    BY <1>7, <1>8

\* Every input of a transaction of the branch finds the output it spends.
LEMMA InputsOfTransaction ==
    ASSUME NEW d, Version(d), NEW t \in OnBranch(d)
    PROVE  TxInputs(d, t) =
             { [vin |-> v, prevout |-> IF Vin[t][v].prev = Null THEN NotFound
                                       ELSE Vout[Vin[t][v].prev[1]][Vin[t][v].prev[2]]]
               : v \in DOMAIN Vin[t] }
  <1> DEFINE B == HashesIn(d)
             P == PlacesIn(txs, B)
             rows == { x \in d.inputs : x.txid = t }
             shown(v) == IF Vin[t][v].prev = Null THEN NotFound ELSE Vout[Vin[t][v].prev[1]][Vin[t][v].prev[2]]
  <1>1. txs \in Contents /\ B \in SUBSET Block /\ IsBranch(B) /\ d.inputs = InputsOf(txs, P)
    BY VersionFacts
  <1>2. PICK q \in P : TxIn(txs, q) = t /\ \A r \in P : TxIn(txs, r) = t => r = q
    BY PlaceOf
  <1>3. \A x : x \in d.inputs <=>
          \E r \in P : \E v \in DOMAIN Vin[TxIn(txs, r)] :
            x = [txid |-> TxIn(txs, r), vin |-> v, prev |-> Vin[TxIn(txs, r)][v].prev, height |-> HeightAt(r)]
    BY <1>1, InputRowsAre
  <1>4. ASSUME NEW x \in rows PROVE x.vin \in DOMAIN Vin[t] /\ x.prev = Vin[t][x.vin].prev
    <2>1. PICK r \in P : \E v \in DOMAIN Vin[TxIn(txs, r)] :
            x = [txid |-> TxIn(txs, r), vin |-> v, prev |-> Vin[TxIn(txs, r)][v].prev, height |-> HeightAt(r)]
      BY <1>3
    <2>2. PICK v \in DOMAIN Vin[TxIn(txs, r)] :
            x = [txid |-> TxIn(txs, r), vin |-> v, prev |-> Vin[TxIn(txs, r)][v].prev, height |-> HeightAt(r)]
      BY <2>1
    <2>3. x.txid = t
      OBVIOUS
    <2> QED
      BY <2>2, <2>3
  <1>5. ASSUME NEW v \in DOMAIN Vin[t] PROVE \E x \in rows : x.vin = v
    <2> DEFINE x == [txid |-> t, vin |-> v, prev |-> Vin[t][v].prev, height |-> HeightAt(q)]
    <2>1. x \in d.inputs
      BY <1>2, <1>3
    <2>2. x.txid = t /\ x.vin = v
      OBVIOUS
    <2> HIDE DEF x
    <2> QED
      BY <2>1, <2>2
  <1>6. ASSUME NEW v \in DOMAIN Vin[t], NEW x, x.prev = Vin[t][v].prev PROVE Prevout(d, x) = shown(v)
    <2> DEFINE found == { o \in d.outputs : <<o.txid, o.vout>> = x.prev }
               addresses == { o.address : o \in found }
    <2>1. Prevout(d, x) = TheRow(addresses)
      BY DEF Prevout
    <2>2. CASE Vin[t][v].prev = Null
      <3>1. \A o \in d.outputs : <<o.txid, o.vout>> # Null
        BY OutputRows, TransactionsAssumption
      <3>2. addresses = {}
        BY <1>6, <2>2, <3>1
      <3> QED
        BY <2>1, <2>2, <3>2 DEF TheRow
    <2>3. CASE Vin[t][v].prev # Null
      <3>1. <<q, v>> \in InputsIn(txs, P) /\ PrevIn(txs, <<q, v>>) = Vin[t][v].prev
        BY <1>2, InputsAre DEF PrevIn
      <3>2. PICK r \in P : \E o \in DOMAIN Vout[TxIn(txs, r)] : Vin[t][v].prev = <<TxIn(txs, r), o>>
        BY <1>1, <2>3, <3>1, BranchRules
      <3>3. PICK w \in DOMAIN Vout[TxIn(txs, r)] : Vin[t][v].prev = <<TxIn(txs, r), w>>
        BY <3>2
      <3>4. TxIn(txs, r) \in OnBranch(d)
        BY OnBranchAre
      <3>5. PICK o \in d.outputs : o.txid = TxIn(txs, r) /\ o.vout = w
        BY <3>3, <3>4, OutputThere
      <3>6. \A p \in found : p.address = shown(v)
        <4> SUFFICES ASSUME NEW p \in d.outputs, <<p.txid, p.vout>> = x.prev PROVE p.address = shown(v)
          OBVIOUS
        <4>1. p.txid = Vin[t][v].prev[1] /\ p.vout = Vin[t][v].prev[2]
          BY <1>6
        <4>2. p.address = Vout[p.txid][p.vout]
          BY OutputRows
        <4> QED
          BY <2>3, <4>1, <4>2
      <3>7. o \in found
        BY <1>6, <3>3, <3>5
      <3> HIDE DEF found, shown
      <3>8. addresses = {shown(v)}
        BY <3>6, <3>7
      <3> QED
        BY <2>1, <3>8 DEF TheRow
    <2> QED
      BY <2>2, <2>3
  <1>7. TxInputs(d, t) = { [vin |-> x.vin, prevout |-> Prevout(d, x)] : x \in rows }
    BY DEF TxInputs
  <1>8. \A x \in rows : Prevout(d, x) = shown(x.vin)
    BY <1>4, <1>6
  <1>9. TxInputs(d, t) = { [vin |-> x.vin, prevout |-> shown(x.vin)] : x \in rows }
    <2> HIDE DEF rows, shown
    <2> QED
      BY <1>7, <1>8
  <1> HIDE DEF rows, shown
  <1>10. TxInputs(d, t) = { [vin |-> v, prevout |-> shown(v)] : v \in DOMAIN Vin[t] }
    BY <1>4, <1>5, <1>9
  <1> QED
    BY <1>10 DEF shown

\* A transaction reply: the version of its first statement has the transaction, hence so
\* have the later ones, and each part is that of the transaction.
LEMMA TransactionReply ==
    ASSUME ReaderInv
    PROVE  TransactionReplyWhole
  <1> SUFFICES ASSUME Replied("tx"), Grown PROVE TransactionReplyWhole
    BY DEF TransactionReplyWhole
  <1> DEFINE H == Handler(req)
             t == req.id
             a == seen[got["txrow"].at]
             b == seen[got["issuances"].at]
             c == seen[got["inputs"].at]
             d == seen[got["outputs"].at]
  <1>1. Done /\ ~Failed(got) /\ req.op = "tx"
    BY DEF Replied
  <1>2. H = <<"txrow", "issuances", "inputs", "outputs">>
    BY <1>1 DEF Handler, HandleTransaction
  <1>3. /\ Len(seen) \in Nat /\ DOMAIN got = { H[i] : i \in 1..Len(H) }
        /\ \A i, j \in 1..Len(H) : i <= j => got[H[i]].at <= got[H[j]].at
        /\ \A q \in DOMAIN got : got[q].at \in 1..Len(seen)
    BY <1>1, ReplyRead
  <1> HIDE DEF H
  <1>4. /\ {"txrow", "issuances", "inputs", "outputs"} \subseteq DOMAIN got
        /\ got["txrow"].at <= got["issuances"].at /\ got["txrow"].at <= got["inputs"].at
        /\ got["txrow"].at <= got["outputs"].at
    BY <1>2, <1>3
  <1>5. /\ Version(a) /\ got["txrow"].val = TheRow({ x \in a.transactions : x.txid = t })
        /\ got["txrow"].val # NotFound
    BY <1>1, <1>4, Statements
  <1>6. /\ Version(b) /\ got["issuances"].val = IssuancesForTx(b, t)
        /\ Version(c) /\ got["inputs"].val = TxInputs(c, t)
        /\ Version(d) /\ got["outputs"].val = { o \in d.outputs : o.txid = t }
    BY <1>1, <1>4, Statements
  <1>7. a.blocks \subseteq b.blocks /\ a.blocks \subseteq c.blocks /\ a.blocks \subseteq d.blocks
    <2>1. \A i \in 1..Len(seen) : \A j \in i..Len(seen) : seen[i].blocks \subseteq seen[j].blocks
      BY <1>3, GrownBlocks DEF Grown
    <2>2. /\ got["txrow"].at \in 1..Len(seen)
          /\ got["issuances"].at \in got["txrow"].at..Len(seen)
          /\ got["inputs"].at \in got["txrow"].at..Len(seen)
          /\ got["outputs"].at \in got["txrow"].at..Len(seen)
      <3>1. \A q \in {"txrow", "issuances", "inputs", "outputs"} :
              got[q].at \in 1..Len(seen) /\ got["txrow"].at <= got[q].at
        BY <1>3, <1>4
      <3> QED
        BY <1>3, <3>1
    <2>3. \A j \in got["txrow"].at..Len(seen) : a.blocks \subseteq seen[j].blocks
      BY <2>1, <2>2
    <2> QED
      BY <2>2, <2>3
  <1> HIDE DEF a, b, c, d
  <1>8. t \in OnBranch(a)
    <2>1. PICK x \in a.transactions : x.txid = t
      BY <1>5, RowThere
    <2>2. PICK q \in PlacesIn(txs, HashesIn(a)) :
            x = [txid |-> TxIn(txs, q), block |-> q[1], height |-> HeightAt(q), position |-> q[2]]
      BY <1>5, RowsOfTransactions
    <2> QED
      BY <2>1, <2>2, OnBranchAre
  <1>9. t \in OnBranch(b) /\ t \in OnBranch(c) /\ t \in OnBranch(d)
    <2>1. \A e : Version(e) /\ a.blocks \subseteq e.blocks => t \in OnBranch(e)
      BY <1>5, <1>8, GrownVersion, OnBranchAre
    <2> QED
      BY <1>6, <1>7, <2>1
  <1>10. got["issuances"].val = IssuingInputs(t)
    BY <1>6, <1>9, IssuancesOfTransaction
  <1>11. got["inputs"].val =
           { [vin |-> v, prevout |-> IF Vin[t][v].prev = Null THEN NotFound
                                     ELSE Vout[Vin[t][v].prev[1]][Vin[t][v].prev[2]]]
             : v \in DOMAIN Vin[t] }
    <2>1. got["inputs"].val = TxInputs(c, t)
      BY <1>6
    <2>2. Version(c) /\ t \in OnBranch(c)
      BY <1>6, <1>9
    <2> QED
      BY <2>1, <2>2, InputsOfTransaction
  <1>12. ASSUME NEW o \in got["outputs"].val
         PROVE  IF o.spent = Null THEN Spenders(d, t, o.vout) = {}
                ELSE Spenders(d, t, o.vout) = {[txid |-> o.spent.txid, vin |-> o.spent.vin]}
    <2>1. o \in d.outputs /\ o.txid = t
      BY <1>6
    <2>2. /\ o.spent = SpentBy(txs, PlacesIn(txs, HashesIn(d)), t, o.vout)
          /\ t \in Tx /\ o.vout \in DOMAIN Vout[t]
      BY <1>6, <2>1, OutputRows
    <2>3. <<t, o.vout>> # Null
      BY <2>2, TransactionsAssumption
    <2> QED
      BY <1>6, <2>2, <2>3, SpendersAre
  <1> QED
    BY <1>9, <1>10, <1>11, <1>12 DEF TransactionReplyWhole, Reply, d

\* A reply about a transaction, put together by four statements, says what the branch
\* says: spent outputs resolved, issuances found, outputs marked by their spenders.
THEOREM TransactionReplyCorrect == ApiSpec => []TransactionReplyWhole
  <1>1. ReaderInv => TransactionReplyWhole
    BY TransactionReply
  <1> QED
    BY <1>1, RepliesRead, PTL

-------------------------------------------------------------------------------
(* A search *)

\* The lookups of a search, spelt out.
LEMMA LookupCases ==
    ASSUME NEW d, NEW r
    PROVE  /\ Lookup(d, "block", r) = { b.hash : b \in { x \in d.blocks : x.hash = r.id } }
           /\ Lookup(d, "transaction", r) = { t.txid : t \in { x \in d.transactions : x.txid = r.id } }
           /\ Lookup(d, "mempool", r) = d.mempool \cap {r.id}
           /\ Lookup(d, "asset", r) = { a.asset : a \in { x \in d.assets : x.asset = r.id } }
           /\ Lookup(d, "token", r) = { a.asset : a \in { x \in d.assets : x.tokenId = r.id } }
           /\ Lookup(d, "byaddress", r) = { o.address : o \in OutputsTo(d, Lower[r.id]) }
  BY DEF Lookup

\* The issuances of a branch: those of its transactions.
Issued(d) == UNION { { Vin[t][v].issuance : v \in IssuingInputs(t) } : t \in OnBranch(d) }

\* An issuance of the branch is one of the rows the invariant speaks of.
LEMMA IssuedAt ==
    ASSUME NEW d, Version(d), NEW i \in Issued(d)
    PROVE  \E k \in IssuingIn(txs, PlacesIn(txs, HashesIn(d))) : IssuanceIn(txs, k) = i
  <1> DEFINE P == PlacesIn(txs, HashesIn(d))
  <1>1. PICK t \in OnBranch(d) : \E v \in IssuingInputs(t) : i = Vin[t][v].issuance
    BY DEF Issued
  <1>2. PICK v \in IssuingInputs(t) : i = Vin[t][v].issuance
    BY <1>1
  <1>3. PICK q \in P : TxIn(txs, q) = t
    BY PlaceOf
  <1>4. <<q, v>> \in IssuingIn(txs, P)
    BY <1>2, <1>3, IssuingAre
  <1>5. IssuanceIn(txs, <<q, v>>) = i
    BY <1>2, <1>3 DEF IssuanceIn
  <1> QED
    BY <1>4, <1>5

\* Every asset of the branch has its row, under its own identifier and its token's.
LEMMA AssetThere ==
    ASSUME NEW d, Version(d), NEW i \in Issued(d)
    PROVE  /\ \E a \in d.assets : a.asset = i.asset
           /\ ~i.reissuance => \E a \in d.assets : a.asset = i.asset /\ a.tokenId = i.tokenId
  <1> DEFINE B == HashesIn(d)
             P == PlacesIn(txs, B)
  <1>1. txs \in Contents /\ B \in SUBSET Block /\ IsBranch(B) /\ d.assets = AssetRowsOf(txs, P)
    BY VersionFacts
  <1>2. PICK k \in IssuingIn(txs, P) : IssuanceIn(txs, k) = i
    BY IssuedAt
  <1>3. \A o \in OriginsIn(txs, P) : FullRow(P, o) \in d.assets
    BY <1>1, AssetRowsAre
  <1>4. \A o : /\ FullRow(P, o).asset = IssuanceIn(txs, o).asset
               /\ FullRow(P, o).tokenId = IssuanceIn(txs, o).tokenId
    <2> HIDE DEF P
    <2> QED
      BY DEF FullRow, Refreshed, OriginRow, AssetRow, IssuanceIn
  <1>5. PICK o \in OriginsIn(txs, P) : SameAsset(txs, k, o)
    BY <1>1, OriginRules
  <1>6. IssuanceIn(txs, o).asset = i.asset
    BY <1>2, <1>5 DEF SameAsset
  <1>7. ~i.reissuance => k \in OriginsIn(txs, P)
    BY <1>2 DEF OriginsIn
  <1> HIDE DEF P
  <1> QED
    BY <1>2, <1>3, <1>4, <1>6, <1>7

\* The kinds of identifiers, spelt out.
LEMMA KnownCases ==
    ASSUME NEW d
    PROVE  /\ Known(d, "block") = { b.hash : b \in d.blocks }
           /\ Known(d, "transaction") = OnBranch(d)
           /\ Known(d, "mempool") = d.mempool
           /\ Known(d, "asset") = { i.asset : i \in Issued(d) }
           /\ Known(d, "token") = { i.tokenId : i \in { j \in Issued(d) : ~j.reissuance } }
           /\ Known(d, "address") = { o.address : o \in d.outputs }
           /\ Known(d, "confirmed or pending") = OnBranch(d) \cup d.mempool
  BY DEF Known, Issued

\* What the branch has under an identifier, the tables have.
LEMMA TransactionFound ==
    ASSUME NEW d, Version(d), NEW r, r.id \in OnBranch(d)
    PROVE  r.id \in Lookup(d, "transaction", r)
  <1>1. PICK q \in PlacesIn(txs, HashesIn(d)) : TxIn(txs, q) = r.id
    BY OnBranchAre
  <1>2. [txid |-> TxIn(txs, q), block |-> q[1], height |-> HeightAt(q), position |-> q[2]] \in d.transactions
    BY RowsOfTransactions
  <1>3. \E x \in d.transactions : x.txid = r.id
    BY <1>1, <1>2
  <1>4. Lookup(d, "transaction", r) = { t.txid : t \in { x \in d.transactions : x.txid = r.id } }
    BY LookupCases
  <1> QED
    BY <1>3, <1>4

\* What is of some kind in a version is found by the lookup of that kind.
LEMMA KindFound ==
    ASSUME NEW d, Version(d), NEW r,
           NEW kind \in {"block", "transaction", "mempool", "asset", "token"}, r.id \in Known(d, kind)
    PROVE  Lookup(d, kind, r) # {}
  <1>1. CASE kind = "block"
    <2>1. \E b \in d.blocks : b.hash = r.id
      <3>1. Known(d, "block") = { b.hash : b \in d.blocks }
        BY KnownCases
      <3> QED
        BY <1>1, <3>1
    <2>2. Lookup(d, kind, r) = { b.hash : b \in { x \in d.blocks : x.hash = r.id } }
      BY <1>1, LookupCases
    <2> QED
      BY <2>1, <2>2
  <1>2. CASE kind = "transaction"
    <2>1. r.id \in OnBranch(d)
      BY <1>2, KnownCases
    <2> QED
      BY <1>2, <2>1, TransactionFound
  <1>3. CASE kind = "mempool"
    <2>1. r.id \in d.mempool
      BY <1>3, KnownCases
    <2>2. Lookup(d, kind, r) = d.mempool \cap {r.id}
      BY <1>3, LookupCases
    <2> QED
      BY <2>1, <2>2
  <1>4. CASE kind = "asset"
    <2>1. PICK i \in Issued(d) : r.id = i.asset
      <3>1. Known(d, "asset") = { i.asset : i \in Issued(d) }
        BY KnownCases
      <3> QED
        BY <1>4, <3>1
    <2>2. \E a \in d.assets : a.asset = r.id
      BY <2>1, AssetThere
    <2>3. Lookup(d, kind, r) = { a.asset : a \in { x \in d.assets : x.asset = r.id } }
      BY <1>4, LookupCases
    <2> QED
      BY <2>2, <2>3
  <1>5. CASE kind = "token"
    <2>1. PICK i \in Issued(d) : ~i.reissuance /\ r.id = i.tokenId
      <3>1. Known(d, "token") = { i.tokenId : i \in { j \in Issued(d) : ~j.reissuance } }
        BY KnownCases
      <3> QED
        BY <1>5, <3>1
    <2>2. \E a \in d.assets : a.tokenId = r.id
      BY <2>1, AssetThere
    <2>3. Lookup(d, kind, r) = { a.asset : a \in { x \in d.assets : x.tokenId = r.id } }
      BY <1>5, LookupCases
    <2> QED
      BY <2>2, <2>3
  <1> QED
    BY <1>1, <1>2, <1>3, <1>4, <1>5

\* A search reply: each lookup finds what was there throughout.
LEMMA SearchReply ==
    ASSUME ReaderInv
    PROVE  SearchComplete
  <1> SUFFICES ASSUME Replied("search") PROVE SearchComplete
    BY DEF SearchComplete
  <1> DEFINE H == Handler(req)
             through(kind) == \A i \in DOMAIN seen : req.id \in Known(seen[i], kind)
             Of(q) == seen[got[q].at]
  <1>1. Done /\ ~Failed(got) /\ req.op = "search"
    BY DEF Replied
  <1>2. /\ DOMAIN seen = 1..Len(seen) /\ DOMAIN got = { H[i] : i \in 1..Len(H) }
        /\ \A q \in DOMAIN got : got[q].at \in 1..Len(seen)
    BY <1>1, ReplyRead
  <1>3. /\ req.form = "hex" => H = <<"block", "transaction", "mempool", "asset", "token">>
        /\ req.form = "text" => H = <<"byaddress">>
    BY <1>1 DEF Handler, HandleSearch, HexLookups
  <1> HIDE DEF H
  <1>4. \A q \in DOMAIN got : q \in Lookups => Version(Of(q)) /\ got[q].val = Lookup(Of(q), q, req)
    BY <1>1, Statements
  <1>5. \A q \in DOMAIN got : \A kind : through(kind) => req.id \in Known(Of(q), kind)
    BY <1>2
  <1> HIDE DEF Of, through
  <1>6. ASSUME req.form = "hex", NEW kind \in {"block", "transaction", "mempool", "asset", "token"}
        PROVE  kind \in DOMAIN got /\ kind \in Lookups
    <2>1. H = <<"block", "transaction", "mempool", "asset", "token">>
      BY <1>3, <1>6
    <2> QED
      BY <1>2, <2>1 DEF Lookups
  <1>7. ASSUME req.form = "hex", NEW kind \in {"block", "transaction", "mempool", "asset", "token"},
               through(kind)
        PROVE  \E q \in DOMAIN got : q = kind /\ got[q].val # {}
    <2>1. kind \in DOMAIN got /\ kind \in Lookups
      BY <1>6, <1>7
    <2>2. req.id \in Known(Of(kind), kind)
      BY <1>5, <1>7, <2>1
    <2>3. Version(Of(kind)) /\ got[kind].val = Lookup(Of(kind), kind, req)
      BY <1>4, <2>1
    <2>4. Lookup(Of(kind), kind, req) # {}
      BY <2>2, <2>3, KindFound
    <2> QED
      BY <2>1, <2>3, <2>4
  <1>8. ASSUME req.form = "hex", through("confirmed or pending")
        PROVE  \/ \E q \in DOMAIN got : req.id \in got[q].val
               \/ \E p, q \in DOMAIN got : /\ p = "transaction" /\ req.id \in Of(p).mempool
                                          /\ q = "mempool" /\ req.id \in OnBranch(Of(q))
    <2> DEFINE first == Of("transaction")
               later == Of("mempool")
    <2>1. /\ "transaction" \in DOMAIN got /\ "transaction" \in Lookups
          /\ "mempool" \in DOMAIN got /\ "mempool" \in Lookups
      BY <1>6, <1>8
    <2>2. /\ req.id \in OnBranch(first) \/ req.id \in first.mempool
          /\ req.id \in OnBranch(later) \/ req.id \in later.mempool
      BY <1>5, <1>8, <2>1, KnownCases
    <2>3. /\ Version(first) /\ got["transaction"].val = Lookup(first, "transaction", req)
          /\ got["mempool"].val = Lookup(later, "mempool", req)
      BY <1>4, <2>1
    <2>4. CASE req.id \in OnBranch(first)
      BY <2>1, <2>3, <2>4, TransactionFound
    <2>5. CASE req.id \in later.mempool
      BY <2>1, <2>3, <2>5, LookupCases
    <2>6. CASE req.id \in first.mempool /\ req.id \in OnBranch(later)
      BY <2>1, <2>6
    <2> QED
      BY <2>2, <2>4, <2>5, <2>6
  <1>9. ASSUME req.form = "text", Lower[req.id] = req.id, through("address")
        PROVE  got["byaddress"].val = {req.id}
    <2>1. "byaddress" \in DOMAIN got /\ "byaddress" \in Lookups
      <3>1. H = <<"byaddress">>
        BY <1>3, <1>9
      <3> QED
        BY <1>2, <3>1 DEF Lookups
    <2> DEFINE d == Of("byaddress")
    <2>2. got["byaddress"].val = { o.address : o \in OutputsTo(d, Lower[req.id]) }
      BY <1>4, <2>1, LookupCases
    <2>3. req.id \in { o.address : o \in d.outputs }
      BY <1>5, <1>9, <2>1, KnownCases
    <2> HIDE DEF d
    <2> QED
      BY <1>9, <2>2, <2>3 DEF OutputsTo
  <1> QED
    BY <1>1, <1>7, <1>8, <1>9 DEF SearchComplete, Reply, through, Of

\* A search finds an identifier as every kind it is of throughout, and a transaction on
\* its way from the mempool to a block unless it gets there between the two lookups.
THEOREM SearchReplyCorrect == ApiSpec => []SearchComplete
  <1>1. ReaderInv => SearchComplete
    BY SearchReply
  <1> QED
    BY <1>1, RepliesRead, PTL

-------------------------------------------------------------------------------
(* An asset *)

\* A blinded issuance that is indexed already withholds the supply.
LEMMA BlindedWithheld ==
    ASSUME NEW d, Version(d), NEW a \in d.assets, NEW i \in d.issuances, i.asset = a.asset, i.amount = Null
    PROVE  ~SupplyPublic(a)
  <1> DEFINE P == PlacesIn(txs, HashesIn(d))
  <1>1. d.assets = AssetRowsOf(txs, P) /\ d.issuances = IssuanceRowsOf(txs, P)
    BY VersionFacts
  <1>2. PICK o \in OriginsIn(txs, P) : a = FullRow(P, o)
    BY <1>1, AssetRowsAre
  <1> DEFINE rows == IssuancesAt(P, IssuanceIn(txs, o).asset)
             amount == [r \in rows |-> r.amount]
  <1>3. a.asset = IssuanceIn(txs, o).asset /\ a.issued = SumOrNull(amount)
    <2> HIDE DEF P, rows
    <2> QED
      BY <1>2 DEF FullRow, Refreshed, OriginRow, AssetRow, IssuanceIn, rows
  <1>4. i \in rows
    BY <1>1, <1>3 DEF IssuancesAt
  <1> HIDE DEF rows
  <1>5. i \in DOMAIN amount /\ amount[i] = Null
    BY <1>4
  <1> HIDE DEF amount
  <1>6. SumOrNull(amount) = Null
    BY <1>5 DEF SumOrNull
  <1> QED
    BY <1>3, <1>6 DEF SupplyPublic

\* An asset reply: an issuance as old as the record was counted in it.
LEMMA AssetReply ==
    ASSUME ReaderInv
    PROVE  SupplyNotContradicted
  <1> DEFINE H == Handler(req)
             d == seen[got["record"].at]
             e == seen[got["page"].at]
             record == got["record"].val
             page == got["page"].val
  <1> SUFFICES ASSUME Replied("asset"), GrownSince(got["record"].at),
                      NEW i \in page, i.amount = Null, i.height <= d.cursor.height
               PROVE  ~record.public
    BY DEF SupplyNotContradicted, Reply
  <1>1. Done /\ ~Failed(got) /\ req.op = "asset"
    BY DEF Replied
  <1>2. H = <<"record", "assetoutputs", "params", "count", "page">>
    BY <1>1 DEF Handler, HandleAsset
  <1>3. /\ Len(seen) \in Nat /\ DOMAIN got = { H[n] : n \in 1..Len(H) }
        /\ \A m, n \in 1..Len(H) : m <= n => got[H[m]].at <= got[H[n]].at
        /\ \A q \in DOMAIN got : got[q].at \in 1..Len(seen)
    BY <1>1, ReplyRead
  <1> HIDE DEF H
  <1>4. {"record", "page"} \subseteq DOMAIN got /\ got["record"].at <= got["page"].at
    BY <1>2, <1>3
  <1>5. /\ Version(d) /\ record = AssetRecord(d, req.id) /\ record # NotFound
        /\ Version(e) /\ page = Page(req, Params(req, got), Listing(req, got, e))
    BY <1>1, <1>4, Statements
  <1>6. i \in e.issuances /\ i.asset = req.id
    <2>1. Listing(req, got, e) = AssetIssuances(e, req.id)
      BY <1>1 DEF Listing
    <2>2. i \in AssetIssuances(e, req.id)
      BY <1>5, <2>1, PageRows
    <2> QED
      BY <2>2 DEF AssetIssuances
  <1>7. d.blocks \subseteq e.blocks
    <2> DEFINE k == got["record"].at
               j == got["page"].at
    <2>1. k \in Nat /\ k \in k..Len(seen) /\ j \in k..Len(seen)
      BY <1>3, <1>4
    <2>2. d = seen[k] /\ e = seen[j] /\ GrownSince(k)
      OBVIOUS
    <2> HIDE DEF k, j, d, e
    <2>3. seen[k].blocks \subseteq seen[j].blocks
      BY <1>3, <2>1, <2>2, GrownBlocks
    <2> QED
      BY <2>2, <2>3
  <1> HIDE DEF d, e
  <1>8. i \in d.issuances
    <2> DEFINE P == PlacesIn(txs, HashesIn(d))
               Q == PlacesIn(txs, HashesIn(e))
    <2>1. d.issuances = IssuanceRowsOf(txs, P) /\ e.issuances = IssuanceRowsOf(txs, Q)
      BY <1>5, VersionFacts
    <2>2. PICK k \in IssuingIn(txs, Q) : i = RowOf(k)
      BY <1>6, <2>1, IssuanceRowsAre
    <2>3. PICK q \in Q : \E v \in IssuingInputs(TxIn(txs, q)) : k = <<q, v>>
      BY <2>2, IssuingAre
    <2>4. k[1] = q /\ HeightAt(q) <= d.cursor.height
      <3>1. k[1] = q
        BY <2>3
      <3>2. i.height = HeightAt(k[1])
        BY <2>2, RowOfFields
      <3> QED
        BY <3>1, <3>2
    <2>5. q \in P
      BY <1>5, <1>7, <2>4, GrownVersion
    <2>6. k \in IssuingIn(txs, P)
      BY <2>3, <2>5, IssuingAre
    <2> QED
      BY <2>1, <2>2, <2>6, IssuanceRowsAre
  <1>9. PICK a \in d.assets : a.asset = req.id /\ record.public = SupplyPublic(a)
    <2> DEFINE rows == { [public |-> SupplyPublic(a), issuances |-> a.issuances]
                         : a \in { x \in d.assets : x.asset = req.id } }
    <2>1. record = TheRow(rows)
      BY <1>5 DEF AssetRecord
    <2>2. record \in rows
      BY <1>5, <2>1, RowThere
    <2> QED
      BY <2>2
  <1>10. ~SupplyPublic(a)
    BY <1>5, <1>6, <1>8, <1>9, BlindedWithheld
  <1> QED
    BY <1>9, <1>10

\* "An asset whose issuance amount is blinded is never reported with a public supply":
\* not beside a blinded issuance that was indexed when the record was read.
THEOREM SupplyReplyCorrect == ApiSpec => []SupplyNotContradicted
  <1>1. ReaderInv => SupplyNotContradicted
    BY AssetReply
  <1> QED
    BY <1>1, RepliesRead, PTL

-------------------------------------------------------------------------------
(* The overview *)

\* Max of a finite set of integers.
LEMMA MaxIs ==
    ASSUME NEW S \in SUBSET Int, IsFiniteSet(S), S # {}
    PROVE  Max(S) \in S /\ \A x \in S : x <= Max(S)
  <1> DEFINE R == { p \in Int \X Int : p[1] <= p[2] }
  <1>1. /\ \A x, y \in S : <<x, y>> \in R \/ <<y, x>> \in R
        /\ \A x, y, z \in S : <<x, y>> \in R /\ <<y, z>> \in R => <<x, z>> \in R
    OBVIOUS
  <1>2. \E m \in S : \A x \in S : <<x, m>> \in R
    <2> HIDE DEF R
    <2> QED
      BY <1>1, GreatestElement
  <1>3. \E m \in S : \A x \in S : m >= x
    BY <1>2
  <1>4. Max(S) \in S /\ \A x \in S : Max(S) >= x
    BY <1>3 DEF Max
  <1> QED
    BY <1>4

\* The heights of rows, and that of no row.
Heights(rows) == {-1} \cup { b.height : b \in rows }

\* The greatest height of some rows, -1 if there are none.
LEMMA HighestOf ==
    ASSUME NEW rows, IsFiniteSet(rows), \A b \in rows : b.height \in Int
    PROVE  LET m == Max(Heights(rows)) IN
           m \in Int /\ m >= -1 /\ (\A b \in rows : b.height <= m) /\ (m = -1 \/ \E b \in rows : b.height = m)
  <1> DEFINE m == [b \in rows |-> b.height]
  <1>1. IsFiniteSet({ m[b] : b \in rows })
    <2> HIDE DEF m
    <2> QED
      BY ImageFinite
  <1>2. { m[b] : b \in rows } = { b.height : b \in rows }
    OBVIOUS
  <1>3. IsFiniteSet(Heights(rows)) /\ Heights(rows) \in SUBSET Int /\ -1 \in Heights(rows)
    <2>1. IsFiniteSet({-1}) /\ IsFiniteSet({ b.height : b \in rows })
      BY <1>1, <1>2, FS_Singleton
    <2>2. IsFiniteSet(Heights(rows))
      BY <2>1, FS_Union DEF Heights
    <2> QED
      BY <2>2 DEF Heights
  <1>4. Max(Heights(rows)) \in Heights(rows) /\ \A x \in Heights(rows) : x <= Max(Heights(rows))
    BY <1>3, MaxIs
  <1> QED
    BY <1>3, <1>4 DEF Heights

\* There are as many blocks as heights up to the cursor.
LEMMA BlocksCounted ==
    ASSUME NEW d, Version(d)
    PROVE  IsFiniteSet(d.blocks) /\ IndexedBlocks(d) = d.cursor.height + 1
  <1> DEFINE B == HashesIn(d)
             m == [b \in B |-> [height |-> Height[b], hash |-> b, fees |-> FeesIn(txs, b)]]
             p == d.cursor.hash
  <1>1. d.blocks = { m[b] : b \in B }
    BY DEF Version, Held
  <1>2. BranchTo(B, p) /\ IsFiniteSet(B)
        /\ d.cursor = IF p = NoBlock THEN NoCursor ELSE [height |-> Height[p], hash |-> p]
    BY VersionFacts
  <1>3. \A a, b \in B : m[a] = m[b] => a = b
    <2>1. \A b \in B : m[b].hash = b
      OBVIOUS
    <2> HIDE DEF m
    <2> QED
      BY <2>1
  <1> HIDE DEF m, B
  <1>4. IsFiniteSet(d.blocks) /\ Cardinality(d.blocks) = Cardinality(B)
    BY <1>1, <1>2, <1>3, ImageFinite, ImageSize
  <1>5. Cardinality(B) = d.cursor.height + 1
    <2>1. CASE p = NoBlock
      BY <1>2, <2>1, FS_EmptySet DEF BranchTo, NoCursor
    <2>2. CASE p # NoBlock
      BY <1>2, <2>2 DEF BranchTo
    <2> QED
      BY <2>1, <2>2
  <1> QED
    BY <1>4, <1>5 DEF IndexedBlocks

\* The block at the cursor.
LEMMA TopBlock ==
    ASSUME NEW d, Version(d), d.cursor.height # -1
    PROVE  \E x \in d.blocks : x.height = d.cursor.height /\ x.hash = d.cursor.hash
  <1>1. BranchTo(HashesIn(d), d.cursor.hash)
        /\ d.cursor = IF d.cursor.hash = NoBlock THEN NoCursor
                      ELSE [height |-> Height[d.cursor.hash], hash |-> d.cursor.hash]
    BY VersionFacts
  <1>2. d.cursor.hash \in HashesIn(d) /\ d.cursor.height = Height[d.cursor.hash]
    BY <1>1 DEF BranchTo, NoCursor
  <1> QED
    BY <1>2, BlocksOf

\* The rows of transactions can be counted, and are not above the cursor.
LEMMA TransactionsFinite ==
    ASSUME NEW d, Version(d)
    PROVE  /\ IsFiniteSet(d.transactions)
           /\ \A t \in d.transactions : t.height \in Nat /\ t.height <= d.cursor.height /\ t.position \in Nat
  <1> DEFINE P == PlacesIn(txs, HashesIn(d))
             m == [q \in P |-> [txid |-> TxIn(txs, q), block |-> q[1], height |-> HeightAt(q), position |-> q[2]]]
  <1>1. txs \in Contents /\ HashesIn(d) \in SUBSET Block /\ IsFiniteSet(HashesIn(d))
        /\ d.transactions = TransactionsOf(txs, P)
    BY VersionFacts
  <1>2. d.transactions = { m[q] : q \in P }
    BY <1>1 DEF TransactionsOf
  <1>3. IsFiniteSet(P)
    BY <1>1, PlacesFinite
  <1>4. ASSUME NEW q \in P
        PROVE  /\ m[q].height \in Nat /\ m[q].height <= d.cursor.height /\ m[q].position \in Nat
    <2>1. q[1] \in HashesIn(d) /\ q[2] \in Nat /\ HeightAt(q) \in Nat
      BY <1>1, PlaceFacts
    <2>2. HeightAt(q) <= d.cursor.height
      BY <2>1, BlocksOf DEF HeightAt
    <2> QED
      BY <2>1, <2>2
  <1> HIDE DEF m, P
  <1> QED
    BY <1>2, <1>3, <1>4, ImageFinite

\* The first of the recent transactions is of the block at the cursor.
LEMMA NewestTransaction ==
    ASSUME NEW d, Version(d), d.cursor.height # -1, NEW limit \in Nat \ {0}
    PROVE  \E t \in RecentTransactions(d, limit) : t.height = d.cursor.height
  <1> DEFINE key == [t \in d.transactions |-> <<-t.height, -t.position>>]
             p == d.cursor.hash
             n == Len(txs[p])
             r == [txid |-> TxIn(txs, <<p, n>>), block |-> p, height |-> Height[p], position |-> n]
  <1>1. txs \in Contents /\ HashesIn(d) \in SUBSET Block /\ IsBranch(HashesIn(d))
    BY VersionFacts
  <1>2. p \in HashesIn(d) /\ p \in Block /\ d.cursor.height = Height[p]
    BY <1>1, TopBlock, BlocksOf
  <1>3. n \in Nat \ {0} /\ DOMAIN txs[p] = 1..n
    BY <1>1, <1>2, ContentsAssumption, RowsAssumption
  <1>4. <<p, n>> \in PlacesIn(txs, HashesIn(d)) /\ HeightAt(<<p, n>>) = Height[p]
    BY <1>2, <1>3, PlaceIn DEF HeightAt
  <1>5. r \in d.transactions
    BY <1>4, RowsOfTransactions
  <1>6. r.height = d.cursor.height /\ r.position = n /\ r.block = p
    BY <1>2
  <1>7. ASSUME NEW s \in d.transactions PROVE ~Precedes(key[s], key[r])
    <2>1. s.height \in Nat /\ s.height <= r.height /\ s.position \in Nat
      BY <1>6, TransactionsFinite
    <2>2. s.height = r.height => s.position <= r.position
      <3> SUFFICES ASSUME s.height = Height[p] PROVE s.position <= n
        BY <1>2, <1>6
      <3>1. PICK q \in PlacesIn(txs, HashesIn(d)) :
              s = [txid |-> TxIn(txs, q), block |-> q[1], height |-> HeightAt(q), position |-> q[2]]
        BY RowsOfTransactions
      <3>2. q[1] \in HashesIn(d) /\ q[2] \in DOMAIN txs[q[1]] /\ Height[q[1]] = Height[p]
        BY <1>1, <3>1, PlaceFacts DEF HeightAt
      <3>3. q[1] = p
        BY <1>1, <1>2, <3>2 DEF IsBranch
      <3> QED
        BY <1>3, <3>1, <3>2, <3>3
    <2>3. key[s] = <<-s.height, -s.position>> /\ key[r] = <<-r.height, -r.position>>
      BY <1>5
    <2>4. r.height \in Nat /\ r.position \in Nat
      BY <1>5, TransactionsFinite
    <2> HIDE DEF key, r
    <2> QED
      BY <2>1, <2>2, <2>3, <2>4 DEF Precedes
  <1> HIDE DEF key, r
  <1>8. { s \in d.transactions : Precedes(key[s], key[r]) } = {}
    BY <1>7
  <1>9. Cardinality({}) = 0
    BY FS_EmptySet
  <1>10. r \in Window(d.transactions, key, limit, 0)
    BY <1>5, <1>8, <1>9 DEF Window
  <1> QED
    BY <1>6, <1>10 DEF RecentTransactions, key

\* A request that is not for a page has no next one.
LEMMA OnePage ==
    ASSUME ReaderInv, req # Null, req.op # "blocks", "page" \notin { Handler(req)[i] : i \in 1..Len(Handler(req)) }
    PROVE  from = Start
  <1>1. PICK begin : Walked(begin)
    BY DEF ReaderInv
  <1>2. req \in Request /\ Len(seen) \in Nat /\ DOMAIN seen = 1..Len(seen)
    BY Serving
  <1> DEFINE n == Len(walk)
  <1>3. n \in Nat /\ begin[1] = Start /\ begin[n + 1] = from
    BY <1>1 DEF Walked
  <1>4. CASE n = 0
    BY <1>3, <1>4
  <1>5. CASE n # 0
    <2>1. 1 \in 1..n
      BY <1>3, <1>5
    <2>2. /\ Answered(txs, req, seen, begin[1], walk[1])
          /\ Cardinality(DOMAIN walk[1]) = Len(Handler(req)) /\ ~Failed(walk[1])
          /\ NextOf(req, walk[1]) # Null
      BY <1>1, <2>1 DEF Walked
    <2>3. DOMAIN walk[1] = { Handler(req)[i] : i \in 1..Len(Handler(req)) }
      BY <2>2 DEF Answered
    <2>4. "page" \notin DOMAIN walk[1]
      BY <2>3
    <2> QED
      BY <2>2, <2>4 DEF NextOf
  <1> QED
    BY <1>4, <1>5

\* Min of a set of integers.
LEMMA MinIs ==
    ASSUME NEW S \in SUBSET Int, NEW m \in S, \A x \in S : m <= x
    PROVE  Min(S) = m
  <1>1. \E y \in S : \A x \in S : y <= x
    OBVIOUS
  <1>2. Min(S) \in S /\ \A x \in S : Min(S) <= x
    BY <1>1 DEF Min
  <1>3. Min(S) <= m /\ m <= Min(S) /\ Min(S) \in Int /\ m \in Int
    BY <1>2
  <1> QED
    BY <1>3

\* The lesser of two numbers.
LEMMA LesserIs ==
    ASSUME NEW x \in Nat, NEW y \in Nat
    PROVE  Min({x, y}) = IF x <= y THEN x ELSE y
  <1>1. CASE x <= y
    BY <1>1, MinIs
  <1>2. CASE y < x
    BY <1>2, MinIs
  <1> QED
    BY <1>1, <1>2

\* The overview: each part is no older than the one before, so neither is its height.
LEMMA OverviewReply ==
    ASSUME ReaderInv, Replied("overview"), Grown
    PROVE  LET top == Max({-1} \cup { b.height : b \in Reply("blocks") })
               newest == Max({-1} \cup { t.height : t \in Reply("recent") })
           IN  /\ Reply("stats") <= Reply("total")
               /\ Reply("stats") > 1 => Min({Reply("stats"), SampleWindow}) <= Reply("sample")
               /\ Reply("sample") <= Min({Reply("total"), SampleWindow})
               /\ Reply("total") <= top + 1
               /\ top <= newest
               /\ NotFarAbove(newest)
  <1> DEFINE H == Handler(req)
             Of(q) == seen[got[q].at]
             Tip(q) == Of(q).cursor.height
             blocks == got["blocks"].val
             recent == got["recent"].val
             status == got["status"].val
             top == Max(Heights(blocks))
             newest == Max(Heights(recent))
             Q == {"stats", "sample", "total", "blocks", "recent", "status"}
  <1>1. Done /\ ~Failed(got) /\ req.op = "overview"
    BY DEF Replied
  <1>2. H = <<"stats", "sample", "total", "blocks", "recent", "status">>
    BY <1>1 DEF Handler, HandleOverview
  <1>3. /\ Len(seen) \in Nat /\ DOMAIN got = { H[n] : n \in 1..Len(H) }
        /\ \A m, n \in 1..Len(H) : m <= n => got[H[m]].at <= got[H[n]].at
        /\ \A q \in DOMAIN got : got[q].at \in 1..Len(seen)
    BY <1>1, ReplyRead
  <1>4. from = Start
    <2>1. "page" \notin { H[i] : i \in 1..Len(H) }
      BY <1>2
    <2> QED
      BY <1>1, <2>1, OnePage DEF Done
  <1> HIDE DEF H
  <1>5. /\ Q \subseteq DOMAIN got
        /\ got["stats"].at <= got["sample"].at /\ got["sample"].at <= got["total"].at
        /\ got["total"].at <= got["blocks"].at /\ got["blocks"].at <= got["recent"].at
        /\ got["recent"].at <= got["status"].at
    BY <1>2, <1>3
  <1>6. Params(req, got).limit = OverviewRows /\ OverviewRows \in Nat \ {0}
    BY <1>1, RequestsAssumption DEF Params
  <1>7. /\ \A q \in Q : Version(Of(q))
        /\ got["stats"].val = IndexedBlocks(Of("stats")) /\ got["sample"].val = SampleBlocks(Of("sample"))
        /\ got["total"].val = IndexedBlocks(Of("total"))
        /\ blocks = BlockPage(Of("blocks"), OverviewRows, Before(Start, Of("blocks")))
        /\ recent = RecentTransactions(Of("recent"), OverviewRows)
        /\ Behind(status, Of("status"))
    BY <1>1, <1>4, <1>5, <1>6, Statements
  <1>8. /\ Of("stats").blocks \subseteq Of("sample").blocks /\ Of("sample").blocks \subseteq Of("total").blocks
        /\ Of("total").blocks \subseteq Of("blocks").blocks /\ Of("blocks").blocks \subseteq Of("recent").blocks
        /\ Of("recent").blocks \subseteq Of("status").blocks
    <2>1. \A i \in 1..Len(seen) : \A j \in i..Len(seen) : seen[i].blocks \subseteq seen[j].blocks
      BY <1>3, GrownBlocks DEF Grown
    <2>2. \A q \in Q : got[q].at \in 1..Len(seen)
      BY <1>3, <1>5
    <2>3. /\ got["sample"].at \in got["stats"].at..Len(seen) /\ got["total"].at \in got["sample"].at..Len(seen)
          /\ got["blocks"].at \in got["total"].at..Len(seen) /\ got["recent"].at \in got["blocks"].at..Len(seen)
          /\ got["status"].at \in got["recent"].at..Len(seen)
      BY <1>5, <2>2
    <2>4. \A p, q \in Q : got[q].at \in got[p].at..Len(seen) => Of(p).blocks \subseteq Of(q).blocks
      BY <2>1, <2>2
    <2> HIDE DEF Of
    <2> QED
      BY <2>3, <2>4
  <1> HIDE DEF Of
  <1>9. /\ Tip("stats") <= Tip("sample") /\ Tip("sample") <= Tip("total") /\ Tip("total") <= Tip("blocks")
        /\ Tip("blocks") <= Tip("recent") /\ Tip("recent") <= Tip("status")
    BY <1>7, <1>8, GrownVersion
  <1>10. \A q \in Q : Tip(q) \in Int /\ Tip(q) >= -1
    BY <1>7, VersionHeight
  <1>11. /\ got["stats"].val = Tip("stats") + 1 /\ got["total"].val = Tip("total") + 1
         /\ IndexedBlocks(Of("sample")) = Tip("sample") + 1
    BY <1>7, BlocksCounted
  <1>12. top = Tip("blocks")
    <2> DEFINE d == Of("blocks")
    <2>1. Version(d) /\ blocks \subseteq d.blocks
      BY <1>7 DEF BlockPage
    <2>2. \A x \in d.blocks : x.height \in Nat /\ x.height <= d.cursor.height
      BY <2>1, BlocksOf
    <2>3. IsFiniteSet(d.blocks) /\ IsFiniteSet(blocks)
      BY <2>1, BlocksCounted, FS_Subset
    <2>4. /\ top \in Int /\ top >= -1 /\ (\A b \in blocks : b.height <= top)
          /\ top = -1 \/ \E b \in blocks : b.height = top
      BY <2>1, <2>2, <2>3, HighestOf
    <2>5. CASE d.cursor.height = -1
      BY <2>1, <2>2, <2>4, <2>5
    <2>6. CASE d.cursor.height # -1
      <3>1. PICK x \in d.blocks : x.height = d.cursor.height
        BY <2>1, <2>6, TopBlock
      <3>2. Before(Start, d) = Max(Heights(d.blocks))
        BY DEF Before, Start, Heights
      <3>3. Before(Start, d) = d.cursor.height
        <4>1. /\ Max(Heights(d.blocks)) \in Int /\ (\A b \in d.blocks : b.height <= Max(Heights(d.blocks)))
              /\ Max(Heights(d.blocks)) = -1 \/ \E b \in d.blocks : b.height = Max(Heights(d.blocks))
          BY <2>2, <2>3, HighestOf
        <4> QED
          BY <2>2, <3>1, <3>2, <4>1
      <3>4. { c \in d.blocks : x.height < c.height /\ c.height <= d.cursor.height } = {}
        BY <2>2, <3>1
      <3>5. x \in blocks
        <4>1. Cardinality({}) = 0
          BY FS_EmptySet
        <4>2. x.height <= d.cursor.height
          BY <2>2, <3>1
        <4>3. blocks = BlockPage(d, OverviewRows, d.cursor.height)
          BY <1>7, <3>3
        <4>4. 0 <= OverviewRows
          BY <1>6
        <4> HIDE DEF d, blocks
        <4> QED
          BY <3>4, <4>1, <4>2, <4>3, <4>4 DEF BlockPage
      <3> QED
        BY <2>1, <2>2, <2>4, <3>1, <3>5
    <2> QED
      BY <2>5, <2>6
  <1>13. newest = Tip("recent")
    <2> DEFINE d == Of("recent")
    <2>1. Version(d) /\ recent \subseteq d.transactions
      BY <1>7 DEF RecentTransactions, Window
    <2>2. IsFiniteSet(d.transactions) /\ \A t \in d.transactions : t.height \in Nat /\ t.height <= d.cursor.height
      BY <2>1, TransactionsFinite
    <2>3. IsFiniteSet(recent) /\ \A t \in recent : t.height \in Int
      BY <2>1, <2>2, FS_Subset
    <2>4. /\ newest \in Int /\ newest >= -1 /\ (\A t \in recent : t.height <= newest)
          /\ newest = -1 \/ \E t \in recent : t.height = newest
      BY <2>3, HighestOf
    <2>5. CASE d.cursor.height = -1
      BY <2>1, <2>2, <2>4, <2>5
    <2>6. CASE d.cursor.height # -1
      <3>1. PICK t \in recent : t.height = d.cursor.height
        BY <1>6, <1>7, <2>1, <2>6, NewestTransaction
      <3> HIDE DEF newest
      <3> QED
        BY <2>1, <2>2, <2>4, <3>1
    <2> QED
      BY <2>5, <2>6
  <1> HIDE DEF top, newest, Tip
  <1>14. /\ got["stats"].val <= got["total"].val /\ got["total"].val <= top + 1 /\ top <= newest
    BY <1>9, <1>10, <1>11, <1>12, <1>13
  <1>15. /\ got["stats"].val > 1 => Min({got["stats"].val, SampleWindow}) <= got["sample"].val
         /\ got["sample"].val <= Min({got["total"].val, SampleWindow})
    <2> DEFINE s == got["stats"].val
               n == IndexedBlocks(Of("sample"))
               t == got["total"].val
    <2>1. s \in Nat /\ n \in Nat /\ t \in Nat /\ s <= n /\ n <= t
      BY <1>9, <1>10, <1>11
    <2>2. got["sample"].val = IF Min({n, SampleWindow}) > 1 THEN Min({n, SampleWindow}) ELSE 0
      BY <1>7 DEF SampleBlocks
    <2> HIDE DEF s, n, t
    <2> QED
      BY <2>1, <2>2, RequestsAssumption, LesserIs DEF s, t
  <1>16. NotFarAbove(newest)
    <2>1. status \in Int /\ (status = -1 \/ Tip("status") - status <= BatchSize)
      BY <1>7 DEF Behind, Tip
    <2>2. status = -1 \/ newest - status <= BatchSize
      BY <1>9, <1>10, <1>13, <2>1, ConstantsAssumption
    <2> QED
      BY <2>2 DEF NotFarAbove, Reply
  <1> QED
    BY <1>14, <1>15, <1>16 DEF Reply, top, newest, Heights

\* The explorer status: the blocks are counted before the status is read.
LEMMA ExplorerReply ==
    ASSUME ReaderInv, Replied("explorer"), Grown
    PROVE  NotFarAbove(Reply("stats") - 1)
  <1> DEFINE H == Handler(req)
             d == seen[got["stats"].at]
             e == seen[got["status"].at]
             stats == got["stats"].val
             status == got["status"].val
  <1>1. Done /\ ~Failed(got) /\ req.op = "explorer"
    BY DEF Replied
  <1>2. H = <<"stats", "sample", "status">>
    BY <1>1 DEF Handler, HandleExplorerStatus
  <1>3. /\ Len(seen) \in Nat /\ DOMAIN got = { H[n] : n \in 1..Len(H) }
        /\ \A m, n \in 1..Len(H) : m <= n => got[H[m]].at <= got[H[n]].at
        /\ \A q \in DOMAIN got : got[q].at \in 1..Len(seen)
    BY <1>1, ReplyRead
  <1> HIDE DEF H
  <1>4. {"stats", "status"} \subseteq DOMAIN got /\ got["stats"].at <= got["status"].at
    BY <1>2, <1>3
  <1>5. /\ Version(d) /\ stats = IndexedBlocks(d)
        /\ Version(e) /\ Behind(status, e)
    BY <1>1, <1>4, Statements
  <1>6. d.blocks \subseteq e.blocks
    <2>1. got["stats"].at \in 1..Len(seen) /\ got["status"].at \in got["stats"].at..Len(seen)
      BY <1>3, <1>4
    <2> QED
      BY <1>3, <2>1, GrownBlocks DEF Grown
  <1> HIDE DEF d, e
  <1>7. d.cursor.height <= e.cursor.height /\ stats = d.cursor.height + 1
    BY <1>5, <1>6, GrownVersion, BlocksCounted
  <1>8. d.cursor.height \in Int /\ e.cursor.height \in Int
    BY <1>5, VersionHeight
  <1>9. status = -1 \/ (stats - 1) - status <= BatchSize
    <2>1. status \in Int /\ (status = -1 \/ e.cursor.height - status <= BatchSize)
      BY <1>5 DEF Behind
    <2> HIDE DEF stats, status
    <2> QED
      BY <1>7, <1>8, <2>1, ConstantsAssumption
  <1> QED
    BY <1>9 DEF Reply, NotFarAbove

\* The parts of the overview are in the order in which they were read, its averages are
\* over the chain or the window, and the indexed height it shows lags by one batch at
\* most, unless it is that of an empty index: the status is updated after each commit.
THEOREM OverviewCorrect == ApiSpec => []OverviewInOrder
  <1>1. ReaderInv => OverviewInOrder
    BY OverviewReply, ExplorerReply DEF OverviewInOrder
  <1> QED
    BY <1>1, RepliesRead, PTL

-------------------------------------------------------------------------------
(* An address *)

\* The sum of amounts is one over their function.
LEMMA SumSatsIs ==
    ASSUME NEW T, IsFiniteSet(T), NEW e, \A o \in T : e[o] = SatsOf(o)
    PROVE  SumSats(T) = SumFunctionOnSet(e, T)
  <1> DEFINE f == [o \in T |-> SatsOf(o)]
             iter[s \in SUBSET T] ==
               IF s = {} THEN 0 ELSE LET x == CHOOSE x \in s : TRUE IN SatsOf(x) + iter[s \ {x}]
             jter[s \in SUBSET T] ==
               IF s = {} THEN 0 ELSE LET x == CHOOSE x \in s : TRUE IN f[x] + jter[s \ {x}]
  <1>1. SumSats(T) = iter[T]
    BY DEF SumSats, MapThenSumSet, MapThenFoldSet
  <1>2. SumFunctionOnSet(f, T) = jter[T]
    BY DEF SumFunctionOnSet, FoldFunctionOnSet, MapThenFoldSet
  <1>3. iter = jter
    <2>1. \A s \in SUBSET T : s # {} => (CHOOSE x \in s : TRUE) \in s
      OBVIOUS
    <2>2. \A s \in SUBSET T : s # {} => f[CHOOSE x \in s : TRUE] = SatsOf(CHOOSE x \in s : TRUE)
      BY <2>1
    <2> QED
      BY <2>2, Zenon
  <1>4. \A o \in T : f[o] = e[o]
    OBVIOUS
  <1> HIDE DEF iter, jter, f
  <1>5. SumFunctionOnSet(f, T) = SumFunctionOnSet(e, T)
    BY <1>4, SumAgree
  <1> QED
    BY <1>1, <1>2, <1>3, <1>5

\* A transaction's number names one output.
LEMMA OutputKey ==
    ASSUME NEW d, Version(d), NEW o \in d.outputs, NEW p \in d.outputs, o.txid = p.txid, o.vout = p.vout
    PROVE  o = p
  <1> DEFINE P == PlacesIn(txs, HashesIn(d))
  <1>1. d.outputs = OutputsOf(txs, P) /\ txs \in Contents /\ HashesIn(d) \in SUBSET Block /\ IsBranch(HashesIn(d))
    BY VersionFacts
  <1>2. \A q, r \in P : TxIn(txs, q) = TxIn(txs, r) => q = r
    BY <1>1, BranchRules
  <1>3. ASSUME NEW x \in d.outputs PROVE \E q \in P : x.txid = TxIn(txs, q) /\ x = OutputRow(txs, P, q, x.vout)
    <2>1. PICK q \in P : \E v \in DOMAIN Vout[TxIn(txs, q)] : x = OutputRow(txs, P, q, v)
      BY <1>1, OutputsAre
    <2>2. PICK v \in DOMAIN Vout[TxIn(txs, q)] : x = OutputRow(txs, P, q, v)
      BY <2>1
    <2>3. x.txid = TxIn(txs, q) /\ x.vout = v
      BY <2>2 DEF OutputRow
    <2> QED
      BY <2>2, <2>3
  <1>4. PICK q \in P : o.txid = TxIn(txs, q) /\ o = OutputRow(txs, P, q, o.vout)
    BY <1>3
  <1>5. PICK r \in P : p.txid = TxIn(txs, r) /\ p = OutputRow(txs, P, r, p.vout)
    BY <1>3
  <1>6. q = r
    BY <1>2, <1>4, <1>5
  <1> QED
    BY <1>4, <1>5, <1>6

\* The outputs of a version can be summed up.
LEMMA VersionOutputsFinite ==
    ASSUME NEW d, Version(d)
    PROVE  IsFiniteSet(d.outputs)
  <1>1. /\ txs \in Contents /\ HashesIn(d) \in SUBSET Block /\ IsFiniteSet(HashesIn(d))
        /\ d.outputs = OutputsOf(txs, PlacesIn(txs, HashesIn(d)))
    BY VersionFacts
  <1> QED
    BY <1>1, OutputsFinite

\* What the branch paid an address, and what of it is unspent.
Payments(d, a) ==
    UNION { { [txid |-> t, vout |-> o] : o \in { p \in DOMAIN Vout[t] : Vout[t][p] = a } } : t \in OnBranch(d) }
UnspentOf(d, a, s) ==
    { o \in Payments(d, a) : AssetOf(o) = s /\ SatsOf(o) # Null /\ Spenders(d, o.txid, o.vout) = {} }

\* The rows of outputs to an address are the outputs paid to it.
LEMMA PaidAre ==
    ASSUME NEW d, Version(d), NEW a
    PROVE  /\ \A o \in OutputsTo(d, a) : [txid |-> o.txid, vout |-> o.vout] \in Payments(d, a)
           /\ \A x \in Payments(d, a) : \E o \in OutputsTo(d, a) : x = [txid |-> o.txid, vout |-> o.vout]
  <1>1. ASSUME NEW o \in OutputsTo(d, a) PROVE [txid |-> o.txid, vout |-> o.vout] \in Payments(d, a)
    <2>1. o \in d.outputs /\ o.address = a
      BY DEF OutputsTo
    <2>2. o.txid \in OnBranch(d) /\ o.vout \in DOMAIN Vout[o.txid] /\ Vout[o.txid][o.vout] = a
      BY <2>1, OutputRows
    <2> QED
      BY <2>2 DEF Payments
  <1>2. ASSUME NEW x \in Payments(d, a) PROVE \E o \in OutputsTo(d, a) : x = [txid |-> o.txid, vout |-> o.vout]
    <2>1. PICK t \in OnBranch(d) : \E v \in DOMAIN Vout[t] : Vout[t][v] = a /\ x = [txid |-> t, vout |-> v]
      BY DEF Payments
    <2>2. PICK v \in DOMAIN Vout[t] : Vout[t][v] = a /\ x = [txid |-> t, vout |-> v]
      BY <2>1
    <2>3. PICK o \in d.outputs : o.txid = t /\ o.vout = v
      BY OutputThere
    <2>4. o.address = a
      BY <2>2, <2>3, OutputRows
    <2> QED
      BY <2>2, <2>3, <2>4 DEF OutputsTo
  <1> QED
    BY <1>1, <1>2

\* An output is unspent if and only if no input of the branch spends it.
LEMMA SpentMark ==
    ASSUME NEW d, Version(d), NEW o \in d.outputs
    PROVE  o.spent = Null <=> Spenders(d, o.txid, o.vout) = {}
  <1> DEFINE mark == SpentBy(txs, PlacesIn(txs, HashesIn(d)), o.txid, o.vout)
             by == Spenders(d, o.txid, o.vout)
  <1>1. o.txid \in Tx /\ o.vout \in DOMAIN Vout[o.txid] /\ o.spent = mark
    BY OutputRows
  <1>2. <<o.txid, o.vout>> # Null
    BY <1>1, TransactionsAssumption
  <1>3. IF mark = Null THEN by = {} ELSE by = {[txid |-> mark.txid, vin |-> mark.vin]}
    BY <1>2, SpendersAre
  <1> HIDE DEF mark, by
  <1>4. o.spent = Null <=> by = {}
    BY <1>1, <1>3
  <1> QED
    BY <1>4 DEF by

\* The unspent rows are the outputs to the address that the branch does not spend.
LEMMA UnspentAre ==
    ASSUME NEW d, Version(d), NEW a, NEW s
    PROVE  UnspentOf(d, a, s) =
             { [txid |-> o.txid, vout |-> o.vout]
               : o \in { x \in OutputsTo(d, a) : AssetOf(x) = s /\ SatsOf(x) # Null /\ x.spent = Null } }
  <1> DEFINE N(o) == [txid |-> o.txid, vout |-> o.vout]
  <1>1. \A o : AssetOf(N(o)) = AssetOf(o) /\ SatsOf(N(o)) = SatsOf(o) /\ N(o).txid = o.txid /\ N(o).vout = o.vout
    BY DEF AssetOf, SatsOf
  <1>2. \A o \in OutputsTo(d, a) : o.spent = Null <=> Spenders(d, o.txid, o.vout) = {}
    BY SpentMark DEF OutputsTo
  <1>3. /\ \A o \in OutputsTo(d, a) : N(o) \in Payments(d, a)
        /\ \A x \in Payments(d, a) : \E o \in OutputsTo(d, a) : x = N(o)
    BY PaidAre
  <1> HIDE DEF N
  <1>4. \A x \in UnspentOf(d, a, s) : \E o \in OutputsTo(d, a) :
          x = N(o) /\ AssetOf(o) = s /\ SatsOf(o) # Null /\ o.spent = Null
    <2> TAKE x \in UnspentOf(d, a, s)
    <2>1. x \in Payments(d, a) /\ AssetOf(x) = s /\ SatsOf(x) # Null /\ Spenders(d, x.txid, x.vout) = {}
      BY DEF UnspentOf
    <2>2. PICK o \in OutputsTo(d, a) : x = N(o)
      BY <1>3, <2>1
    <2> QED
      BY <1>1, <1>2, <2>1, <2>2
  <1>5. \A o \in OutputsTo(d, a) : AssetOf(o) = s /\ SatsOf(o) # Null /\ o.spent = Null => N(o) \in UnspentOf(d, a, s)
    BY <1>1, <1>2, <1>3 DEF UnspentOf
  <1>6. UnspentOf(d, a, s) = { N(o) : o \in { x \in OutputsTo(d, a) : AssetOf(x) = s /\ SatsOf(x) # Null /\ x.spent = Null } }
    BY <1>4, <1>5
  <1> QED
    BY <1>6 DEF N

\* The assets shown for an address are those it was explicitly paid in.
ExplicitTo(d, a) == { o \in Payments(d, a) : AssetOf(o) # Null /\ SatsOf(o) # Null }
LEMMA AssetsShown ==
    ASSUME NEW d, Version(d), NEW a
    PROVE  { b.asset : b \in Balances(d, a) } = { AssetOf(o) : o \in ExplicitTo(d, a) }
  <1> DEFINE explicit == { o \in OutputsTo(d, a) : AssetOf(o) # Null /\ SatsOf(o) # Null }
             inAsset(t) == { o \in explicit : AssetOf(o) = t }
             spent(t) == { o \in inAsset(t) : o.spent # Null }
             row(t) == [asset |-> t, balance |-> SumSats(inAsset(t)) - SumSats(spent(t))]
             N(o) == [txid |-> o.txid, vout |-> o.vout]
  <1>1. Balances(d, a) = { row(t) : t \in { AssetOf(o) : o \in explicit } }
    BY DEF Balances
  <1>2. \A t : row(t).asset = t
    OBVIOUS
  <1>3. \A o : AssetOf(N(o)) = AssetOf(o) /\ SatsOf(N(o)) = SatsOf(o)
    BY DEF AssetOf, SatsOf
  <1>4. /\ \A o \in OutputsTo(d, a) : N(o) \in Payments(d, a)
        /\ \A x \in Payments(d, a) : \E o \in OutputsTo(d, a) : x = N(o)
    BY PaidAre
  <1> HIDE DEF N, row
  <1>5. \A o \in explicit : N(o) \in ExplicitTo(d, a) /\ AssetOf(N(o)) = AssetOf(o)
    BY <1>3, <1>4 DEF ExplicitTo
  <1>6. \A x \in ExplicitTo(d, a) : \E o \in explicit : AssetOf(x) = AssetOf(o)
    BY <1>3, <1>4 DEF ExplicitTo
  <1>7. { b.asset : b \in Balances(d, a) } = { AssetOf(o) : o \in explicit }
    <2> HIDE DEF explicit
    <2> QED
      BY <1>1, <1>2
  <1> HIDE DEF explicit
  <1>8. { AssetOf(o) : o \in explicit } = { AssetOf(o) : o \in ExplicitTo(d, a) }
    <2> DEFINE A == { AssetOf(o) : o \in explicit }
               B == { AssetOf(o) : o \in ExplicitTo(d, a) }
    <2>1. \A x \in A : x \in B
      BY <1>5
    <2>2. \A x \in B : x \in A
      BY <1>6
    <2> HIDE DEF A, B
    <2>3. A = B
      BY <2>1, <2>2
    <2> QED
      BY <2>3 DEF A, B
  <1> QED
    BY <1>7, <1>8

\* The balance in an asset is the sum of the unspent explicit outputs.
LEMMA BalancesAre ==
    ASSUME NEW d, Version(d), NEW a, NEW b \in Balances(d, a)
    PROVE  b.balance = SumSats(UnspentOf(d, a, b.asset))
  <1> DEFINE s == b.asset
             I == { o \in OutputsTo(d, a) : AssetOf(o) # Null /\ SatsOf(o) # Null /\ AssetOf(o) = s }
             S == { o \in I : o.spent # Null }
             f == [o \in d.outputs |-> SatsOf(o)]
             m == [o \in d.outputs |-> [txid |-> o.txid, vout |-> o.vout]]
             U == I \ S
             W == UnspentOf(d, a, s)
             e == [x \in W |-> SatsOf(x)]
  <1>1. b.balance = SumSats(I) - SumSats(S) /\ s # Null
    <2> DEFINE explicit == { o \in OutputsTo(d, a) : AssetOf(o) # Null /\ SatsOf(o) # Null }
               inAsset(t) == { o \in explicit : AssetOf(o) = t }
               spent(t) == { o \in inAsset(t) : o.spent # Null }
    <2>1. Balances(d, a) = { [asset |-> t, balance |-> SumSats(inAsset(t)) - SumSats(spent(t))]
                             : t \in { AssetOf(o) : o \in explicit } }
      BY DEF Balances
    <2>2. PICK o \in explicit :
            b = [asset |-> AssetOf(o), balance |-> SumSats(inAsset(AssetOf(o))) - SumSats(spent(AssetOf(o)))]
      BY <2>1
    <2>3. AssetOf(o) # Null /\ s = AssetOf(o) /\ b.balance = SumSats(inAsset(AssetOf(o))) - SumSats(spent(AssetOf(o)))
      BY <2>2
    <2>4. inAsset(s) = I /\ spent(s) = S
      OBVIOUS
    <2> HIDE DEF I, S, inAsset, spent
    <2> QED
      BY <2>3, <2>4
  <1>2. IsFiniteSet(d.outputs) /\ I \in SUBSET d.outputs /\ S \in SUBSET I
    BY VersionOutputsFinite DEF OutputsTo
  <1>3. IntOn(f, I)
    <2> SUFFICES ASSUME NEW o \in I PROVE f[o] \in Int
      BY DEF IntOn
    <2>1. o \in d.outputs /\ SatsOf(o) # Null /\ o.txid \in Tx /\ o.vout \in DOMAIN Vout[o.txid]
      BY <1>2, OutputRows
    <2> QED
      BY <2>1, RowsAssumption DEF SatsOf
  <1>4. U = { o \in OutputsTo(d, a) : AssetOf(o) = s /\ SatsOf(o) # Null /\ o.spent = Null }
    BY <1>1
  <1>5. W = { m[o] : o \in U }
    <2>1. W = { [txid |-> o.txid, vout |-> o.vout]
                : o \in { x \in OutputsTo(d, a) : AssetOf(x) = s /\ SatsOf(x) # Null /\ x.spent = Null } }
      BY UnspentAre
    <2>2. W = { [txid |-> o.txid, vout |-> o.vout] : o \in U }
      BY <1>4, <2>1
    <2>3. U \in SUBSET d.outputs
      BY <1>2
    <2> HIDE DEF W, U
    <2> QED
      BY <2>2, <2>3
  <1>6. \A o, p \in U : m[o] = m[p] => o = p
    <2> SUFFICES ASSUME NEW o \in U, NEW p \in U, m[o] = m[p] PROVE o = p
      OBVIOUS
    <2>1. o \in d.outputs /\ p \in d.outputs
      BY <1>2
    <2>2. o.txid = p.txid /\ o.vout = p.vout
      BY <2>1
    <2> QED
      BY <2>1, <2>2, OutputKey
  <1>7. \A o \in U : e[m[o]] = f[o]
    <2> SUFFICES ASSUME NEW o \in U PROVE e[m[o]] = f[o]
      OBVIOUS
    <2>1. o \in d.outputs
      BY <1>2
    <2>2. m[o] \in W
      BY <1>5
    <2>3. SatsOf(m[o]) = SatsOf(o)
      BY <2>1 DEF SatsOf
    <2> QED
      BY <2>1, <2>2, <2>3
  <1>8. \A o \in d.outputs : f[o] = SatsOf(o)
    OBVIOUS
  <1>9. \A x \in W : e[x] = SatsOf(x)
    OBVIOUS
  <1>10. U = I \ S /\ W = UnspentOf(d, a, s)
    OBVIOUS
  <1> HIDE DEF I, S, f, m, U, W, e, s
  <1>11. IsFiniteSet(I) /\ IsFiniteSet(S) /\ IsFiniteSet(U) /\ U \in SUBSET I
    <2>1. IsFiniteSet(I)
      BY <1>2, FS_Subset
    <2> QED
      BY <1>2, <1>10, <2>1, FS_Subset
  <1>12. SumSats(I) = SumFunctionOnSet(f, I) /\ SumSats(S) = SumFunctionOnSet(f, S)
    <2>1. \A o \in I : f[o] = SatsOf(o)
      BY <1>2, <1>8
    <2>2. \A o \in S : f[o] = SatsOf(o)
      BY <1>2, <2>1
    <2> QED
      BY <1>11, <2>1, <2>2, SumSatsIs
  <1>13. SumFunctionOnSet(f, I) - SumFunctionOnSet(f, S) = SumFunctionOnSet(f, U)
    BY <1>2, <1>3, <1>10, <1>11, SumDifference
  <1>14. IntOn(f, U)
    BY <1>3, <1>11 DEF IntOn
  <1>15. SumFunctionOnSet(f, U) = SumFunctionOnSet(e, { m[o] : o \in U })
    BY <1>6, <1>7, <1>11, <1>14, SumRenamed
  <1>16. IsFiniteSet(W)
    BY <1>5, <1>11, ImageFinite
  <1>17. SumSats(W) = SumFunctionOnSet(e, W)
    BY <1>9, <1>16, SumSatsIs
  <1>18. b.balance = SumFunctionOnSet(f, I) - SumFunctionOnSet(f, S)
    BY <1>1, <1>12
  <1>19. b.balance = SumSats(W)
    BY <1>5, <1>13, <1>15, <1>17, <1>18
  <1> QED
    BY <1>10, <1>19 DEF s

\* An unknown address was never paid.
LEMMA UnknownUnpaid ==
    ASSUME NEW d, Version(d), NEW a, AddressCounts(d, a) = NotFound
    PROVE  Payments(d, a) = {}
  <1> DEFINE P == PlacesIn(txs, HashesIn(d))
             mine == { r \in d.addressTxs : r.address = a }
             c == [transactions |-> Cardinality(mine), outputs |-> Cardinality(OutputsTo(d, a)),
                   unspent |-> Cardinality(AddressUTXOs(d, a))]
  <1>1. IsFiniteSet(OutputsTo(d, a)) /\ IsFiniteSet(AddressUTXOs(d, a))
    <2>1. OutputsTo(d, a) \in SUBSET d.outputs /\ AddressUTXOs(d, a) \in SUBSET d.outputs
      BY DEF OutputsTo, AddressUTXOs
    <2> QED
      BY <2>1, VersionOutputsFinite, FS_Subset
  <1>2. IsFiniteSet(mine)
    <2> DEFINE m == [q \in P |-> HistoryRow(q, a)]
    <2>1. IsFiniteSet(P) /\ d.addressTxs = AddressTxsOf(txs, P)
      BY VersionFacts, PlacesFinite
    <2>2. IsFiniteSet({ m[q] : q \in P })
      <3> HIDE DEF m, P
      <3> QED
        BY <2>1, ImageFinite
    <2>3. ASSUME NEW r \in mine PROVE r \in { m[q] : q \in P }
      <3>1. PICK q \in P : \E x \in PaidAddresses(TxIn(txs, q)) \cup SpentAddresses(TxIn(txs, q)) : r = HistoryRow(q, x)
        BY <2>1, AddressTxsAre
      <3>2. r = HistoryRow(q, a)
        BY <3>1 DEF HistoryRow
      <3> HIDE DEF P
      <3> QED
        BY <3>2
    <2> HIDE DEF m, mine
    <2>4. mine \in SUBSET { m[q] : q \in P }
      BY <2>3
    <2> QED
      BY <2>2, <2>4, FS_Subset
  <1>3. c \in [transactions : Nat, outputs : Nat, unspent : Nat]
    <2>1. Cardinality(mine) \in Nat /\ Cardinality(OutputsTo(d, a)) \in Nat /\ Cardinality(AddressUTXOs(d, a)) \in Nat
      BY <1>1, <1>2, FS_CardinalityType
    <2> HIDE DEF mine
    <2> QED
      BY <2>1
  <1>4. c # NotFound
    <2> HIDE DEF c
    <2> QED
      BY <1>3, RequestsAssumption
  <1>5. c.outputs = 0
    <2>1. AddressCounts(d, a) = IF c.outputs = 0 /\ c.transactions = 0 THEN NotFound ELSE c
      BY DEF AddressCounts
    <2> HIDE DEF c
    <2> QED
      BY <1>4, <2>1
  <1>6. OutputsTo(d, a) = {}
    BY <1>1, <1>5, FS_EmptySet
  <1> QED
    BY <1>6, PaidAre

\* An answer is right for its version in a reply that failed, too.
LEMMA CountsRead ==
    ASSUME ReaderInv, req # Null, "counts" \in DOMAIN got
    PROVE  LET d == seen[got["counts"].at] IN Version(d) /\ got["counts"].val = AddressCounts(d, req.id)
  <1> DEFINE H == Handler(req)
             n == Cardinality(DOMAIN got)
  <1>1. DOMAIN seen = 1..Len(seen) /\ Answered(txs, req, seen, from, got)
    BY Serving
  <1>2. PICK i \in 1..n : H[i] = "counts"
    BY <1>1 DEF Answered
  <1>3. /\ got[H[i]].at \in DOMAIN seen
        /\ H[i] # "status" => got[H[i]].val = Query(txs, req, from, got, H[i], seen[got[H[i]].at])
    BY <1>1, <1>2 DEF Answered
  <1> HIDE DEF H, n
  <1>4. /\ got["counts"].at \in DOMAIN seen
        /\ got["counts"].val = Query(txs, req, from, got, "counts", seen[got["counts"].at])
    BY <1>2, <1>3
  <1>5. Version(seen[got["counts"].at])
    BY <1>4 DEF ReaderInv
  <1>6. \A d : Query(txs, req, from, got, "counts", d) = AddressCounts(d, req.id)
    BY DEF Query, Lookups
  <1> QED
    BY <1>4, <1>5, <1>6

\* An address reply.
LEMMA AddressReply ==
    ASSUME ReaderInv
    PROVE  BalancesExact
  <1> DEFINE d == seen[got["counts"].at]
             e == seen[got["balances"].at]
             shown == got["balances"].val
  <1> SUFFICES ASSUME Done, req.op = "address", "counts" \in DOMAIN got
               PROVE  /\ got["counts"].val = NotFound => Payments(d, req.id) = {}
                      /\ ~Failed(got) =>
                           /\ { b.asset : b \in shown } = { AssetOf(o) : o \in ExplicitTo(e, req.id) }
                           /\ \A b \in shown : b.balance = SumSats(UnspentOf(e, req.id, b.asset))
    BY DEF BalancesExact, Reply, Payments, UnspentOf, ExplicitTo
  <1>1. req # Null
    BY DEF Done
  <1>2. ASSUME got["counts"].val = NotFound PROVE Payments(d, req.id) = {}
    <2>1. Version(d) /\ got["counts"].val = AddressCounts(d, req.id)
      BY <1>1, CountsRead
    <2> HIDE DEF d
    <2> QED
      BY <1>2, <2>1, UnknownUnpaid
  <1>3. ASSUME ~Failed(got)
        PROVE  /\ { b.asset : b \in shown } = { AssetOf(o) : o \in ExplicitTo(e, req.id) }
               /\ \A b \in shown : b.balance = SumSats(UnspentOf(e, req.id, b.asset))
    <2> DEFINE H == Handler(req)
    <2>1. H = <<"params", "counts", "balances", "count", "page">>
      BY DEF Handler, HandleAddress
    <2>2. DOMAIN got = { H[n] : n \in 1..Len(H) }
      BY <1>3, ReplyRead
    <2> HIDE DEF H
    <2>3. "balances" \in DOMAIN got
      BY <2>1, <2>2
    <2>4. Version(e) /\ shown = Balances(e, req.id)
      BY <1>3, <2>3, Statements
    <2> HIDE DEF e, shown
    <2> QED
      BY <2>4, AssetsShown, BalancesAre
  <1> QED
    BY <1>2, <1>3

\* The balances shown for an address are the sums of what the branch paid it and no
\* transaction of the branch spends, in every asset it was explicitly paid in; an
\* unknown address was never paid.
THEOREM BalancesCorrect == ApiSpec => []BalancesExact
  <1>1. ReaderInv => BalancesExact
    BY AddressReply
  <1> QED
    BY <1>1, RepliesRead, PTL

-------------------------------------------------------------------------------
(* The pages of /blocks *)

\* There is a block at every height up to the cursor.
LEMMA HeightThere ==
    ASSUME NEW d, Version(d), NEW h \in Nat, h <= d.cursor.height
    PROVE  \E x \in d.blocks : x.height = h
  <1> DEFINE p == d.cursor.hash
  <1>1. /\ BranchTo(HashesIn(d), p)
        /\ d.cursor = IF p = NoBlock THEN NoCursor ELSE [height |-> Height[p], hash |-> p]
    BY VersionFacts
  <1> HIDE DEF p
  <1>2. p # NoBlock /\ d.cursor.height = Height[p]
    BY <1>1 DEF NoCursor
  <1>3. PICK b \in HashesIn(d) : Height[b] = h
    BY <1>1, <1>2, HeightsFilled
  <1> QED
    BY <1>3, BlocksOf

\* As many blocks as heights.
LEMMA CountBetween ==
    ASSUME NEW d, Version(d), NEW lo \in Int, NEW hi \in Int, -1 <= lo, lo <= hi, hi <= d.cursor.height
    PROVE  Cardinality({ c \in d.blocks : lo < c.height /\ c.height <= hi }) = hi - lo
  <1> DEFINE C == { c \in d.blocks : lo < c.height /\ c.height <= hi }
             m == [c \in d.blocks |-> c.height]
  <1>1. IsFiniteSet(C)
    <2>1. C \in SUBSET d.blocks
      OBVIOUS
    <2> QED
      BY <2>1, BlocksCounted, FS_Subset
  <1>2. \A x, y \in C : m[x] = m[y] => x = y
    BY BlocksOf
  <1>3. ASSUME NEW h \in (lo + 1)..hi PROVE \E c \in C : m[c] = h
    <2>1. h \in Nat /\ h <= d.cursor.height
      BY VersionHeight
    <2>2. PICK x \in d.blocks : x.height = h
      BY <2>1, HeightThere
    <2>3. x \in C
      BY <2>2
    <2> QED
      BY <2>2, <2>3
  <1>4. \A c \in C : m[c] \in (lo + 1)..hi
    BY BlocksOf
  <1> HIDE DEF C, m
  <1>5. { m[c] : c \in C } = (lo + 1)..hi
    BY <1>3, <1>4
  <1>6. Cardinality((lo + 1)..hi) = hi - lo
    <2>1. lo + 1 \in Int /\ hi \in Int
      OBVIOUS
    <2>2. Cardinality((lo + 1)..hi) = IF lo + 1 > hi THEN 0 ELSE hi - (lo + 1) + 1
      BY <2>1, FS_Interval
    <2> QED
      BY <2>2
  <1>7. Cardinality({ m[c] : c \in C }) = Cardinality(C)
    BY <1>1, <1>2, ImageSize
  <1> QED
    BY <1>5, <1>6, <1>7 DEF C

\* The page below a cursor, with the row more: the heights down from its top.
Within(d, lo, hi) == { b \in d.blocks : lo <= b.height /\ b.height <= hi }
TopOf(d, before) == IF before <= d.cursor.height THEN before ELSE d.cursor.height

\* The rows of blockList are those of the limit + 1 heights from the cursor down.
LEMMA PageIs ==
    ASSUME NEW d, Version(d), NEW limit \in Nat \ {0}, NEW before \in Int, -1 <= before
    PROVE  LET top == TopOf(d, before) IN
           /\ top \in Int /\ -1 <= top /\ top <= before /\ top <= d.cursor.height
           /\ BlockPage(d, limit, before) = Within(d, top - limit, top)
  <1> DEFINE top == TopOf(d, before)
             higher(b) == { c \in d.blocks : b.height < c.height /\ c.height <= before }
             between(b) == { c \in d.blocks : b.height < c.height /\ c.height <= top }
  <1>1. top \in Int /\ -1 <= top /\ top <= before /\ top <= d.cursor.height
    BY VersionHeight DEF TopOf
  <1>2. \A c \in d.blocks : c.height \in Nat /\ (c.height <= before <=> c.height <= top)
    BY BlocksOf, VersionHeight DEF TopOf
  <1> HIDE DEF top
  <1>3. ASSUME NEW b \in d.blocks, b.height <= before
        PROVE  Cardinality(higher(b)) = top - b.height
    <2>1. higher(b) = between(b)
      BY <1>2
    <2>2. b.height \in Int /\ -1 <= b.height /\ b.height <= top
      BY <1>2, <1>3
    <2>3. Cardinality(between(b)) = top - b.height
      BY <1>1, <2>2, CountBetween
    <2> HIDE DEF higher, between
    <2> QED
      BY <2>1, <2>3
  <1>4. BlockPage(d, limit, before) = { b \in d.blocks : b.height <= before /\ Cardinality(higher(b)) <= limit }
    BY DEF BlockPage
  <1> HIDE DEF higher
  <1>5. \A b \in d.blocks : /\ b.height <= before
                            /\ Cardinality(higher(b)) <= limit
                            <=> top - limit <= b.height /\ b.height <= top
    <2> TAKE b \in d.blocks
    <2>1. b.height \in Nat /\ (b.height <= before <=> b.height <= top)
      BY <1>2
    <2>2. b.height <= before => Cardinality(higher(b)) = top - b.height
      BY <1>3
    <2> QED
      BY <1>1, <2>1, <2>2
  <1> QED
    BY <1>1, <1>4, <1>5 DEF top, Within

\* What is shown of a page, and where the next one begins.
LEMMA PageShown ==
    ASSUME NEW d, Version(d), NEW limit \in Nat \ {0}, NEW top \in Int, -1 <= top, top <= d.cursor.height,
           NEW rows, rows = Within(d, top - limit, top)
    PROVE  /\ Above(rows, limit) = { b \in rows : top - limit < b.height }
           /\ NextCursor(rows, limit) = IF limit <= top THEN top - limit ELSE Null
  <1> DEFINE higher(b) == { c \in rows : c.height > b.height }
             between(b) == { c \in d.blocks : b.height < c.height /\ c.height <= top }
             low == IF limit <= top THEN (top - limit) - 1 ELSE -1
             all == { c \in d.blocks : low < c.height /\ c.height <= top }
  <1>1. /\ \A b \in d.blocks : b.height \in Nat
        /\ rows = { b \in d.blocks : top - limit <= b.height /\ b.height <= top }
    BY BlocksOf DEF Within
  <1>2. ASSUME NEW b \in rows PROVE Cardinality(higher(b)) = top - b.height
    <2>1. higher(b) = between(b)
      BY <1>1
    <2>2. b.height \in Int /\ -1 <= b.height /\ b.height <= top
      BY <1>1
    <2>3. Cardinality(between(b)) = top - b.height
      BY <2>2, CountBetween
    <2> HIDE DEF higher, between
    <2> QED
      BY <2>1, <2>3
  <1>3. Above(rows, limit) = { b \in rows : Cardinality(higher(b)) < limit }
    BY DEF Above
  <1>4. Above(rows, limit) = { b \in rows : top - limit < b.height }
    <2> HIDE DEF higher
    <2>1. ASSUME NEW b \in rows PROVE Cardinality(higher(b)) < limit <=> top - limit < b.height
      <3>1. b.height \in Nat
        BY <1>1
      <3> QED
        BY <1>2, <3>1
    <2> QED
      BY <1>3, <2>1
  <1>5. rows = all /\ low \in Int /\ -1 <= low /\ low <= top
    BY <1>1
  <1> HIDE DEF low
  <1>6. Cardinality(rows) = top - low
    <2>1. Cardinality(all) = top - low
      BY <1>5, CountBetween
    <2> HIDE DEF all
    <2> QED
      BY <1>5, <2>1
  <1>7. CASE limit <= top
    <2>1. low = (top - limit) - 1
      BY <1>7 DEF low
    <2>2. Cardinality(rows) > limit
      BY <1>6, <2>1
    <2> DEFINE S == { b.height : b \in rows }
    <2>3. top - limit \in S
      <3>1. top - limit \in Nat /\ top - limit <= d.cursor.height
        BY <1>7, VersionHeight
      <3>2. PICK x \in d.blocks : x.height = top - limit
        BY <3>1, HeightThere
      <3>3. x \in rows
        BY <1>1, <3>1, <3>2
      <3> QED
        BY <3>2, <3>3
    <2>4. S \in SUBSET Int /\ \A x \in S : top - limit <= x
      BY <1>1
    <2> HIDE DEF S
    <2>5. Min(S) = top - limit
      BY <2>3, <2>4, MinIs
    <2> QED
      BY <1>4, <1>7, <2>2, <2>5 DEF NextCursor, S
  <1>8. CASE ~(limit <= top)
    <2>1. Cardinality(rows) = top + 1
      BY <1>6, <1>8 DEF low
    <2>2. ~(Cardinality(rows) > limit)
      BY <1>8, <2>1
    <2> QED
      BY <1>4, <1>8, <2>2 DEF NextCursor
  <1> QED
    BY <1>7, <1>8

-------------------------------------------------------------------------------
(* A walk through a listing *)

\* The replies of a walk, and where each began.
Following(begin) ==
    LET n == Len(walk) + 1 IN
    /\ n \in Nat \ {0} /\ DOMAIN Replies = 1..n /\ Replies[n] = got
    /\ begin[1] = Start /\ begin[n] = from
    /\ \A i \in 1..n : /\ Answered(txs, req, seen, begin[i], Replies[i])
                       /\ Cardinality(DOMAIN Replies[i]) = Len(Handler(req)) /\ ~Failed(Replies[i])
    /\ \A i \in 1..n : i < n => /\ NextOf(req, Replies[i]) # Null
                                /\ begin[i + 1] = NextFrom(req, begin[i], Replies[i])
    /\ \A i, j \in 1..n : i < j =>
         \A p \in DOMAIN Replies[i], q \in DOMAIN Replies[j] : Replies[i][p].at <= Replies[j][q].at

\* A walk with its current reply.
LEMMA WalkFollowed ==
    ASSUME ReaderInv, Done, ~Failed(got)
    PROVE  \E begin : Following(begin)
  <1> DEFINE n == Len(walk)
             R == Replies
  <1>1. req # Null /\ Cardinality(DOMAIN got) = Len(Handler(req))
    BY DoneReply DEF Done
  <1>2. Answered(txs, req, seen, from, got)
    BY <1>1, Serving
  <1>3. PICK begin : Walked(begin)
    BY <1>1 DEF ReaderInv
  <1>4. n \in Nat /\ DOMAIN walk = 1..n /\ begin[1] = Start /\ begin[n + 1] = from
    BY <1>3 DEF Walked
  <1>5. /\ DOMAIN R = 1..(n + 1) /\ R[n + 1] = got
        /\ \A i \in 1..n : R[i] = walk[i]
    BY <1>4 DEF Replies
  <1> HIDE DEF R
  <1>6. ASSUME NEW i \in 1..n
        PROVE  /\ Answered(txs, req, seen, begin[i], R[i])
               /\ Cardinality(DOMAIN R[i]) = Len(Handler(req)) /\ ~Failed(R[i])
               /\ NextOf(req, R[i]) # Null /\ begin[i + 1] = NextFrom(req, begin[i], R[i])
    BY <1>3, <1>5 DEF Walked
  <1>7. \A i \in 1..(n + 1) : /\ Answered(txs, req, seen, begin[i], R[i])
                              /\ Cardinality(DOMAIN R[i]) = Len(Handler(req)) /\ ~Failed(R[i])
    <2> TAKE i \in 1..(n + 1)
    <2>1. CASE i = n + 1
      BY <1>1, <1>2, <1>4, <1>5, <2>1
    <2>2. CASE i # n + 1
      <3>1. i \in 1..n
        BY <1>4, <2>2
      <3> QED
        BY <1>6, <3>1
    <2> QED
      BY <2>1, <2>2
  <1>8. \A i \in 1..(n + 1) : i < n + 1 =>
          NextOf(req, R[i]) # Null /\ begin[i + 1] = NextFrom(req, begin[i], R[i])
    BY <1>4, <1>6
  <1>9. ASSUME NEW i \in 1..(n + 1), NEW j \in 1..(n + 1), i < j,
               NEW p \in DOMAIN R[i], NEW q \in DOMAIN R[j]
        PROVE  R[i][p].at <= R[j][q].at
    <2>1. i \in 1..n /\ R[i] = walk[i]
      BY <1>4, <1>5, <1>9
    <2>2. CASE j = n + 1
      BY <1>3, <1>5, <1>9, <2>1, <2>2 DEF Walked
    <2>3. CASE j # n + 1
      <3>1. j \in (i + 1)..n /\ R[j] = walk[j]
        BY <1>4, <1>5, <1>9, <2>3
      <3> QED
        BY <1>3, <1>9, <2>1, <3>1 DEF Walked
    <2> QED
      BY <2>2, <2>3
  <1>10. n + 1 \in Nat \ {0}
    BY <1>4
  <1> QED
    BY <1>4, <1>5, <1>7, <1>8, <1>9, <1>10 DEF Following, R

\* What a reply of the walk consists of.
LEMMA ReplyOf ==
    ASSUME ReaderInv, req # Null, NEW begin, Following(begin), NEW i \in DOMAIN Replies
    PROVE  LET H == Handler(req)
               r == Replies[i]
           IN  /\ DOMAIN r = { H[k] : k \in 1..Len(H) }
               /\ \A j, k \in 1..Len(H) : j <= k => r[H[j]].at <= r[H[k]].at
               /\ \A q \in DOMAIN r :
                    /\ r[q].at \in 1..Len(seen) /\ Version(seen[r[q].at]) /\ r[q].val # NotFound
                    /\ q # "status" => r[q].val = Query(txs, req, begin[i], r, q, seen[r[q].at])
  <1> DEFINE H == Handler(req)
             r == Replies[i]
  <1>1. /\ req \in Request /\ Len(seen) \in Nat /\ DOMAIN seen = 1..Len(seen)
        /\ \A k \in 1..Len(seen) : Version(seen[k])
    BY Serving DEF ReaderInv
  <1>2. Answered(txs, req, seen, begin[i], r) /\ Cardinality(DOMAIN r) = Len(H) /\ ~Failed(r)
    BY DEF Following
  <1> HIDE DEF r
  <1>3. /\ DOMAIN r = { H[k] : k \in 1..Len(H) }
        /\ \A j, k \in 1..Len(H) : j <= k => r[H[j]].at <= r[H[k]].at
        /\ \A k \in 1..Len(H) :
             /\ r[H[k]].at \in 1..Len(seen) /\ r[H[k]].val # NotFound
             /\ H[k] # "status" => r[H[k]].val = Query(txs, req, begin[i], r, H[k], seen[r[H[k]].at])
    <2> DEFINE f == begin[i]
    <2>1. Answered(txs, req, seen, f, r)
      BY <1>2
    <2> HIDE DEF f
    <2>2. /\ DOMAIN r = { H[k] : k \in 1..Len(H) }
          /\ \A j, k \in 1..Len(H) : j <= k => r[H[j]].at <= r[H[k]].at
          /\ \A k \in 1..Len(H) : LET a == r[H[k]] IN
               /\ a.at \in 1..Len(seen) /\ a.val # NotFound
               /\ H[k] # "status" => a.val = Query(txs, req, f, r, H[k], seen[a.at])
               /\ H[k] = "status" => Behind(a.val, seen[a.at])
      BY <1>1, <1>2, <2>1, WholeReply
    <2> HIDE DEF H
    <2> QED
      BY <2>2 DEF f
  <1> HIDE DEF H
  <1>4. \A q \in DOMAIN r :
          /\ r[q].at \in 1..Len(seen) /\ Version(seen[r[q].at]) /\ r[q].val # NotFound
          /\ q # "status" => r[q].val = Query(txs, req, begin[i], r, q, seen[r[q].at])
    BY <1>1, <1>3
  <1> QED
    BY <1>3, <1>4 DEF H, r

\* The parameters of a listing that is served.
LEMMA PagingIs ==
    ASSUME NEW r \in Request, r.op \in Listings \cup {"blocks", "transactions"}, NEW offset \in Int,
           PageParams(r.limit, offset) # NotFound
    PROVE  LET p == PageParams(r.limit, offset) IN
           p.limit = Min({r.limit, MaxPageSize}) /\ p.limit \in Nat \ {0} /\ p.offset = offset /\ offset \in Nat
  <1> DEFINE S == {r.limit, MaxPageSize}
  <1>1. r.limit \in Int /\ MaxPageSize \in Nat \ {0}
    BY RequestsAssumption
  <1>2. 1 <= r.limit /\ 0 <= offset /\ PageParams(r.limit, offset) = [limit |-> Min(S), offset |-> offset]
    BY <1>1 DEF PageParams
  <1>3. Min(S) \in S
    <2>1. S \in SUBSET Int /\ \E m \in S : \A x \in S : m <= x
      BY <1>1
    <2> HIDE DEF S
    <2> QED
      BY <2>1, MinIs
  <1> QED
    BY <1>1, <1>2, <1>3

\* The statements of paging, spelt out.
LEMMA PagingQueries ==
    ASSUME NEW c, NEW r, NEW f, NEW g, NEW d
    PROVE  /\ Query(c, r, f, g, "params", d) = PageParams(r.limit, f.offset)
           /\ Query(c, r, f, g, "count", d) = Cardinality(Listing(r, g, d))
           /\ Query(c, r, f, g, "page", d) = Page(r, Params(r, g), Listing(r, g, d))
           /\ Query(c, r, f, g, "blocks", d) = BlockPage(d, Params(r, g).limit, Before(f, d))
  BY DEF Query, Lookups

\* A request without a cursor starts at the top.
LEMMA BeforeIs ==
    ASSUME NEW d, Version(d), NEW f
    PROVE  Before(f, d) = IF f.before = Null THEN d.cursor.height ELSE f.before
  <1> DEFINE m == Max(Heights(d.blocks))
  <1>1. /\ m \in Int /\ m >= -1 /\ (\A b \in d.blocks : b.height <= m)
        /\ (m = -1 \/ \E b \in d.blocks : b.height = m)
    <2>1. IsFiniteSet(d.blocks) /\ \A b \in d.blocks : b.height \in Int
      BY BlocksCounted, BlocksOf
    <2> QED
      BY <2>1, HighestOf
  <1>2. Before(f, d) = IF f.before = Null THEN m ELSE f.before
    BY DEF Before, Heights
  <1> HIDE DEF m
  <1>3. m = d.cursor.height
    <2>1. m <= d.cursor.height
      BY <1>1, BlocksOf, VersionHeight
    <2>2. d.cursor.height <= m
      <3>1. CASE d.cursor.height = -1
        BY <1>1, <3>1
      <3>2. CASE d.cursor.height # -1
        BY <1>1, <3>2, TopBlock
      <3> QED
        BY <3>1, <3>2
    <2> QED
      BY <1>1, <2>1, <2>2, VersionHeight
  <1> QED
    BY <1>2, <1>3

\* Reply r of the pages of blocks begins at top and shows so many; d is its version.
Shows(r, f, d, limit, top) ==
    /\ Version(d) /\ limit \in Nat \ {0} /\ top \in Int /\ -1 <= top
    /\ top = TopOf(d, Before(f, d)) /\ top <= d.cursor.height
    /\ r["blocks"].val = Within(d, top - limit, top)
    /\ Above(r["blocks"].val, r["params"].val.limit) = { b \in r["blocks"].val : top - limit < b.height }
    /\ NextOf(req, r) = IF limit <= top THEN top - limit ELSE Null

\* Whatever version a page of /blocks was read from, it is a run of heights, and its
\* next cursor is the height below the last block listed.
LEMMA BlocksShown ==
    ASSUME ReaderInv, req # Null, req.op = "blocks", NEW begin, Following(begin), NEW i \in DOMAIN Replies,
           begin[i].before \in Nat \cup {Null}, begin[i].offset = 0
    PROVE  LET r == Replies[i] IN
           /\ r["blocks"].at \in 1..Len(seen)
           /\ \E limit, top : Shows(r, begin[i], seen[r["blocks"].at], limit, top)
  <1> DEFINE H == Handler(req)
             r == Replies[i]
             f == begin[i]
             d == seen[r["blocks"].at]
             p == PageParams(req.limit, 0)
             limit == p.limit
             before == Before(f, d)
             top == TopOf(d, before)
  <1>1. H = <<"params", "total", "blocks">>
    BY DEF Handler, HandleBlocks
  <1>2. /\ DOMAIN r = { H[k] : k \in 1..Len(H) }
        /\ \A q \in DOMAIN r :
             /\ r[q].at \in 1..Len(seen) /\ Version(seen[r[q].at]) /\ r[q].val # NotFound
             /\ q # "status" => r[q].val = Query(txs, req, f, r, q, seen[r[q].at])
    BY ReplyOf
  <1> HIDE DEF H, r
  <1>3. {"params", "blocks"} \subseteq DOMAIN r /\ "page" \notin DOMAIN r
    BY <1>1, <1>2
  <1>4. r["params"].val = p /\ p # NotFound
    <2>1. /\ r["params"].val # NotFound
          /\ r["params"].val = Query(txs, req, f, r, "params", seen[r["params"].at])
      BY <1>2, <1>3
    <2>2. Query(txs, req, f, r, "params", seen[r["params"].at]) = PageParams(req.limit, f.offset)
      BY PagingQueries
    <2> QED
      BY <2>1, <2>2
  <1>5. /\ r["blocks"].at \in 1..Len(seen) /\ Version(d)
        /\ r["blocks"].val = Query(txs, req, f, r, "blocks", d)
    BY <1>2, <1>3
  <1>6. limit \in Nat \ {0}
    <2>1. req \in Request /\ req.op \in Listings \cup {"blocks", "transactions"} /\ 0 \in Int
      BY Serving
    <2>2. PageParams(req.limit, 0) # NotFound
      BY <1>4
    <2>3. PageParams(req.limit, 0).limit \in Nat \ {0}
      BY <2>1, <2>2, PagingIs
    <2> QED
      BY <2>3
  <1>7. Params(req, r) = p
    BY <1>4 DEF Params
  <1> HIDE DEF p
  <1>8. r["blocks"].val = BlockPage(d, limit, before)
    BY <1>5, <1>7, PagingQueries
  <1> HIDE DEF d
  <1>9. before \in Int /\ -1 <= before
    BY <1>5, BeforeIs, VersionHeight
  <1> HIDE DEF limit, before
  <1>10. /\ top \in Int /\ -1 <= top /\ top <= before /\ top <= d.cursor.height
         /\ r["blocks"].val = Within(d, top - limit, top)
    BY <1>5, <1>6, <1>8, <1>9, PageIs
  <1> HIDE DEF top
  <1>11. /\ Above(r["blocks"].val, limit) = { b \in r["blocks"].val : top - limit < b.height }
         /\ NextCursor(r["blocks"].val, limit) = IF limit <= top THEN top - limit ELSE Null
    <2> DEFINE rows == r["blocks"].val
    <2>1. rows = Within(d, top - limit, top)
      BY <1>10
    <2> HIDE DEF rows
    <2>2. /\ Above(rows, limit) = { b \in rows : top - limit < b.height }
          /\ NextCursor(rows, limit) = IF limit <= top THEN top - limit ELSE Null
      BY <1>5, <1>6, <1>10, <2>1, PageShown
    <2> QED
      BY <2>2 DEF rows
  <1>12. NextOf(req, r) = NextCursor(r["blocks"].val, limit)
    BY <1>3, <1>7 DEF NextOf, limit
  <1>13. r["params"].val.limit = limit
    BY <1>4 DEF limit
  <1>14. Shows(r, f, d, limit, top)
    BY <1>5, <1>6, <1>10, <1>11, <1>12, <1>13 DEF Shows, top, before
  <1> QED
    BY <1>5, <1>14 DEF r, d

CursorAt == [offset : {0}, before : Nat \cup {Null}]

\* The page after it begins there.
LEMMA CursorMoves ==
    ASSUME ReaderInv, req # Null, req.op = "blocks", NEW begin, Following(begin), NEW i \in DOMAIN Replies,
           i < Len(walk) + 1, begin[i] \in CursorAt,
           NEW d, NEW limit, NEW top, Shows(Replies[i], begin[i], d, limit, top)
    PROVE  /\ limit <= top /\ i + 1 \in DOMAIN Replies
           /\ begin[i + 1] \in CursorAt /\ begin[i + 1].before = top - limit
  <1>1. /\ i \in 1..(Len(walk) + 1) /\ i + 1 \in DOMAIN Replies /\ i \in Nat
        /\ NextOf(req, Replies[i]) # Null /\ begin[i + 1] = NextFrom(req, begin[i], Replies[i])
    BY DEF Following
  <1>2. limit <= top /\ NextOf(req, Replies[i]) = top - limit /\ top - limit \in Nat
    BY <1>1 DEF Shows
  <1>3. begin[i + 1] = [begin[i] EXCEPT !.before = top - limit]
    BY <1>1, <1>2 DEF NextFrom
  <1> QED
    BY <1>1, <1>2, <1>3 DEF CursorAt

\* So the cursor of every page is a height, by induction along the walk.
LEMMA CursorIs ==
    ASSUME ReaderInv, req # Null, req.op = "blocks", NEW begin, Following(begin)
    PROVE  \A i \in DOMAIN Replies : begin[i] \in CursorAt
  <1> DEFINE n == Len(walk) + 1
             S == { k \in Nat : k + 1 <= n => begin[k + 1] \in CursorAt }
  <1>1. n \in Nat \ {0} /\ DOMAIN Replies = 1..n /\ begin[1] = Start
    BY DEF Following
  <1>2. 0 \in S
    <2>1. 0 + 1 = 1 /\ Start \in CursorAt
      BY DEF Start, CursorAt
    <2> QED
      BY <1>1, <2>1
  <1>3. ASSUME NEW k \in Nat, k \in S PROVE k + 1 \in S
    <2> SUFFICES ASSUME (k + 1) + 1 <= n PROVE begin[(k + 1) + 1] \in CursorAt
      OBVIOUS
    <2> DEFINE i == k + 1
    <2>1. i \in DOMAIN Replies /\ i < n /\ begin[i] \in CursorAt
      BY <1>1, <1>3
    <2> HIDE DEF i
    <2>2. begin[i].before \in Nat \cup {Null} /\ begin[i].offset = 0
      BY <2>1 DEF CursorAt
    <2>3. PICK limit, top : Shows(Replies[i], begin[i], seen[Replies[i]["blocks"].at], limit, top)
      BY <2>1, <2>2, BlocksShown
    <2>4. begin[i + 1] \in CursorAt
      BY <2>1, <2>3, CursorMoves
    <2> QED
      BY <2>4 DEF i
  <1> HIDE DEF S
  <1>4. \A k \in Nat : k \in S
    BY <1>2, <1>3, SetInduction
  <1>5. ASSUME NEW i \in DOMAIN Replies PROVE begin[i] \in CursorAt
    <2>1. i - 1 \in Nat /\ (i - 1) + 1 = i /\ i <= n
      BY <1>1
    <2>2. i - 1 \in S
      BY <1>4, <2>1
    <2> QED
      BY <2>1, <2>2 DEF S
  <1> QED
    BY <1>5

\* Each page begins where the one before it ends.
PageAt(begin, i, limit, top) ==
    /\ Replies[i]["blocks"].at \in 1..Len(seen)
    /\ Shows(Replies[i], begin[i], seen[Replies[i]["blocks"].at], limit, top)
    /\ i < Len(walk) + 1 => limit <= top /\ begin[i + 1].before = top - limit

\* And every page is such a run.
LEMMA CursorStep ==
    ASSUME ReaderInv, req # Null, req.op = "blocks", NEW begin, Following(begin), NEW i \in DOMAIN Replies
    PROVE  \E limit, top : PageAt(begin, i, limit, top)
  <1>1. begin[i] \in CursorAt
    BY CursorIs
  <1>2. begin[i].before \in Nat \cup {Null} /\ begin[i].offset = 0
    BY <1>1 DEF CursorAt
  <1>3. Replies[i]["blocks"].at \in 1..Len(seen)
    BY <1>2, BlocksShown
  <1>4. PICK limit, top : Shows(Replies[i], begin[i], seen[Replies[i]["blocks"].at], limit, top)
    BY <1>2, BlocksShown
  <1>5. i < Len(walk) + 1 => limit <= top /\ begin[i + 1].before = top - limit
    BY <1>1, <1>4, CursorMoves
  <1> QED
    BY <1>3, <1>4, <1>5 DEF PageAt

\* The cursor only moves down.
LEMMA CursorFalls ==
    ASSUME ReaderInv, req # Null, req.op = "blocks", NEW begin, Following(begin),
           NEW i \in DOMAIN Replies, NEW j \in DOMAIN Replies, i < j
    PROVE  begin[i + 1].before \in Nat /\ begin[j].before \in Nat /\ begin[j].before <= begin[i + 1].before
  <1> DEFINE n == Len(walk) + 1
             S == { k \in Nat : (i + 1) + k <= n =>
                      begin[(i + 1) + k].before \in Nat /\ begin[(i + 1) + k].before <= begin[i + 1].before }
  <1>1. n \in Nat \ {0} /\ DOMAIN Replies = 1..n
    BY DEF Following
  <1>2. \A k \in DOMAIN Replies : \E limit, top : PageAt(begin, k, limit, top)
    BY CursorStep
  <1>3. begin[i + 1].before \in Nat
    <2>1. PICK limit, top : PageAt(begin, i, limit, top)
      BY <1>2
    <2>2. i < n
      BY <1>1
    <2>3. limit <= top /\ begin[i + 1].before = top - limit
      BY <2>1, <2>2 DEF PageAt
    <2>4. limit \in Nat /\ top \in Int
      BY <2>1 DEF PageAt, Shows
    <2> QED
      BY <2>3, <2>4
  <1>4. 0 \in S
    BY <1>1, <1>3
  <1>5. ASSUME NEW k \in Nat, k \in S PROVE k + 1 \in S
    <2> DEFINE m == (i + 1) + k
    <2> SUFFICES ASSUME m + 1 <= n
                 PROVE  begin[m + 1].before \in Nat /\ begin[m + 1].before <= begin[i + 1].before
      BY <1>1
    <2>1. m \in DOMAIN Replies /\ m < n /\ begin[m].before \in Nat /\ begin[m].before <= begin[i + 1].before
      BY <1>1, <1>5
    <2> HIDE DEF m
    <2> DEFINE d == seen[Replies[m]["blocks"].at]
    <2>2. PICK limit, top : PageAt(begin, m, limit, top)
      BY <1>2, <2>1
    <2>3. begin[m + 1].before = top - limit /\ limit <= top
      BY <2>1, <2>2 DEF PageAt
    <2>4. Version(d) /\ limit \in Nat \ {0} /\ top \in Int /\ top = TopOf(d, Before(begin[m], d))
      BY <2>2 DEF PageAt, Shows
    <2> HIDE DEF d
    <2>5. Before(begin[m], d) = begin[m].before
      <3>1. begin[m].before # Null
        BY <2>1, RequestsAssumption
      <3> QED
        BY <2>4, <3>1, BeforeIs
    <2>6. top <= begin[m].before
      BY <2>1, <2>4, <2>5, VersionHeight DEF TopOf
    <2> QED
      BY <1>3, <2>1, <2>3, <2>4, <2>6
  <1> HIDE DEF S
  <1>6. j - (i + 1) \in Nat /\ (i + 1) + (j - (i + 1)) = j /\ j <= n
    BY <1>1
  <1>7. j - (i + 1) \in S
    BY <1>4, <1>5, <1>6, SetInduction
  <1> QED
    BY <1>3, <1>6, <1>7 DEF S

Listed(i) == Above(Replies[i]["blocks"].val, Replies[i]["params"].val.limit)

\* The blocks of a page, and its top.
LEMMA ListedAre ==
    ASSUME NEW begin, NEW i, NEW limit, NEW top, PageAt(begin, i, limit, top)
    PROVE  LET d == seen[Replies[i]["blocks"].at] IN
           /\ Version(d) /\ limit \in Nat \ {0} /\ top \in Int /\ top <= d.cursor.height
           /\ \A b : b \in Listed(i) <=> b \in d.blocks /\ top - limit < b.height /\ b.height <= top
           /\ begin[i].before \in Nat =>
                top = IF begin[i].before <= d.cursor.height THEN begin[i].before ELSE d.cursor.height
  <1> DEFINE d == seen[Replies[i]["blocks"].at]
             rows == Replies[i]["blocks"].val
  <1>1. /\ Version(d) /\ limit \in Nat \ {0} /\ top \in Int /\ top = TopOf(d, Before(begin[i], d))
        /\ top <= d.cursor.height
        /\ rows = Within(d, top - limit, top)
        /\ Listed(i) = { b \in rows : top - limit < b.height }
    BY DEF PageAt, Shows, Listed
  <1> HIDE DEF d, rows
  <1>2. \A b \in d.blocks : b.height \in Nat
    BY <1>1, BlocksOf
  <1>3. \A b : b \in Listed(i) <=> b \in d.blocks /\ top - limit < b.height /\ b.height <= top
    BY <1>1, <1>2 DEF Within
  <1>4. ASSUME begin[i].before \in Nat
        PROVE  top = IF begin[i].before <= d.cursor.height THEN begin[i].before ELSE d.cursor.height
    <2>1. begin[i].before # Null
      BY <1>4, RequestsAssumption
    <2>2. Before(begin[i], d) = begin[i].before
      BY <1>1, <2>1, BeforeIs
    <2> QED
      BY <1>1, <2>2 DEF TopOf
  <1> QED
    BY <1>1, <1>3, <1>4 DEF d

\* A later page is below an earlier one.
LEMMA PagesFall ==
    ASSUME ReaderInv, req # Null, req.op = "blocks", NEW begin, Following(begin),
           NEW i \in DOMAIN Replies, NEW j \in DOMAIN Replies, i < j, NEW b \in Listed(i), NEW c \in Listed(j)
    PROVE  c.height < b.height
  <1> DEFINE d == seen[Replies[i]["blocks"].at]
             e == seen[Replies[j]["blocks"].at]
  <1>1. begin[i + 1].before \in Nat /\ begin[j].before \in Nat /\ begin[j].before <= begin[i + 1].before
    BY CursorFalls
  <1>2. PICK limit, top : PageAt(begin, i, limit, top)
    BY CursorStep
  <1>3. PICK more, low : PageAt(begin, j, more, low)
    BY CursorStep
  <1>4. begin[i + 1].before = top - limit
    <2>1. i < Len(walk) + 1
      BY DEF Following
    <2> QED
      BY <1>2, <2>1 DEF PageAt
  <1>5. b \in d.blocks /\ top - limit < b.height /\ Version(d)
    BY <1>2, ListedAre
  <1>6. /\ c \in e.blocks /\ c.height <= low /\ Version(e)
        /\ low = IF begin[j].before <= e.cursor.height THEN begin[j].before ELSE e.cursor.height
    BY <1>1, <1>3, ListedAre
  <1> HIDE DEF d, e
  <1>7. b.height \in Nat /\ c.height \in Nat /\ e.cursor.height \in Int
    BY <1>5, <1>6, BlocksOf, VersionHeight
  <1> QED
    BY <1>1, <1>4, <1>5, <1>6, <1>7

\* The versions of a walk's pages of blocks, in order.
LEMMA PagesGrow ==
    ASSUME ReaderInv, req # Null, req.op = "blocks", Grown, NEW begin, Following(begin),
           NEW i \in DOMAIN Replies, i < Len(walk) + 1
    PROVE  seen[Replies[i]["blocks"].at].blocks \subseteq seen[Replies[i + 1]["blocks"].at].blocks
  <1> DEFINE H == Handler(req)
  <1>1. H = <<"params", "total", "blocks">>
    BY DEF Handler, HandleBlocks
  <1>2. i \in 1..(Len(walk) + 1) /\ i + 1 \in DOMAIN Replies /\ i + 1 \in 1..(Len(walk) + 1) /\ i < i + 1
    BY DEF Following
  <1>3. ASSUME NEW j \in DOMAIN Replies
        PROVE  "blocks" \in DOMAIN Replies[j] /\ Replies[j]["blocks"].at \in 1..Len(seen)
    <2>1. DOMAIN Replies[j] = { H[k] : k \in 1..Len(H) }
      BY ReplyOf
    <2> HIDE DEF H
    <2>2. "blocks" \in DOMAIN Replies[j]
      BY <1>1, <2>1
    <2> QED
      BY <2>2, ReplyOf
  <1>4. Replies[i]["blocks"].at <= Replies[i + 1]["blocks"].at
    <2>1. "blocks" \in DOMAIN Replies[i] /\ "blocks" \in DOMAIN Replies[i + 1]
      BY <1>2, <1>3
    <2> QED
      BY <1>2, <2>1 DEF Following
  <1>5. Len(seen) \in Nat
    BY Serving
  <1> DEFINE a == Replies[i]["blocks"].at
             z == Replies[i + 1]["blocks"].at
  <1>6. a \in 1..Len(seen) /\ z \in 1..Len(seen) /\ a <= z
    BY <1>2, <1>3, <1>4
  <1> HIDE DEF a, z
  <1>7. a \in 1..Len(seen) /\ z \in a..Len(seen) /\ 1 \in Nat
    BY <1>5, <1>6
  <1>8. seen[a].blocks \subseteq seen[z].blocks
    BY <1>5, <1>7, GrownBlocks DEF Grown
  <1> QED
    BY <1>8 DEF a, z

\* The block below one on a page is on that page or on the next.
LEMMA PagesMeet ==
    ASSUME ReaderInv, req # Null, req.op = "blocks", Grown, NextOf(req, got) = Null,
           NEW begin, Following(begin), NEW i \in DOMAIN Replies, NEW b \in Listed(i), Prev[b.hash] # NoBlock
    PROVE  \E j \in DOMAIN Replies : \E c \in Listed(j) : c.hash = Prev[b.hash]
  <1> DEFINE d == seen[Replies[i]["blocks"].at]
             n == Len(walk) + 1
  <1>1. PICK limit, top : PageAt(begin, i, limit, top)
    BY CursorStep
  <1>2. /\ Version(d) /\ limit \in Nat \ {0} /\ top \in Int
        /\ \A x : x \in Listed(i) <=> x \in d.blocks /\ top - limit < x.height /\ x.height <= top
    BY <1>1, ListedAre
  <1>3. PICK c \in d.blocks : c.hash = Prev[b.hash] /\ c.height = b.height - 1
    <2>1. b \in d.blocks
      BY <1>2
    <2> HIDE DEF d
    <2>2. b.hash \in HashesIn(d) /\ b.height = Height[b.hash] /\ IsBranch(HashesIn(d)) /\ HashesIn(d) \in SUBSET Block
      BY <1>2, <2>1, BlocksOf, VersionFacts
    <2>3. Prev[b.hash] \in HashesIn(d) /\ Height[Prev[b.hash]] = Height[b.hash] - 1
      BY <2>2, ConstantsAssumption DEF IsBranch
    <2>4. PICK c \in d.blocks : c.hash = Prev[b.hash] /\ c.height = Height[Prev[b.hash]]
      BY <1>2, <2>3, BlocksOf
    <2> QED
      BY <2>2, <2>3, <2>4
  <1>4. b.height \in Nat /\ c.height \in Nat /\ top - limit < b.height /\ b.height <= top
    BY <1>2, <1>3, BlocksOf
  <1>5. CASE top - limit < c.height
    <2>1. c \in Listed(i)
      BY <1>2, <1>3, <1>4, <1>5
    <2> QED
      BY <1>3, <2>1
  <1>6. CASE ~(top - limit < c.height)
    <2>1. c.height = top - limit /\ limit <= top
      BY <1>2, <1>3, <1>4, <1>6
    <2>2. i < n
      <3>1. n \in Nat /\ i \in 1..n /\ Replies[n] = got
        BY DEF Following
      <3>2. ASSUME i = n PROVE FALSE
        <4>1. NextOf(req, Replies[i]) = top - limit
          BY <1>1, <2>1 DEF PageAt, Shows
        <4> QED
          BY <1>2, <3>1, <3>2, <4>1, RequestsAssumption
      <3> QED
        BY <3>1, <3>2
    <2> DEFINE j == i + 1
               e == seen[Replies[j]["blocks"].at]
    <2>3. j \in DOMAIN Replies /\ begin[j].before = c.height
      <3>1. begin[j].before = top - limit
        BY <1>1, <2>2 DEF PageAt
      <3>2. j \in DOMAIN Replies
        BY <2>2 DEF Following
      <3> QED
        BY <2>1, <3>1, <3>2
    <2>4. c \in e.blocks
      BY <1>3, <2>2, PagesGrow
    <2>5. PICK more, low : PageAt(begin, j, more, low)
      BY <2>3, CursorStep
    <2>6. /\ Version(e) /\ more \in Nat \ {0}
          /\ \A x : x \in Listed(j) <=> x \in e.blocks /\ low - more < x.height /\ x.height <= low
          /\ low = IF c.height <= e.cursor.height THEN c.height ELSE e.cursor.height
      BY <1>4, <2>3, <2>5, ListedAre
    <2> HIDE DEF e, j, d
    <2>7. low = c.height
      BY <2>4, <2>6, BlocksOf
    <2>8. c \in Listed(j)
      BY <1>4, <2>4, <2>6, <2>7
    <2> QED
      BY <1>3, <2>3, <2>8
  <1> QED
    BY <1>5, <1>6

\* The walk: its pages do not overlap; of versions that grew they fit together.
LEMMA CursorReplies ==
    ASSUME ReaderInv
    PROVE  CursorWalkExact
  <1> DEFINE all == UNION { Listed(i) : i \in DOMAIN Replies }
  <1> SUFFICES ASSUME Done, ~Failed(got), req.op = "blocks"
               PROVE  /\ \A i, j \in DOMAIN Replies : i < j =>
                           \A b \in Listed(i), c \in Listed(j) : c.height < b.height
                      /\ Grown /\ AtEnd => \A b \in all : \/ Prev[b.hash] = NoBlock
                                                          \/ \E c \in all : c.hash = Prev[b.hash]
    BY DEF CursorWalkExact, Listed
  <1>1. req # Null
    BY DEF Done
  <1>2. PICK begin : Following(begin)
    BY WalkFollowed
  <1>3. \A i, j \in DOMAIN Replies : i < j =>
          \A b \in Listed(i), c \in Listed(j) : c.height < b.height
    BY <1>1, <1>2, PagesFall
  <1>4. ASSUME Grown, AtEnd, NEW b \in all, Prev[b.hash] # NoBlock
        PROVE  \E c \in all : c.hash = Prev[b.hash]
    <2>1. PICK i \in DOMAIN Replies : b \in Listed(i)
      OBVIOUS
    <2>2. NextOf(req, got) = Null
      BY <1>4 DEF AtEnd
    <2>3. \E j \in DOMAIN Replies : \E c \in Listed(j) : c.hash = Prev[b.hash]
      BY <1>1, <1>2, <1>4, <2>1, <2>2, PagesMeet
    <2> QED
      BY <2>3
  <1> QED
    BY <1>3, <1>4

\* Following the cursor of /blocks no height is listed twice, and while no block is
\* rolled back the pages are one branch down to the genesis block.
THEOREM CursorWalkCorrect == ApiSpec => []CursorWalkExact
  <1>1. ReaderInv => CursorWalkExact
    BY CursorReplies
  <1> QED
    BY <1>1, RepliesRead, PTL

-------------------------------------------------------------------------------
(* The rows of a listing *)

\* The rows of L are among those of M, at the same place in the order.
Kept(L, M) ==
    \E m : /\ \A s \in L : m[s] \in M /\ Id(m[s]) = Id(s) /\ Key(req.op, m[s]) = Key(req.op, s)
           /\ \A s, t \in L : m[s] = m[t] => s = t

\* Rows that stay as they are are kept.
LEMMA SubsetKept ==
    ASSUME NEW L, NEW M, L \subseteq M
    PROVE  Kept(L, M)
  <1> DEFINE m == [s \in L |-> s]
  <1>1. /\ \A s \in L : m[s] \in M /\ m[s] = s
        /\ \A s, t \in L : m[s] = m[t] => s = t
    OBVIOUS
  <1> HIDE DEF m
  <1>2. \A s \in L : m[s] \in M /\ Id(m[s]) = Id(s) /\ Key(req.op, m[s]) = Key(req.op, s)
    BY <1>1
  <1> QED
    BY <1>1, <1>2 DEF Kept

\* As many rows before a key as there were.
RankOf(L, key) == Cardinality({ s \in L : Precedes(Key(req.op, s), key) })

\* A row moves down a listing only: rows that are kept before it count again.
LEMMA RankGrows ==
    ASSUME NEW L, NEW M, IsFiniteSet(L), IsFiniteSet(M), Kept(L, M), NEW key
    PROVE  RankOf(L, key) \in Nat /\ RankOf(M, key) \in Nat /\ RankOf(L, key) <= RankOf(M, key)
  <1> DEFINE A == { s \in L : Precedes(Key(req.op, s), key) }
             B == { s \in M : Precedes(Key(req.op, s), key) }
  <1>1. PICK m : /\ \A s \in L : m[s] \in M /\ Id(m[s]) = Id(s) /\ Key(req.op, m[s]) = Key(req.op, s)
                 /\ \A s, t \in L : m[s] = m[t] => s = t
    BY DEF Kept
  <1>2. A \in SUBSET L /\ B \in SUBSET M
    OBVIOUS
  <1>3. \A s \in A : m[s] \in B
    <2> TAKE s \in A
    <2>1. m[s] \in M /\ Key(req.op, m[s]) = Key(req.op, s) /\ Precedes(Key(req.op, s), key)
      BY <1>1
    <2> QED
      BY <2>1
  <1>4. IsFiniteSet(A) /\ IsFiniteSet(B)
    BY <1>2, FS_Subset
  <1>5. RankOf(L, key) = Cardinality(A) /\ RankOf(M, key) = Cardinality(B)
    BY DEF RankOf
  <1> HIDE DEF A, B
  <1>6. { m[s] : s \in A } \in SUBSET B
    BY <1>3
  <1>7. \A s, t \in A : m[s] = m[t] => s = t
    BY <1>1, <1>2
  <1>8. Cardinality({ m[s] : s \in A }) = Cardinality(A)
    BY <1>4, <1>7, ImageSize
  <1>9. Cardinality({ m[s] : s \in A }) <= Cardinality(B) /\ Cardinality(A) \in Nat /\ Cardinality(B) \in Nat
    BY <1>4, <1>6, FS_Subset, FS_CardinalityType
  <1> QED
    BY <1>5, <1>8, <1>9

\* Nothing comes before itself: a key consists of numbers.
LEMMA KeyIrreflexive ==
    ASSUME NEW x, \A k \in DOMAIN x : x[k] \in Int
    PROVE  ~Precedes(x, x)
  BY DEF Precedes

\* A row has fewer rows before it than there are rows.
LEMMA RankBelow ==
    ASSUME NEW L, IsFiniteSet(L), NEW s \in L, \A k \in DOMAIN Key(req.op, s) : Key(req.op, s)[k] \in Int
    PROVE  RankOf(L, Key(req.op, s)) \in Nat /\ RankOf(L, Key(req.op, s)) < Cardinality(L)
  <1> DEFINE A == { t \in L : Precedes(Key(req.op, t), Key(req.op, s)) }
  <1>1. A \in SUBSET L /\ s \notin A
    BY KeyIrreflexive
  <1>2. RankOf(L, Key(req.op, s)) = Cardinality(A)
    BY DEF RankOf
  <1> HIDE DEF A
  <1>3. A \subseteq L /\ A # L
    BY <1>1
  <1>4. IsFiniteSet(A) /\ Cardinality(A) < Cardinality(L) /\ Cardinality(A) \in Nat
    BY <1>3, FS_Subset, FS_CardinalityType
  <1> QED
    BY <1>2, <1>4

\* Some page covers a rank that does not fall, if the last page reaches beyond it.
LEMMA SomePageCovers ==
    ASSUME NEW n \in Nat \ {0}, NEW limit \in Nat \ {0}, NEW offset, NEW rank,
           offset[1] = 0, \A i \in 1..n : offset[i] \in Nat /\ rank[i] \in Nat,
           \A i \in 1..n : i < n => offset[i + 1] = offset[i] + limit /\ rank[i] <= rank[i + 1],
           rank[n] < offset[n] + limit
    PROVE  \E i \in 1..n : offset[i] <= rank[i] /\ rank[i] < offset[i] + limit
  <1> DEFINE S == { i \in 1..n : rank[i] < offset[i] + limit }
  <1>1. n \in S /\ S \in SUBSET Nat
    OBVIOUS
  <1>2. PICK i \in S : \A j \in S : i <= j
    <2> HIDE DEF S
    <2> QED
      BY <1>1, LeastNat
  <1>3. CASE i = 1
    BY <1>3
  <1>4. CASE i # 1
    <2> DEFINE j == i - 1
    <2>1. j \in 1..n /\ j < n /\ j + 1 = i /\ j \notin S
      BY <1>2, <1>4
    <2>2. offset[i] = offset[j] + limit /\ rank[j] <= rank[i] /\ ~(rank[j] < offset[j] + limit)
      BY <2>1
    <2>3. offset[i] <= rank[i]
      BY <2>1, <2>2
    <2> QED
      BY <2>3
  <1> QED
    BY <1>3, <1>4

\* The rows of the tables: as many as one can count, with numbers in their keys.
Numbers(x) == \A k \in DOMAIN x : x[k] \in Int

\* Issuances and assets can be counted and ordered.
LEMMA IssuancesCounted ==
    ASSUME NEW d, Version(d)
    PROVE  /\ IsFiniteSet(d.issuances) /\ IsFiniteSet(d.assets)
           /\ \A i \in d.issuances : i.txid \in Tx /\ i.height \in Nat /\ i.vin \in Int
           /\ \A a \in d.assets : Rank[a.asset] \in Int /\ a.height \in Nat
  <1> DEFINE B == HashesIn(d)
             P == PlacesIn(txs, B)
             I == IssuingIn(txs, P)
             O == OriginsIn(txs, P)
             m == [i \in I |-> RowOf(i)]
             n == [i \in O |-> FullRow(P, i)]
  <1>1. /\ txs \in Contents /\ B \in SUBSET Block /\ IsFiniteSet(B)
        /\ d.issuances = IssuanceRowsOf(txs, P) /\ d.assets = AssetRowsOf(txs, P)
    BY VersionFacts
  <1>2. IsFiniteSet(I) /\ IsFiniteSet(O)
    <2>1. IsFiniteSet(I)
      BY <1>1, IssuingFinite
    <2>2. O \in SUBSET I
      BY DEF OriginsIn
    <2> QED
      BY <2>1, <2>2, FS_Subset
  <1>3. \A x : x \in d.issuances <=> \E i \in I : x = m[i]
    BY <1>1, IssuanceRowsAre
  <1>4. \A x : x \in d.assets <=> \E i \in O : x = n[i]
    BY <1>1, AssetRowsAre
  <1>5. ASSUME NEW i \in I
        PROVE  /\ i[1] \in P /\ i[2] \in IssuingInputs(TxIn(txs, i[1])) /\ i = <<i[1], i[2]>>
               /\ TxIn(txs, i[1]) \in Tx /\ HeightAt(i[1]) \in Nat /\ i[2] \in Int
    <2>1. PICK q \in P : \E v \in IssuingInputs(TxIn(txs, q)) : i = <<q, v>>
      BY IssuingAre
    <2>2. i[1] = q /\ i[2] \in IssuingInputs(TxIn(txs, q)) /\ i = <<i[1], i[2]>>
      BY <2>1
    <2>3. TxIn(txs, q) \in Tx /\ HeightAt(q) \in Nat
      BY <1>1, PlaceFacts
    <2>4. i[2] \in Int
      BY <2>2, <2>3, TransactionsAssumption DEF IssuingInputs
    <2> QED
      BY <2>2, <2>3, <2>4
  <1>6. ASSUME NEW i \in I PROVE m[i].txid \in Tx /\ m[i].height \in Nat /\ m[i].vin \in Int
    <2>1. RowOf(i).txid = TxIn(txs, i[1]) /\ RowOf(i).height = HeightAt(i[1]) /\ RowOf(i).vin = i[2]
      BY DEF RowOf, IssuanceRow
    <2> QED
      BY <1>5, <2>1
  <1>7. ASSUME NEW i \in O PROVE Rank[n[i].asset] \in Int /\ n[i].height \in Nat
    <2>1. FullRow(P, i).asset = IssuanceIn(txs, i).asset /\ FullRow(P, i).height = HeightAt(i[1])
      BY RefreshedRow DEF FullRow
    <2>2. i \in I
      BY DEF OriginsIn
    <2>3. Rank[Vin[TxIn(txs, i[1])][i[2]].issuance.asset] \in Int
      BY <1>5, <2>2, RowsAssumption
    <2>4. IssuanceIn(txs, i) = Vin[TxIn(txs, i[1])][i[2]].issuance
      BY DEF IssuanceIn
    <2> QED
      BY <1>5, <2>1, <2>2, <2>3, <2>4
  <1> HIDE DEF m, n, I, O, P
  <1>8. d.issuances = { m[i] : i \in I } /\ d.assets = { n[i] : i \in O }
    BY <1>3, <1>4
  <1>9. IsFiniteSet(d.issuances) /\ IsFiniteSet(d.assets)
    BY <1>2, <1>8, ImageFinite
  <1> QED
    BY <1>3, <1>4, <1>6, <1>7, <1>9

\* The listings, spelt out.
LEMMA ListingCases ==
    ASSUME NEW d
    PROVE  /\ req.op = "block" => Listing(req, got, d) = TransactionsInBlock(d, BlockHeight(req, got))
           /\ req.op = "address" => Listing(req, got, d) = AddressTransactions(d, req.id)
           /\ req.op = "asset" => Listing(req, got, d) = AssetIssuances(d, req.id)
           /\ req.op = "utxos" => Listing(req, got, d) = AddressUTXOs(d, req.id)
           /\ req.op = "assets" => Listing(req, got, d) = d.assets
           /\ req.op = "assettxs" => Listing(req, got, d) = AssetTransactions(d, req.id)
           /\ req.op = "mempool" => Listing(req, got, d) = d.mempool
  BY DEF Listing, AssetList, Mempool

\* Every listing is finite and ordered by numbers.
LEMMA ListingCounted ==
    ASSUME NEW d, Version(d), req.op \in Listings
    PROVE  /\ IsFiniteSet(Listing(req, got, d))
           /\ \A s \in Listing(req, got, d) : Numbers(Key(req.op, s))
  <1> DEFINE L == Listing(req, got, d)
  <1>1. ASSUME req.op \in {"block", "address", "assettxs"}
        PROVE  IsFiniteSet(L) /\ \A s \in L : Numbers(Key(req.op, s))
    <2>1. L \in SUBSET d.transactions
      BY <1>1, ListingCases DEF TransactionsInBlock, AddressTransactions, AssetTransactions
    <2> HIDE DEF L
    <2>2. IsFiniteSet(L)
      BY <2>1, TransactionsFinite, FS_Subset
    <2>3. ASSUME NEW s \in L PROVE Numbers(Key(req.op, s))
      <3>1. s.height \in Nat /\ s.position \in Nat
        BY <2>1, TransactionsFinite
      <3>2. Key(req.op, s) = IF req.op = "block" THEN <<s.position>> ELSE <<-s.height, -s.position>>
        BY <1>1 DEF Key
      <3> QED
        BY <3>1, <3>2 DEF Numbers
    <2> QED
      BY <2>2, <2>3
  <1>2. ASSUME req.op = "asset"
        PROVE  IsFiniteSet(L) /\ \A s \in L : Numbers(Key(req.op, s))
    <2>1. L \in SUBSET d.issuances
      BY <1>2, ListingCases DEF AssetIssuances
    <2> HIDE DEF L
    <2>2. IsFiniteSet(L)
      BY <2>1, IssuancesCounted, FS_Subset
    <2>3. ASSUME NEW s \in L PROVE Numbers(Key(req.op, s))
      <3>1. s.height \in Nat /\ Rank[s.txid] \in Int /\ s.vin \in Int
        BY <2>1, IssuancesCounted, RowsAssumption
      <3>2. Key(req.op, s) = <<-s.height, Rank[s.txid], s.vin>>
        BY <1>2 DEF Key
      <3> QED
        BY <3>1, <3>2 DEF Numbers
    <2> QED
      BY <2>2, <2>3
  <1>3. ASSUME req.op = "utxos"
        PROVE  IsFiniteSet(L) /\ \A s \in L : Numbers(Key(req.op, s))
    <2>1. L \in SUBSET d.outputs
      BY <1>3, ListingCases DEF AddressUTXOs, OutputsTo
    <2> HIDE DEF L
    <2>2. IsFiniteSet(L)
      BY <2>1, VersionOutputsFinite, FS_Subset
    <2>3. ASSUME NEW s \in L PROVE Numbers(Key(req.op, s))
      <3>1. s.txid \in Tx /\ s.vout \in DOMAIN Vout[s.txid]
            /\ \E q \in PlacesIn(txs, HashesIn(d)) : s.height = HeightAt(q)
        BY <2>1, OutputRows
      <3>2. s.height \in Nat
        BY <3>1, VersionFacts, PlaceFacts
      <3>3. s.vout \in Nat /\ Rank[s.txid] \in Int
        BY <3>1, TransactionsAssumption, RowsAssumption
      <3>4. Key(req.op, s) = <<-s.height, Rank[s.txid], s.vout>>
        BY <1>3 DEF Key
      <3> QED
        BY <3>2, <3>3, <3>4 DEF Numbers
    <2> QED
      BY <2>2, <2>3
  <1>4. ASSUME req.op = "assets"
        PROVE  IsFiniteSet(L) /\ \A s \in L : Numbers(Key(req.op, s))
    <2>1. L = d.assets
      BY <1>4, ListingCases
    <2> HIDE DEF L
    <2>2. ASSUME NEW s \in L PROVE Numbers(Key(req.op, s))
      <3>1. s.height \in Nat /\ Rank[s.asset] \in Int
        BY <2>1, IssuancesCounted
      <3>2. Key(req.op, s) = <<-s.height, Rank[s.asset]>>
        BY <1>4 DEF Key
      <3> QED
        BY <3>1, <3>2 DEF Numbers
    <2> QED
      BY <2>1, <2>2, IssuancesCounted
  <1>5. ASSUME req.op = "mempool"
        PROVE  IsFiniteSet(L) /\ \A s \in L : Numbers(Key(req.op, s))
    <2>1. L = d.mempool /\ MempoolListed(d)
      BY <1>5, ListingCases DEF Version
    <2> HIDE DEF L
    <2>2. ASSUME NEW s \in L PROVE Numbers(Key(req.op, s))
      <3>1. Rank[s] \in Int
        BY <2>1 DEF MempoolListed
      <3>2. Key(req.op, s) = <<Rank[s]>>
        BY <1>5 DEF Key
      <3> QED
        BY <3>1, <3>2 DEF Numbers
    <2> QED
      BY <2>1, <2>2 DEF MempoolListed
  <1> QED
    BY <1>1, <1>2, <1>3, <1>4, <1>5 DEF Listings

\* The histories only gain rows while no block is rolled back.
LEMMA TablesGrow ==
    ASSUME NEW d, Version(d), NEW e, Version(e), d.blocks \subseteq e.blocks
    PROVE  /\ d.transactions \subseteq e.transactions /\ d.addressTxs \subseteq e.addressTxs
           /\ d.issuances \subseteq e.issuances
           /\ \A o \in d.outputs : \E p \in e.outputs : p.txid = o.txid /\ p.vout = o.vout
  <1> DEFINE P == PlacesIn(txs, HashesIn(d))
             Q == PlacesIn(txs, HashesIn(e))
  <1>1. P \subseteq Q
    BY GrownVersion
  <1>2. /\ d.transactions = TransactionsOf(txs, P) /\ e.transactions = TransactionsOf(txs, Q)
        /\ d.addressTxs = AddressTxsOf(txs, P) /\ e.addressTxs = AddressTxsOf(txs, Q)
        /\ d.issuances = IssuanceRowsOf(txs, P) /\ e.issuances = IssuanceRowsOf(txs, Q)
    BY VersionFacts
  <1>3. OnBranch(d) = { TxIn(txs, q) : q \in P } /\ OnBranch(e) = { TxIn(txs, q) : q \in Q }
    BY OnBranchAre
  <1> HIDE DEF P, Q
  <1>4. d.transactions \subseteq e.transactions
    BY <1>1, <1>2 DEF TransactionsOf
  <1>5. d.addressTxs \subseteq e.addressTxs
    BY <1>1, <1>2, AddressTxsAre
  <1>6. d.issuances \subseteq e.issuances
    <2>1. \A i : i \in IssuingIn(txs, P) => i \in IssuingIn(txs, Q)
      BY <1>1, IssuingAre
    <2> QED
      BY <1>2, <2>1, IssuanceRowsAre
  <1>7. ASSUME NEW o \in d.outputs PROVE \E p \in e.outputs : p.txid = o.txid /\ p.vout = o.vout
    <2>1. o.txid \in OnBranch(d) /\ o.vout \in DOMAIN Vout[o.txid]
      BY OutputRows
    <2>2. o.txid \in OnBranch(e)
      BY <1>1, <1>3, <2>1
    <2> QED
      BY <2>1, <2>2, OutputThere
  <1> QED
    BY <1>4, <1>5, <1>6, <1>7

\* An asset keeps its identifier and the height of its first issuance.
LEMMA AssetsKept ==
    ASSUME NEW d, Version(d), NEW e, Version(e), d.blocks \subseteq e.blocks, req.op = "assets"
    PROVE  Kept(d.assets, e.assets)
  <1> DEFINE P == PlacesIn(txs, HashesIn(d))
             Q == PlacesIn(txs, HashesIn(e))
             m == [a \in d.assets |-> CHOOSE z \in e.assets : z.asset = a.asset /\ z.height = a.height]
  <1>1. P \subseteq Q
    BY GrownVersion
  <1>2. d.assets = AssetRowsOf(txs, P) /\ e.assets = AssetRowsOf(txs, Q)
    BY VersionFacts
  <1>3. \A R, o : FullRow(R, o).asset = IssuanceIn(txs, o).asset /\ FullRow(R, o).height = HeightAt(o[1])
    BY RefreshedRow DEF FullRow
  <1>4. ASSUME NEW a \in d.assets PROVE \E z \in e.assets : z.asset = a.asset /\ z.height = a.height
    <2>1. PICK o \in OriginsIn(txs, P) : a = FullRow(P, o)
      BY <1>2, AssetRowsAre
    <2>2. o \in OriginsIn(txs, Q)
      BY <1>1, OriginsAre
    <2>3. FullRow(Q, o) \in e.assets
      BY <1>2, <2>2, AssetRowsAre
    <2> QED
      BY <1>3, <2>1, <2>3
  <1>5. ASSUME NEW a \in d.assets, NEW z \in d.assets, a.asset = z.asset PROVE a = z
    <2>1. PICK o \in OriginsIn(txs, P) : a = FullRow(P, o)
      BY <1>2, AssetRowsAre
    <2>2. PICK p \in OriginsIn(txs, P) : z = FullRow(P, p)
      BY <1>2, AssetRowsAre
    <2>3. SameAsset(txs, o, p)
      BY <1>3, <1>5, <2>1, <2>2 DEF SameAsset
    <2>4. o = p
      BY <2>3, VersionFacts, OriginRules
    <2> QED
      BY <2>1, <2>2, <2>4
  <1>6. ASSUME NEW a \in d.assets PROVE m[a] \in e.assets /\ m[a].asset = a.asset /\ m[a].height = a.height
    <2>1. m[a] = CHOOSE z \in e.assets : z.asset = a.asset /\ z.height = a.height
      OBVIOUS
    <2> HIDE DEF m
    <2> QED
      BY <1>4, <2>1
  <1> HIDE DEF m, P, Q
  <1>7. \A a : Id(a) = a.asset /\ Key(req.op, a) = <<-a.height, Rank[a.asset]>>
    BY DEF Id, Key
  <1>8. \A a \in d.assets : m[a] \in e.assets /\ Id(m[a]) = Id(a) /\ Key(req.op, m[a]) = Key(req.op, a)
    BY <1>6, <1>7
  <1>9. \A a, z \in d.assets : m[a] = m[z] => a = z
    BY <1>5, <1>6
  <1> QED
    BY <1>8, <1>9 DEF Kept

\* While blocks are only added, a history keeps its rows and their order keys.
LEMMA HistoryKept ==
    ASSUME NEW d, Version(d), NEW e, Version(e), d.blocks \subseteq e.blocks, req.op \in Histories
    PROVE  Kept(Listing(req, got, d), Listing(req, got, e))
  <1> DEFINE L == Listing(req, got, d)
             M == Listing(req, got, e)
  <1>1. CASE req.op = "assets"
    BY <1>1, AssetsKept, ListingCases
  <1>2. CASE req.op # "assets"
    <2>1. L \subseteq M
      <3>1. ASSUME req.op = "block" PROVE L \subseteq M
        <4>1. L = TransactionsInBlock(d, BlockHeight(req, got)) /\ M = TransactionsInBlock(e, BlockHeight(req, got))
          BY <3>1, ListingCases
        <4> HIDE DEF L, M
        <4> QED
          BY <4>1, TablesGrow DEF TransactionsInBlock
      <3>2. ASSUME req.op = "address" PROVE L \subseteq M
        <4>1. L = AddressTransactions(d, req.id) /\ M = AddressTransactions(e, req.id)
          BY <3>2, ListingCases
        <4> HIDE DEF L, M
        <4> QED
          BY <4>1, TablesGrow DEF AddressTransactions
      <3>3. ASSUME req.op = "asset" PROVE L \subseteq M
        <4>1. L = AssetIssuances(d, req.id) /\ M = AssetIssuances(e, req.id)
          BY <3>3, ListingCases
        <4> HIDE DEF L, M
        <4> QED
          BY <4>1, TablesGrow DEF AssetIssuances
      <3>4. ASSUME req.op = "assettxs" PROVE L \subseteq M
        <4>1. L = AssetTransactions(d, req.id) /\ M = AssetTransactions(e, req.id)
          BY <3>4, ListingCases
        <4> HIDE DEF L, M
        <4>2. \A o, p : p.txid = o.txid /\ p.vout = o.vout => AssetOf(p) = AssetOf(o)
          BY DEF AssetOf
        <4> QED
          BY <4>1, <4>2, TablesGrow DEF AssetTransactions
      <3> HIDE DEF L, M
      <3> QED
        BY <1>2, <3>1, <3>2, <3>3, <3>4 DEF Histories
    <2> QED
      BY <2>1, SubsetKept
  <1> QED
    BY <1>1, <1>2

-------------------------------------------------------------------------------
(* The pages of a listing *)

\* A handler with a page is that of a listing, and has its parameters and its total.
LEMMA ListingHandlers ==
    ASSUME NEW r \in Request
    PROVE  LET H == Handler(r)
               D == { H[k] : k \in 1..Len(H) }
           IN  "page" \in D => /\ r.op \in Listings /\ {"params", "count"} \subseteq D
                               /\ r.op = "block" /\ r.form = "hash" => "resolve" \in D
  <1> DEFINE H == Handler(r)
             D == { H[k] : k \in 1..Len(H) }
  <1>1. r.op \in Operations
    BY RequestsAssumption
  <1>2. ASSUME r.op \in Listings \ {"block"} PROVE "params" \in D /\ "count" \in D
    <2>1. \/ H = <<"params", "counts", "balances", "count", "page">>
          \/ H = <<"record", "assetoutputs", "params", "count", "page">>
          \/ H = <<"params", "count", "page">>
      BY <1>2, HandlerCases DEF Listings
    <2> HIDE DEF H
    <2>2. CASE H = <<"params", "counts", "balances", "count", "page">>
      BY <2>2
    <2>3. CASE H = <<"record", "assetoutputs", "params", "count", "page">>
      BY <2>3
    <2>4. CASE H = <<"params", "count", "page">>
      BY <2>4
    <2> QED
      BY <2>1, <2>2, <2>3, <2>4
  <1>3. ASSUME r.op = "block" PROVE "params" \in D /\ "count" \in D /\ (r.form = "hash" => "resolve" \in D)
    <2>1. H = HandleBlock(r)
      BY <1>3 DEF Handler
    <2> HIDE DEF H
    <2> QED
      BY <2>1 DEF HandleBlock
  <1>4. ASSUME r.op \notin Listings PROVE "page" \notin D
    <2>1. \/ H = HandleTransaction \/ H = HandleBlocks \/ H = HandleRecentTransactions \/ H = HandleOverview
          \/ H = HandleExplorerStatus \/ (r.op = "search" /\ H = HandleSearch(r))
      BY <1>1, <1>4 DEF Handler, Listings, Operations
    <2>2. r.op = "search" => r.form \in {"number", "hex", "text"}
      BY RequestsAssumption
    <2> HIDE DEF H
    <2>3. CASE r.op = "search" /\ H = HandleSearch(r)
      <3>1. H = <<"byheight", "byaddress">> \/ H = HexLookups \/ H = <<"byaddress">>
        BY <2>2, <2>3 DEF HandleSearch
      <3> QED
        BY <3>1 DEF HexLookups
    <2>4. CASE ~(r.op = "search" /\ H = HandleSearch(r))
      BY <2>1, <2>4 DEF HandleTransaction, HandleBlocks, HandleRecentTransactions, HandleOverview,
                        HandleExplorerStatus
    <2> QED
      BY <2>3, <2>4
  <1> HIDE DEF D
  <1>5. "page" \in D => /\ r.op \in Listings /\ {"params", "count"} \subseteq D
                        /\ r.op = "block" /\ r.form = "hash" => "resolve" \in D
    BY <1>2, <1>3, <1>4
  <1> QED
    BY <1>5 DEF D

\* A hash that is found is resolved to the height of its block.
LEMMA ResolvedHeight ==
    ASSUME NEW d, Version(d), NEW h, HeightForHash(d, h) # NotFound
    PROVE  HeightForHash(d, h) = Height[h]
  <1> DEFINE rows == { b.height : b \in { x \in d.blocks : x.hash = h } }
  <1>1. HeightForHash(d, h) = TheRow(rows)
    BY DEF HeightForHash
  <1>2. \A x \in rows : x = Height[h]
    BY BlocksOf
  <1> HIDE DEF rows
  <1>3. TheRow(rows) \in rows
    BY <1>1, RowThere
  <1> QED
    BY <1>1, <1>2, <1>3

\* Reply i of a walk through a listing: one page of the rows of one version.
PageRead(begin, i) ==
    LET r == Replies[i]
        p == PageParams(req.limit, begin[i].offset)
        d == seen[r["count"].at]
        e == seen[r["page"].at]
    IN  /\ r["count"].at \in 1..Len(seen) /\ r["page"].at \in 1..Len(seen)
        /\ Version(d) /\ Version(e)
        /\ p # NotFound /\ Params(req, r) = p
        /\ r["count"].val = Cardinality(Listing(req, got, d))
        /\ r["page"].val = Page(req, p, Listing(req, got, e))
        /\ NextOf(req, r) = NextOffset(p, r["count"].val)

\* The parts of one page of a walk.
LEMMA PageIsRead ==
    ASSUME ReaderInv, Done, "page" \in DOMAIN got, NEW begin, Following(begin), NEW i \in DOMAIN Replies
    PROVE  PageRead(begin, i)
  <1> DEFINE H == Handler(req)
             n == Len(walk) + 1
             r == Replies[i]
             f == begin[i]
             p == PageParams(req.limit, f.offset)
  <1>1. req # Null /\ req \in Request
    BY Serving DEF Done
  <1>2. n \in DOMAIN Replies /\ Replies[n] = got
    BY DEF Following
  <1>3. ASSUME NEW k \in DOMAIN Replies
        PROVE  LET g == Replies[k] IN
               /\ DOMAIN g = { H[j] : j \in 1..Len(H) }
               /\ \A q \in DOMAIN g :
                    /\ g[q].at \in 1..Len(seen) /\ Version(seen[g[q].at]) /\ g[q].val # NotFound
                    /\ q # "status" => g[q].val = Query(txs, req, begin[k], g, q, seen[g[q].at])
    BY <1>1, ReplyOf
  <1>4. DOMAIN got = { H[j] : j \in 1..Len(H) } /\ DOMAIN r = DOMAIN got
    BY <1>2, <1>3
  <1>5. /\ req.op \in Listings /\ {"params", "count", "page"} \subseteq DOMAIN got
        /\ req.op = "block" /\ req.form = "hash" => "resolve" \in DOMAIN got
    BY <1>1, <1>4, ListingHandlers
  <1>6. ASSUME req.op = "block" PROVE BlockHeight(req, r) = BlockHeight(req, got)
    <2>1. CASE req.form = "hash"
      <3>1. ASSUME NEW k \in DOMAIN Replies, "resolve" \in DOMAIN Replies[k]
            PROVE  Replies[k]["resolve"].val = Height[req.id]
        <4> DEFINE g == Replies[k]
                   d == seen[g["resolve"].at]
        <4>1. Version(d) /\ g["resolve"].val # NotFound
              /\ g["resolve"].val = Query(txs, req, begin[k], g, "resolve", d)
          BY <1>3, <3>1
        <4>2. Query(txs, req, begin[k], g, "resolve", d) = HeightForHash(d, req.id)
          BY DEF Query, Lookups
        <4> HIDE DEF d, g
        <4>3. g["resolve"].val = Height[req.id]
          BY <4>1, <4>2, ResolvedHeight
        <4> QED
          BY <4>3 DEF g
      <3>2. "resolve" \in DOMAIN got /\ "resolve" \in DOMAIN r
        BY <1>4, <1>5, <1>6, <2>1
      <3>3. got["resolve"].val = Height[req.id] /\ r["resolve"].val = Height[req.id]
        BY <1>2, <3>1, <3>2
      <3> QED
        BY <2>1, <3>3 DEF BlockHeight
    <2>2. CASE req.form # "hash"
      BY <2>2 DEF BlockHeight
    <2> QED
      BY <2>1, <2>2
  <1> DEFINE d == seen[r["count"].at]
             e == seen[r["page"].at]
  <1>7. /\ r["params"].val = PageParams(req.limit, f.offset) /\ r["params"].val # NotFound
        /\ r["count"].at \in 1..Len(seen) /\ Version(d) /\ r["count"].val = Cardinality(Listing(req, r, d))
        /\ r["page"].at \in 1..Len(seen) /\ Version(e) /\ r["page"].val = Page(req, Params(req, r), Listing(req, r, e))
    <2>1. \A q \in {"params", "count", "page"} :
            /\ r[q].at \in 1..Len(seen) /\ Version(seen[r[q].at]) /\ r[q].val # NotFound
            /\ r[q].val = Query(txs, req, f, r, q, seen[r[q].at])
      BY <1>3, <1>4, <1>5
    <2> HIDE DEF r, f
    <2> QED
      BY <2>1, PagingQueries
  <1>8. \A v : Listing(req, r, v) = Listing(req, got, v)
    <2>1. CASE req.op = "block"
      <3>1. BlockHeight(req, r) = BlockHeight(req, got)
        BY <1>6, <2>1
      <3> HIDE DEF r
      <3>2. \A g, v : Listing(req, g, v) = TransactionsInBlock(v, BlockHeight(req, g))
        BY <2>1 DEF Listing
      <3> QED
        BY <3>1, <3>2
    <2>2. CASE req.op # "block"
      <3> HIDE DEF r
      <3>1. \A v : Listing(req, r, v) = Listing(req, got, v)
        BY <1>5, <2>2 DEF Listing, Listings
      <3> QED
        BY <3>1
    <2> QED
      BY <2>1, <2>2
  <1>9. Params(req, r) = p /\ p # NotFound
    <2>1. req.op # "overview"
      BY <1>5 DEF Listings
    <2> QED
      BY <1>7, <2>1 DEF Params
  <1>10. NextOf(req, r) = NextOffset(p, r["count"].val)
    <2>1. "page" \in DOMAIN r
      BY <1>4
    <2> HIDE DEF r, p
    <2> QED
      BY <1>9, <2>1 DEF NextOf
  <1> HIDE DEF p
  <1>11. r["page"].val = Page(req, p, Listing(req, got, e)) /\ r["count"].val = Cardinality(Listing(req, got, d))
    BY <1>7, <1>8, <1>9
  <1> QED
    BY <1>7, <1>9, <1>10, <1>11 DEF PageRead, p

OffsetAt == [offset : Nat, before : {Null}]
PageLimit == Min({req.limit, MaxPageSize})

\* Where a page begins and ends.
LEMMA PageSpan ==
    ASSUME NEW begin, NEW i, PageRead(begin, i), begin[i] \in OffsetAt, req \in Request, req.op \in Listings
    PROVE  LET p == PageParams(req.limit, begin[i].offset)
               total == Cardinality(Listing(req, got, seen[Replies[i]["count"].at]))
           IN  /\ PageLimit \in Nat \ {0} /\ p.limit = PageLimit /\ p.offset = begin[i].offset
               /\ NextOf(req, Replies[i]) = IF begin[i].offset + PageLimit < total
                                            THEN begin[i].offset + PageLimit ELSE Null
  <1> DEFINE o == begin[i].offset
             p == PageParams(req.limit, o)
             total == Cardinality(Listing(req, got, seen[Replies[i]["count"].at]))
  <1>1. o \in Int
    BY DEF OffsetAt
  <1>2. p # NotFound /\ NextOf(req, Replies[i]) = NextOffset(p, total)
    BY DEF PageRead
  <1> HIDE DEF o, total
  <1>3. p.limit = PageLimit /\ p.limit \in Nat \ {0} /\ p.offset = o
    <2>1. req.op \in Listings \cup {"blocks", "transactions"}
      OBVIOUS
    <2>2. PageParams(req.limit, o) # NotFound
      BY <1>2
    <2> QED
      BY <1>1, <2>1, <2>2, PagingIs DEF PageLimit
  <1> HIDE DEF p
  <1>4. NextOffset(p, total) = IF o + PageLimit < total THEN o + PageLimit ELSE Null
    BY <1>3 DEF NextOffset
  <1> QED
    BY <1>2, <1>3, <1>4 DEF o, p, total

\* Each page begins where the page before it ends.
LEMMA OffsetsAre ==
    ASSUME ReaderInv, Done, "page" \in DOMAIN got, req \in Request, req.op \in Listings,
           NEW begin, Following(begin)
    PROVE  \A i \in DOMAIN Replies :
             /\ begin[i] \in OffsetAt
             /\ i < Len(walk) + 1 => begin[i + 1].offset = begin[i].offset + PageLimit
  <1> DEFINE n == Len(walk) + 1
             S == { k \in Nat : k + 1 <= n => begin[k + 1] \in OffsetAt }
  <1>1. n \in Nat \ {0} /\ DOMAIN Replies = 1..n /\ begin[1] = Start
    BY DEF Following
  <1>2. 0 \in S
    <2>1. 0 + 1 = 1 /\ Start \in OffsetAt
      BY DEF Start, OffsetAt
    <2> QED
      BY <1>1, <2>1
  <1>3. ASSUME NEW i \in DOMAIN Replies, i < n, begin[i] \in OffsetAt
        PROVE  begin[i + 1] \in OffsetAt /\ begin[i + 1].offset = begin[i].offset + PageLimit
    <2>1. NextOf(req, Replies[i]) # Null /\ begin[i + 1] = NextFrom(req, begin[i], Replies[i])
      BY <1>1, <1>3 DEF Following
    <2> DEFINE total == Cardinality(Listing(req, got, seen[Replies[i]["count"].at]))
    <2>2. PageRead(begin, i)
      BY <1>3, PageIsRead
    <2>3. /\ PageLimit \in Nat \ {0}
          /\ NextOf(req, Replies[i]) = IF begin[i].offset + PageLimit < total
                                       THEN begin[i].offset + PageLimit ELSE Null
      BY <1>3, <2>2, PageSpan
    <2> HIDE DEF total
    <2>4. NextOf(req, Replies[i]) = begin[i].offset + PageLimit
      BY <2>1, <2>3
    <2>5. begin[i + 1] = [begin[i] EXCEPT !.offset = begin[i].offset + PageLimit]
      BY <2>1, <2>4 DEF NextFrom, Listings
    <2> QED
      BY <1>3, <2>3, <2>5 DEF OffsetAt
  <1>4. ASSUME NEW k \in Nat, k \in S PROVE k + 1 \in S
    <2> SUFFICES ASSUME (k + 1) + 1 <= n PROVE begin[(k + 1) + 1] \in OffsetAt
      OBVIOUS
    <2>1. k + 1 \in DOMAIN Replies /\ k + 1 < n /\ begin[k + 1] \in OffsetAt
      BY <1>1, <1>4
    <2> QED
      BY <1>3, <2>1
  <1> HIDE DEF S
  <1>5. \A k \in Nat : k \in S
    BY <1>2, <1>4, SetInduction
  <1>6. ASSUME NEW i \in DOMAIN Replies PROVE begin[i] \in OffsetAt
    <2>1. i - 1 \in Nat /\ (i - 1) + 1 = i /\ i <= n
      BY <1>1
    <2>2. i - 1 \in S
      BY <1>5, <2>1
    <2> QED
      BY <2>1, <2>2 DEF S
  <1> QED
    BY <1>3, <1>6

\* What the property asks of the walk: the versions of its pages keep the rows of the first.
Undisturbed ==
    IF req.op \in Histories
    THEN Grown /\ \A i \in DOMAIN Replies : Replies[i]["count"].at = Replies[i]["page"].at
    ELSE Len(seen) = 1

ListingAt(i) == Listing(req, got, seen[Replies[i]["page"].at])

\* Between the statements of a whole walk every row that was there is kept.
LEMMA WalkKeeps ==
    ASSUME ReaderInv, Done, "page" \in DOMAIN got, req \in Request, req.op \in Listings, Undisturbed,
           NEW begin, Following(begin), NEW i \in DOMAIN Replies
    PROVE  /\ Replies[i]["count"].at = Replies[i]["page"].at
           /\ Kept(Listing(req, got, seen[1]), ListingAt(i))
           /\ i < Len(walk) + 1 => Kept(ListingAt(i), ListingAt(i + 1))
  <1> DEFINE n == Len(walk) + 1
             at(k) == Replies[k]["page"].at
  <1>1. n \in Nat \ {0} /\ DOMAIN Replies = 1..n
    BY DEF Following
  <1>2. ASSUME NEW k \in DOMAIN Replies
        PROVE  at(k) \in 1..Len(seen) /\ Replies[k]["count"].at \in 1..Len(seen)
               /\ "page" \in DOMAIN Replies[k]
    <2>1. at(k) \in 1..Len(seen) /\ Replies[k]["count"].at \in 1..Len(seen)
      BY <1>2, PageIsRead DEF PageRead
    <2>2. req # Null /\ n \in DOMAIN Replies /\ Replies[n] = got
      BY DEF Done, Following
    <2>3. DOMAIN Replies[k] = DOMAIN got
      <3>1. DOMAIN Replies[k] = { Handler(req)[j] : j \in 1..Len(Handler(req)) }
        BY <1>2, <2>2, ReplyOf
      <3>2. DOMAIN Replies[n] = { Handler(req)[j] : j \in 1..Len(Handler(req)) }
        BY <2>2, ReplyOf
      <3> QED
        BY <2>2, <3>1, <3>2
    <2> QED
      BY <2>1, <2>3
  <1>3. Len(seen) \in Nat \ {0} /\ \A k \in 1..Len(seen) : Version(seen[k])
    BY Serving DEF ReaderInv, Done
  <1>4. i < n => i + 1 \in DOMAIN Replies /\ at(i) <= at(i + 1)
    <2> SUFFICES ASSUME i < n PROVE i + 1 \in DOMAIN Replies /\ at(i) <= at(i + 1)
      OBVIOUS
    <2>1. i + 1 \in DOMAIN Replies /\ i \in 1..n /\ i + 1 \in 1..n /\ i < i + 1
      BY <1>1
    <2>2. "page" \in DOMAIN Replies[i] /\ "page" \in DOMAIN Replies[i + 1]
      BY <1>2, <2>1
    <2> QED
      BY <2>1, <2>2 DEF Following
  <1> HIDE DEF at, n
  <1>5. CASE req.op \in Histories
    <2>1. Grown /\ Replies[i]["count"].at = Replies[i]["page"].at
      BY <1>5 DEF Undisturbed
    <2>2. ASSUME NEW a \in 1..Len(seen), NEW z \in 1..Len(seen), a <= z
          PROVE  Kept(Listing(req, got, seen[a]), Listing(req, got, seen[z]))
      <3>1. seen[a].blocks \subseteq seen[z].blocks
        <4>1. z \in a..Len(seen) /\ 1 \in Nat
          BY <1>3, <2>2
        <4> QED
          BY <1>3, <2>1, <4>1, GrownBlocks DEF Grown
      <3> QED
        BY <1>3, <1>5, <3>1, HistoryKept
    <2>3. 1 \in 1..Len(seen) /\ at(i) \in 1..Len(seen) /\ 1 <= at(i)
      BY <1>2, <1>3
    <2>4. Kept(Listing(req, got, seen[1]), Listing(req, got, seen[at(i)]))
      BY <2>2, <2>3
    <2>5. i < n => Kept(Listing(req, got, seen[at(i)]), Listing(req, got, seen[at(i + 1)]))
      BY <1>2, <1>4, <2>2
    <2> QED
      BY <2>1, <2>4, <2>5 DEF ListingAt, at, n
  <1>6. CASE req.op \notin Histories
    <2>1. Len(seen) = 1
      BY <1>6 DEF Undisturbed
    <2>2. \A k \in DOMAIN Replies : at(k) = 1 /\ Replies[k]["count"].at = 1
      BY <1>2, <2>1
    <2>3. \A L : Kept(L, L)
      BY SubsetKept
    <2>4. ListingAt(i) = Listing(req, got, seen[1])
      BY <2>2 DEF ListingAt, at
    <2>5. i < n => ListingAt(i + 1) = Listing(req, got, seen[1])
      BY <1>4, <2>2 DEF ListingAt, at
    <2>6. Replies[i]["count"].at = Replies[i]["page"].at
      BY <2>2 DEF at
    <2> QED
      BY <2>3, <2>4, <2>5, <2>6 DEF n
  <1> QED
    BY <1>5, <1>6

\* A row that is there when the walk begins is on some page.
LEMMA RowOnPage ==
    ASSUME ReaderInv, AtEnd, "page" \in DOMAIN got, Undisturbed, NEW s \in Listing(req, got, seen[1])
    PROVE  \E i \in DOMAIN Replies : \E r \in Replies[i]["page"].val : Id(r) = Id(s)
  <1> DEFINE n == Len(walk) + 1
             key == Key(req.op, s)
  <1>1. Done /\ ~Failed(got) /\ NextOf(req, got) = Null
    BY DEF AtEnd
  <1>2. req # Null /\ req \in Request /\ req.op \in Listings
    <2>1. req # Null /\ req \in Request
      BY <1>1, Serving DEF Done
    <2>2. DOMAIN got = { Handler(req)[k] : k \in 1..Len(Handler(req)) }
      BY <1>1, ReplyRead
    <2> QED
      BY <2>1, <2>2, ListingHandlers
  <1>3. PICK begin : Following(begin)
    BY <1>1, WalkFollowed
  <1>4. n \in Nat \ {0} /\ DOMAIN Replies = 1..n /\ Replies[n] = got /\ begin[1] = Start
    BY <1>3 DEF Following
  <1>5. ASSUME NEW i \in DOMAIN Replies
        PROVE  /\ PageRead(begin, i) /\ begin[i] \in OffsetAt
               /\ i < n => begin[i + 1].offset = begin[i].offset + PageLimit
               /\ Replies[i]["count"].at = Replies[i]["page"].at
               /\ Kept(Listing(req, got, seen[1]), ListingAt(i))
               /\ i < n => Kept(ListingAt(i), ListingAt(i + 1))
               /\ IsFiniteSet(ListingAt(i)) /\ \A x \in ListingAt(i) : Numbers(Key(req.op, x))
    <2>1. PageRead(begin, i)
      BY <1>1, <1>3, PageIsRead
    <2>2. begin[i] \in OffsetAt /\ (i < n => begin[i + 1].offset = begin[i].offset + PageLimit)
      BY <1>1, <1>2, <1>3, OffsetsAre
    <2>3. /\ Replies[i]["count"].at = Replies[i]["page"].at
          /\ Kept(Listing(req, got, seen[1]), ListingAt(i))
          /\ i < n => Kept(ListingAt(i), ListingAt(i + 1))
      BY <1>1, <1>2, <1>3, WalkKeeps
    <2>4. Version(seen[Replies[i]["page"].at])
      BY <2>1 DEF PageRead
    <2>5. IsFiniteSet(ListingAt(i)) /\ \A x \in ListingAt(i) : Numbers(Key(req.op, x))
      BY <1>2, <2>4, ListingCounted DEF ListingAt
    <2> QED
      BY <2>1, <2>2, <2>3, <2>5
  <1>6. ASSUME NEW i \in DOMAIN Replies
        PROVE  \E x \in ListingAt(i) : Id(x) = Id(s) /\ Key(req.op, x) = key
    <2>1. PICK m : \A y \in Listing(req, got, seen[1]) :
                     m[y] \in ListingAt(i) /\ Id(m[y]) = Id(y) /\ Key(req.op, m[y]) = Key(req.op, y)
      BY <1>5 DEF Kept
    <2> QED
      BY <2>1
  <1> HIDE DEF key
  <1> DEFINE rank == [i \in 1..n |-> RankOf(ListingAt(i), key)]
             offset == [i \in 1..n |-> begin[i].offset]
  <1>7. PageLimit \in Nat \ {0} /\ \A i \in 1..n : rank[i] \in Nat /\ rank[i] < Cardinality(ListingAt(i))
    <2>1. ASSUME NEW i \in 1..n PROVE rank[i] \in Nat /\ rank[i] < Cardinality(ListingAt(i))
      <3>1. PICK x \in ListingAt(i) : Key(req.op, x) = key
        BY <1>4, <1>6
      <3>2. IsFiniteSet(ListingAt(i)) /\ \A k \in DOMAIN Key(req.op, x) : Key(req.op, x)[k] \in Int
        BY <1>4, <1>5 DEF Numbers
      <3>3. RankOf(ListingAt(i), Key(req.op, x)) \in Nat
            /\ RankOf(ListingAt(i), Key(req.op, x)) < Cardinality(ListingAt(i))
        BY <3>2, RankBelow
      <3> QED
        BY <3>1, <3>3
    <2>2. PageLimit \in Nat \ {0}
      BY <1>2, <1>4, <1>5, PageSpan
    <2> QED
      BY <2>1, <2>2
  <1>8. \A i \in 1..n : i < n => offset[i + 1] = offset[i] + PageLimit /\ rank[i] <= rank[i + 1]
    <2> SUFFICES ASSUME NEW i \in 1..n, i < n
                 PROVE  offset[i + 1] = offset[i] + PageLimit /\ rank[i] <= rank[i + 1]
      OBVIOUS
    <2>1. i \in DOMAIN Replies /\ i + 1 \in DOMAIN Replies /\ i + 1 \in 1..n
      BY <1>4
    <2>2. begin[i + 1].offset = begin[i].offset + PageLimit
      BY <1>5, <2>1
    <2>3. IsFiniteSet(ListingAt(i)) /\ IsFiniteSet(ListingAt(i + 1)) /\ Kept(ListingAt(i), ListingAt(i + 1))
      BY <1>5, <2>1
    <2>4. RankOf(ListingAt(i), key) <= RankOf(ListingAt(i + 1), key)
      BY <2>3, RankGrows
    <2> QED
      BY <2>1, <2>2, <2>4
  <1>9. offset[1] = 0 /\ \A i \in 1..n : offset[i] \in Nat
    <2>1. 1 \in 1..n /\ Start.offset = 0
      BY <1>4 DEF Start
    <2>2. \A i \in 1..n : begin[i].offset \in Nat
      BY <1>4, <1>5 DEF OffsetAt
    <2> QED
      BY <1>4, <2>1, <2>2
  <1>10. rank[n] < offset[n] + PageLimit
    <2>1. n \in DOMAIN Replies /\ n \in 1..n
      BY <1>4
    <2>2. NextOf(req, Replies[n]) = IF begin[n].offset + PageLimit < Cardinality(ListingAt(n))
                                    THEN begin[n].offset + PageLimit ELSE Null
      <3>1. Listing(req, got, seen[Replies[n]["count"].at]) = ListingAt(n)
        BY <1>5, <2>1 DEF ListingAt
      <3> HIDE DEF n
      <3> QED
        BY <1>2, <1>5, <2>1, <3>1, PageSpan
    <2>3. offset[n] = begin[n].offset /\ offset[n] + PageLimit \in Int
      BY <1>7, <1>9, <2>1
    <2>4. offset[n] + PageLimit # Null
      BY <2>3, RequestsAssumption
    <2>5. ~(offset[n] + PageLimit < Cardinality(ListingAt(n)))
      BY <1>1, <1>4, <2>2, <2>3, <2>4
    <2>6. rank[n] \in Nat /\ rank[n] < Cardinality(ListingAt(n)) /\ Cardinality(ListingAt(n)) \in Nat
      BY <1>5, <1>7, <2>1, FS_CardinalityType
    <2> HIDE DEF rank, offset, n
    <2> QED
      BY <2>3, <2>5, <2>6
  <1> HIDE DEF rank, offset
  <1>11. PICK i \in 1..n : offset[i] <= rank[i] /\ rank[i] < offset[i] + PageLimit
    BY <1>4, <1>7, <1>8, <1>9, <1>10, SomePageCovers
  <1>12. PICK x \in ListingAt(i) : Id(x) = Id(s) /\ Key(req.op, x) = key
    BY <1>4, <1>6, <1>11
  <1>13. x \in Replies[i]["page"].val
    <2> DEFINE p == PageParams(req.limit, begin[i].offset)
               rows == ListingAt(i)
               keys == [y \in rows |-> Key(req.op, y)]
    <2>1. /\ Replies[i]["page"].val = Page(req, p, rows)
          /\ p.limit = PageLimit /\ p.offset = begin[i].offset
      <3>1. i \in DOMAIN Replies
        BY <1>4, <1>11
      <3>2. PageRead(begin, i) /\ begin[i] \in OffsetAt
        BY <1>5, <3>1
      <3>3. p.limit = PageLimit /\ p.offset = begin[i].offset
        BY <1>2, <3>2, PageSpan
      <3> QED
        BY <3>2, <3>3 DEF PageRead, ListingAt
    <2> HIDE DEF p, rows
    <2>2. Page(req, p, rows) =
            { r \in rows : LET before == Cardinality({ y \in rows : Precedes(keys[y], keys[r]) })
                           IN  p.offset <= before /\ before < p.offset + p.limit }
      BY DEF Page, Window
    <2>3. x \in rows /\ keys[x] = key
      BY <1>12 DEF rows
    <2>4. { y \in rows : Precedes(keys[y], keys[x]) } = { y \in rows : Precedes(Key(req.op, y), key) }
      BY <2>3
    <2>5. Cardinality({ y \in rows : Precedes(keys[y], keys[x]) }) = rank[i]
      BY <2>4 DEF rank, RankOf, rows
    <2>6. offset[i] = p.offset
      BY <2>1 DEF offset
    <2> HIDE DEF keys
    <2> QED
      BY <1>11, <2>1, <2>2, <2>3, <2>5, <2>6
  <1> QED
    BY <1>4, <1>11, <1>12, <1>13

\* The walk: by then every row that was there at its beginning was on some page.
LEMMA OffsetReplies ==
    ASSUME ReaderInv
    PROVE  OffsetWalkMissesNothing
  <1> DEFINE pages == UNION { Replies[i]["page"].val : i \in DOMAIN Replies }
  <1> SUFFICES ASSUME AtEnd, "page" \in DOMAIN got, Undisturbed, NEW s \in Listing(req, got, seen[1])
               PROVE  Id(s) \in { Id(r) : r \in pages }
    BY DEF OffsetWalkMissesNothing, Undisturbed
  <1>1. PICK i \in DOMAIN Replies : \E r \in Replies[i]["page"].val : Id(r) = Id(s)
    BY RowOnPage
  <1> QED
    BY <1>1

\* Following the offsets of a listing to its end a client misses no row that was there
\* when it began, unless it was disturbed in one of the ways the property names.
THEOREM OffsetWalkCorrect == ApiSpec => []OffsetWalkMissesNothing
  <1>1. ReaderInv => OffsetWalkMissesNothing
    BY OffsetReplies
  <1> QED
    BY <1>1, RepliesRead, PTL
===============================================================================
