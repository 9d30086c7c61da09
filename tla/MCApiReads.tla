------------------------------ MODULE MCApiReads ------------------------------
(***************************************************************************)
(* A fork with the same transaction on both sides, and requests for        *)
(* everything on it:                                                       *)
(*                                                                         *)
(*     g - t1 - a2            pay: issues silver, pays bob and alice       *)
(*          \- b2 - b3        mint: issues gold                            *)
(*                            again: reissues gold, blinded                *)
(***************************************************************************)
EXTENDS ApiReads, TLC

MCBlock == {"g", "t1", "a2", "b2", "b3"}
MCPrev == [b \in MCBlock |->
    CASE b = "g" -> "none" [] b = "t1" -> "g" [] b \in {"a2", "b2"} -> "t1" [] b = "b3" -> "b2"]
MCHeight == [b \in MCBlock |->
    CASE b = "g" -> 0 [] b = "t1" -> 1 [] b \in {"a2", "b2"} -> 2 [] b = "b3" -> 3]

Coinbase == [b \in MCBlock |-> "cb-" \o b]
Coinbases == { Coinbase[b] : b \in MCBlock }
MCTx == Coinbases \cup {"pay", "mint", "again"}

MCPending == { {}, {"again"} }

MCFastMerkle == [ k \in {"e1", "e2"} \X (0..2) |->
    IF k[1] = "e1" THEN <<"gold", "goldtoken", "goldctoken">>[k[2] + 1]
    ELSE <<"silver", "silvertoken", "silverctoken">>[k[2] + 1] ]
Issue(e, re, amount) ==
    [asset |-> MCFastMerkle[<<e, 0>>], entropy |-> e, reissuance |-> re,
     tokenId |-> IF re THEN Null ELSE MCFastMerkle[<<e, IF amount = Null THEN 2 ELSE 1>>],
     amount |-> amount, blinded |-> amount = Null, token |-> Null, tokenBlinded |-> FALSE]
Spend(t, o, issuance) == << [prev |-> <<t, o>>, coinbase |-> FALSE, issuance |-> issuance] >>

MCVin == [t \in MCTx |->
    CASE t \in Coinbases -> << [prev |-> Null, coinbase |-> TRUE, issuance |-> Null] >>
      [] t = "pay" -> Spend("cb-g", 1, Issue("e2", FALSE, 7))
      [] t = "mint" -> Spend("pay", 1, Issue("e1", FALSE, 5))
      [] t = "again" -> Spend("pay", 2, Issue("e1", TRUE, Null))]
MCVout == [t \in MCTx |->
    CASE t \in Coinbases -> <<"alice">> [] t = "pay" -> <<"Bob", "alice">> [] OTHER -> <<"alice">>]
Coins(a, n) == [asset |-> a, sats |-> n]
MCAmount == [t \in MCTx |->
    CASE t \in Coinbases -> << Coins("policy", 9) >>
      [] t = "pay" -> << Coins("policy", 4), Coins("silver", 7) >>
      [] t = "mint" -> << Coins("gold", 5) >>
      [] OTHER -> << Coins(Null, Null) >>]
MCFee == [t \in MCTx |-> 0]

Ordered == <<"again", "mint", "pay", "cb-g", "cb-t1", "cb-a2", "cb-b2", "cb-b3", "gold", "silver">>
MCRank == [x \in MCTx \cup {"gold", "silver"} |-> CHOOSE i \in DOMAIN Ordered : Ordered[i] = x]
MCLower == [x \in {"alice", "Bob", "2"} |-> IF x = "Bob" THEN "bob" ELSE x]

Fill(c) == [b \in MCBlock |-> <<Coinbase[b]>> \o c[b]]
MCContents == {
    Fill([g |-> <<>>, t1 |-> <<"pay", "mint">>, a2 |-> <<"again">>, b2 |-> <<>>, b3 |-> <<"again">>]) }

List(op, id, limit) == [op |-> op, id |-> id, limit |-> limit]
MCRequest ==
    { List("address", "alice", 9), List("asset", "gold", 1),
      List("utxos", "alice", 9), List("assets", Null, 1), List("assettxs", "policy", 3),
      List("mempool", Null, 1), List("blocks", Null, 2), List("blocks", Null, 0),
      List("transactions", Null, 2) }
    \cup { List("block", h, 2) @@ [form |-> "hash"] : h \in {"t1", "a2"} }
    \cup { List("block", Null, 2) @@ [form |-> "height", height |-> 2] }
    \cup { [op |-> "tx", id |-> t] : t \in {"pay", "again"} }
    \cup { [op |-> o] : o \in {"overview", "explorer"} }
    \cup { [op |-> "search", form |-> "hex", id |-> x] : x \in {"a2", "again", "goldtoken"} }
    \cup { [op |-> "search", form |-> "number", id |-> "2", height |-> 2] }
    \cup { [op |-> "search", form |-> "text", id |-> "alice"] }
===============================================================================
