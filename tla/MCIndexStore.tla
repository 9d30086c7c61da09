----------------------------- MODULE MCIndexStore -----------------------------
(***************************************************************************)
(* Five transactions, spread over two branches in every valid way:         *)
(*                                                                         *)
(*     g - t1 - a2            pay: spends the genesis coinbase             *)
(*          \- b2 - b3        mint: issues gold, explicit amount           *)
(*                            again: reissues gold, blinded                *)
(*                            more: reissues gold, explicit; spends mint   *)
(*                            veil: in place of mint, issues gold blinded  *)
(*                                                                         *)
(* Every block starts with its coinbase.                                   *)
(***************************************************************************)
EXTENDS IndexStore

MCBlock == {"g", "t1", "a2", "b2", "b3"}
MCPrev == [b \in MCBlock |->
    CASE b = "g" -> "none" [] b = "t1" -> "g" [] b \in {"a2", "b2"} -> "t1" [] b = "b3" -> "b2"]
MCHeight == [b \in MCBlock |->
    CASE b = "g" -> 0 [] b = "t1" -> 1 [] b \in {"a2", "b2"} -> 2 [] b = "b3" -> 3]

Coinbases == { <<"coinbase", b>> : b \in MCBlock }
Named == { <<"tx", n>> : n \in {"pay", "mint", "again", "more", "veil"} }
MCTx == Coinbases \cup Named
MCPending == SUBSET Named

Pay == <<"tx", "pay">>
Mint == <<"tx", "mint">>
Again == <<"tx", "again">>
More == <<"tx", "more">>
Veil == <<"tx", "veil">>

\* The entropy of an asset comes from the output its issuance spends: the same for
\* mint and veil.
MCFastMerkle == [ k \in {"e"} \X (0..2) |-> <<"gold", "gold-token", "gold-ctoken">>[k[2] + 1] ]

Gold(re, amount, blinded) ==
    [asset |-> "gold", tokenId |-> IF re THEN Null ELSE IF blinded THEN "gold-ctoken" ELSE "gold-token",
     entropy |-> "e", reissuance |-> re, amount |-> amount, blinded |-> blinded,
     token |-> Null, tokenBlinded |-> FALSE]
Spend(t, o, issuance) ==
    [prev |-> <<t, o>>, coinbase |-> FALSE, issuance |-> issuance]

MCVin == [t \in MCTx |->
    CASE t \in Coinbases -> << [prev |-> Null, coinbase |-> TRUE, issuance |-> Null] >>
      [] t = Pay -> << Spend(<<"coinbase", "g">>, 1, Null) >>
      [] t = Mint -> << Spend(Pay, 1, Gold(FALSE, 5, FALSE)) >>
      [] t = Veil -> << Spend(Pay, 1, Gold(FALSE, Null, TRUE)) >>
      [] t = Again -> << Spend(Pay, 2, Gold(TRUE, Null, TRUE)) >>
      [] t = More -> << Spend(Mint, 1, Gold(TRUE, 3, FALSE)), Spend(Mint, 2, Null) >>]
MCVout == [t \in MCTx |->
    CASE t \in Coinbases -> << "alice", Null >>
      [] t = Pay -> << "bob", "alice" >>
      [] t = Mint -> << "alice", "bob" >>
      [] OTHER -> << "bob" >>]
MCFee == [t \in MCTx |-> IF t \in Coinbases THEN 0 ELSE IF t = Pay THEN 2 ELSE 1]

\* Up to two transactions after the coinbase, none twice.
Lists == { <<>> } \cup { <<t>> : t \in Named }
         \cup { l \in Named \X Named : l[1] # l[2] }

\* A branch is valid when every input spends an output that an earlier
\* transaction made and no earlier one spent, and a reissuance follows the issuance.
Earlier(list, i) == { list[j] : j \in 1..(i - 1) }
ValidBranch(list) ==
    \A i \in 1..Len(list) :
        /\ list[i] \notin Earlier(list, i)
        /\ list[i] = Again => Earlier(list, i) \cap {Mint, Veil} # {}
        /\ list[i] = More => Mint \in Earlier(list, i)
        /\ list[i] \in {Mint, Veil} => Pay \in Earlier(list, i)
        /\ ~({Mint, Veil} \subseteq Earlier(list, i + 1))

MCContents ==
    { [b \in MCBlock |-> << <<"coinbase", b>> >> \o (IF b = "g" THEN <<>> ELSE c[b])]
      : c \in { f \in [MCBlock \ {"g"} -> Lists] :
                  /\ ValidBranch(f["t1"] \o f["a2"])
                  /\ ValidBranch(f["t1"] \o f["b2"] \o f["b3"]) } }
===============================================================================
