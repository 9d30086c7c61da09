------------------------------- MODULE MCBrowser -------------------------------
(***************************************************************************)
(* The overview, a page with one request, one with two, a search that may  *)
(* lead there, a search for nothing, and an unknown address.               *)
(***************************************************************************)
EXTENDS Browser

MCPath == {"/", "/blocks", "/asset", "/search?q=1", "/search", "/nowhere"}
MCUnmatched == {"/nowhere"}
MCRefreshing == {"/"}
MCAwaits == [p \in MCPath |-> CASE p = "/asset" -> 2 [] p = "/search" -> 0 [] OTHER -> 1]
MCHits == [p \in MCPath |-> IF p = "/search?q=1" THEN {"/asset"} ELSE {}]
===============================================================================
