-------------------------- MODULE MCPurchasePage --------------------------
(***************************************************************************)
(* An instance of PurchasePage for TLC: two presses of every button, which *)
(* is what a race of one handler with the next takes.                      *)
(***************************************************************************)
EXTENDS PurchasePage

MCMaxCalls == [connect |-> 2, pay |-> 2, refund |-> 2]
=============================================================================
