------------------------------ MODULE WebPages ------------------------------
(***************************************************************************)
(* The pages of the web client that show what the server keeps: the page   *)
(* that sells plans and the pages of the administration.  They share no    *)
(* signal, so a step is a step of one of them.                             *)
(***************************************************************************)
EXTENDS PurchasePage, AdminPages

pagesVars == <<purchaseVars, adminVars>>

PagesInit == PurchaseInit /\ AdminInit

PagesNext ==
    \/ PurchaseNext /\ UNCHANGED adminVars
    \/ AdminNext /\ UNCHANGED purchaseVars

PagesSpec == PagesInit /\ [][PagesNext]_pagesVars

-----------------------------------------------------------------------------

(* What pages show.  Once the page of the plans has shown the balance that *)
(* a purchase left, no earlier request puts a higher one back, and a later *)
(* one only from a cached profile that the purchase has overtaken          *)
(* (ShownKeepsPurchase, balance_response_is_stale in personal_center.rs);  *)
(* a page of the administration shows a list as new as the last change it  *)
(* knows of, and each dialog its own row's answer (AdminPageHolds, the     *)
(* version tests in views/users.rs and the pages written like it).         *)
PagesHold == ShownKeepsPurchase /\ AdminPageHolds

=============================================================================
