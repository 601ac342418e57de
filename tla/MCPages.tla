------------------------------ MODULE MCPages ------------------------------
(***************************************************************************)
(* The pages of the web client for TLC: the chat page around the kernel,   *)
(* two such pages that have one session open, the page that sells plans,   *)
(* and a page of the administration.  They share no variable, so each      *)
(* initial state sets one of them in motion and leaves the others at rest. *)
(* The clearing of a session and a purchase are explored under two loads,  *)
(* a page of the administration with its list or its tenant selector.      *)
(***************************************************************************)
EXTENDS MCChatHost, SessionMemory, WebPages

VARIABLE part   \* what is in motion

vars == <<part, chatVars, memoryVars, pagesVars>>

MemoryParts == {"clearing", "forgetting"}
BuyParts == {"purchase", "overtaken"}
AdminParts == {"list", "selector"}

\* A page with nothing to see between two that have something.
MCTenantPages == <<FALSE, TRUE, FALSE, TRUE>>

Init ==
    /\ part \in {"chat"} \cup MemoryParts \cup BuyParts \cup AdminParts
    /\ ChatInit
    /\ bare \in IF part \in MemoryParts THEN {{}, {"q"}} ELSE {{}}   \* pages are alike
    /\ MemoryInit
    /\ part \notin MemoryParts => web
    /\ part # "forgetting" => sources = [m \in MemoryIds |-> {Old}]
    /\ PagesInit /\ load["l1"].at = "spawned"                        \* loads are alike
    /\ part \notin BuyParts => buyer = Deposit

\* Both pages end turns and clear, and the first may forget the memories with
\* the session or be closed; or the first extracts and writes memories while
\* the second clears and the memory page is in use.
MemoryPart ==
    /\ MemoryNext
    /\ IF part = "clearing"
       THEN /\ \A p \in Pages : page'[p].ext \in {"idle", "queued"} /\ page'[p].tool = "idle"
            /\ autoExtract' /\ page'["q"].session # Nobody /\ ~page'["q"].force
       ELSE /\ \A p \in Pages : page'[p].session # Nobody
            /\ page'["q"].pump = "idle" /\ page'["q"].tool = "idle"
            /\ page'["p"].clr = "idle"

\* Every call to Redis may fail while the page alone asks for the profile; the
\* purchase lock does its work where another reader fills the cache.
LockWorks ==
    \A j \in Jobs :
        buyLock = j <=> job[j].at \in {"locked", "paid", "settled", "short", "broken"}

BuyPart ==
    /\ PurchaseNext
    /\ IF part = "purchase" THEN otherRead' = otherRead ELSE LockWorks'

\* The list with its dialogs, or the tenant selector of an open dialog.  Of the
\* reasons to leave, a refused listing stands for all: nothing follows.
AdminPart ==
    /\ AdminNext
    /\ gone' => \E f \in Fetches : fetch[f].at = "refused"
    /\ IF part = "list" THEN selector' = selector ELSE UNCHANGED <<listVars, jobs>>

Next ==
    /\ UNCHANGED part
    /\ \/ part = "chat" /\ ChatNext /\ UNCHANGED <<memoryVars, pagesVars>>
       \/ part \in MemoryParts /\ MemoryPart /\ UNCHANGED <<chatVars, pagesVars>>
       \/ /\ part \in BuyParts /\ BuyPart
          /\ UNCHANGED <<chatVars, memoryVars, adminVars>>
       \/ /\ part \in AdminParts /\ AdminPart
          /\ UNCHANGED <<chatVars, memoryVars, purchaseVars>>

\* The kernel is fair where it is in motion; a page at rest has nothing to do.
Spec == Init /\ [][Next]_vars /\ (part = "chat" => Fairness)

=============================================================================
