---------------------------- MODULE MCPlanBilling ----------------------------
(***************************************************************************)
(* PlanBilling for TLC.  Money and calls meet only in the plan instances,  *)
(* so they are explored one after the other: each initial state sets the   *)
(* transactions or the requests in motion, and the administrator in both.  *)
(***************************************************************************)
EXTENDS PlanBilling, TLC

CONSTANTS alice, p1, i1, i2, i3, r1, r2, r3, t1, t2

VARIABLE part   \* what is in motion

MCUserTenant == [u \in Users |-> "acme"]
MCPlanTenant == [p \in Plans |-> "acme"]

\* Two bodies that differ in what a purchase depends on, and one that grants two
\* calls.  Every limit is set, so that PurchaseLimitHolds has something to say.
\* Validity is one tick: an instance granted at 0 has expired at 1, one granted
\* at 1 has not.
Cheap == [price |-> 1, total |-> 1, validity |-> 1, limit |-> 1, active |-> TRUE]
MCTemplates ==
    {Cheap, [Cheap EXCEPT !.price = 2, !.limit = 2, !.active = FALSE],
     [Cheap EXCEPT !.total = 2]}

\* Adjustments up and down; set_balance refuses the negative one.
MCAmounts == {3, -2}

MCSymmetry == Permutations(Txns) \cup Permutations(Requests)

MCInit == Init /\ part \in {"money", "quota"}

\* Two sessions, up to three instances, no time; calls do not matter.
MoneyPart ==
    /\ part = "money"
    /\ AdminStep \/ \E t \in Txns : TxnStep(t)
    /\ \A p \in Plans : plan'[p].total = 1

\* Three requests on two instances; only the calls of a plan matter.
QuotaPart ==
    /\ part = "quota"
    /\ Tick \/ AdminStep \/ \E r \in Requests : RequestStep(r)
    /\ \A p \in Plans : planState'[p] = "live" => [plan'[p] EXCEPT !.total = 1] = Cheap
    /\ instRows' \subseteq {i1, i2}

MCNext == (MoneyPart \/ QuotaPart) /\ UNCHANGED part

MCSpec == MCInit /\ [][MCNext]_<<vars, part>>

=============================================================================
