---------------------------- MODULE PaymentOrders ---------------------------
(***************************************************************************)
(* The records of payment orders (server/src/services/payment_order.rs and *)
(* handlers/payment_order.rs): administrators create, edit and delete      *)
(* them, a purchase inserts its own.  An edit reads the order, perhaps     *)
(* from a replica that lags, and writes the columns it was given in a      *)
(* statement of its own.  Of paid_at it matters whether it is set, and     *)
(* whether what it says is the first time the order was paid.              *)
(***************************************************************************)
EXTENDS Integers, FiniteSets

CONSTANTS
    OrderIds,
    Editors,        \* administrators with a request each
    Scope,          \* the tenants whose orders an editor sees
    Root,           \* the editors of the system role
    OrderTenants,
    OrderStatuses   \* ORDER_STATUSES, "paid" among them

ASSUME OrdersAssumption ==
    /\ Scope \in [Editors -> SUBSET OrderTenants]
    /\ Root \subseteq Editors
    /\ "paid" \in OrderStatuses

Unset == "unset"        \* a field the request leaves out
NoOrder == [status |-> Unset]

VARIABLES
    orderRow,       \* payment_orders on the primary
    orderCopy,      \* payment_orders on the replica
    edit,           \* the request of each editor
    stamped         \* history: orders whose paid_at was ever set

orderVars == <<orderRow, orderCopy, edit, stamped>>

IdleEdit == [at |-> "idle"]

OrdersInit ==
    /\ orderRow = [o \in OrderIds |-> NoOrder]
    /\ orderCopy = orderRow
    /\ edit = [e \in Editors |-> IdleEdit]
    /\ stamped = {}

InScope(e, row) == row # NoOrder /\ (e \in Root \/ row.tenant \in Scope[e])

\* Utc::now() as paid_at, for an order that has had none, or has had one.
PaidNow(o) == IF o \in stamped THEN "later" ELSE "first"

InsertOrder(o, tenant, s) ==
    /\ orderRow[o] = NoOrder /\ o \notin stamped
    /\ orderRow' = [orderRow EXCEPT ![o] =
            [status |-> s, txn |-> Unset, tenant |-> tenant,
             paidAt |-> IF s = "paid" THEN PaidNow(o) ELSE Unset]]
    /\ stamped' = IF s = "paid" THEN stamped \cup {o} ELSE stamped
    /\ UNCHANGED <<orderCopy>>

(* create: of a user, and a plan, in the editor's scope.                   *)
CreateOrder(e, o, tenant, s) ==
    /\ edit[e] = IdleEdit
    /\ e \in Root \/ tenant \in Scope[e]
    /\ InsertOrder(o, tenant, s)
    /\ edit' = [edit EXCEPT ![e] = [at |-> "done"]]

(* PlanService::purchase inserts a paid order.                             *)
PurchaseOrder(o, tenant) == InsertOrder(o, tenant, "paid") /\ UNCHANGED edit

(* update and delete begin with load_scoped; only root deletes.            *)
LoadOrder(e, o, act, s, txn) ==
    /\ edit[e] = IdleEdit
    /\ act = "delete" => e \in Root
    /\ \E seen \in {orderRow[o], orderCopy[o]} :
        edit' = [edit EXCEPT ![e] =
            IF InScope(e, seen)
            THEN [at |-> act, order |-> o, seen |-> seen, status |-> s, txn |-> txn]
            ELSE [at |-> "done"]]
    /\ UNCHANGED <<orderRow, orderCopy, stamped>>

(* Mutant: the whole row as it was read is written back.                   *)
WholeRowWritten(row, r) ==
    [r.seen EXCEPT !.status = IF r.status = Unset THEN @ ELSE r.status,
                   !.txn = IF r.txn = Unset THEN @ ELSE r.txn,
                   !.paidAt = IF r.status = "paid" /\ @ = Unset THEN PaidNow(r.order) ELSE @]

(* The columns the UPDATE sets; the first change to paid sets the time,    *)
(* and whether it is the first is what the row that was read says.         *)
RowWritten(row, r) ==
    [row EXCEPT !.status = IF r.status = Unset THEN @ ELSE r.status,
                !.txn = IF r.txn = Unset THEN @ ELSE r.txn,
                !.paidAt = IF r.status = "paid" /\ r.seen.paidAt = Unset
                           THEN PaidNow(r.order) ELSE @]

UpdateOrder(e) ==
    LET r == edit[e]
    IN  /\ r.at = "update"
        /\ IF orderRow[r.order] = NoOrder
           THEN UNCHANGED <<orderRow, stamped>>     \* RecordNotUpdated
           ELSE /\ orderRow' = [orderRow EXCEPT ![r.order] = RowWritten(@, r)]
                /\ stamped' = IF orderRow'[r.order].paidAt # Unset THEN stamped \cup {r.order}
                              ELSE stamped
        /\ edit' = [edit EXCEPT ![e] = [at |-> "done"]]
        /\ UNCHANGED <<orderCopy>>

DeleteOrder(e) ==
    LET r == edit[e]
    IN  /\ r.at = "delete"
        /\ orderRow' = [orderRow EXCEPT ![r.order] = NoOrder]
        /\ stamped' = stamped \cup {r.order}        \* an id is not used again
        /\ edit' = [edit EXCEPT ![e] = [at |-> "done"]]
        /\ UNCHANGED <<orderCopy>>

(* The editor's next request.                                              *)
NextEdit(e) ==
    /\ edit[e].at = "done"
    /\ edit' = [edit EXCEPT ![e] = IdleEdit]
    /\ UNCHANGED <<orderRow, orderCopy, stamped>>

(* External: replication.                                                  *)
ReplicateOrders ==
    /\ orderCopy # orderRow
    /\ orderCopy' = orderRow
    /\ UNCHANGED <<orderRow, edit, stamped>>

OrdersNext ==
    \/ \E e \in Editors :
        \/ \E o \in OrderIds, t \in OrderTenants, s \in OrderStatuses : CreateOrder(e, o, t, s)
        \/ \E o \in OrderIds, s \in OrderStatuses \cup {Unset}, x \in {Unset, "txn"} :
                LoadOrder(e, o, "update", s, x)
        \/ \E o \in OrderIds : LoadOrder(e, o, "delete", Unset, Unset)
        \/ UpdateOrder(e) \/ DeleteOrder(e) \/ NextEdit(e)
    \/ \E o \in OrderIds, t \in OrderTenants : PurchaseOrder(o, t)
    \/ ReplicateOrders

OrdersSpec == OrdersInit /\ [][OrdersNext]_orderVars

-----------------------------------------------------------------------------

\* An order that is paid, or was ever paid, says when.
PaidOrdersHaveATime ==
    \A o \in OrderIds :
        orderRow[o] # NoOrder /\ (orderRow[o].status = "paid" \/ o \in stamped)
            => orderRow[o].paidAt # Unset

\* An edit under way that read the order before it was paid.
ReadUnpaid(o) ==
    \E e \in Editors : edit[e].at = "update" /\ edit[e].order = o /\ edit[e].seen.paidAt = Unset

\* The time of the first payment gives way to no other, except to an edit that
\* read the order before that payment.
FirstTimeStays ==
    \A o \in OrderIds :
        orderRow[o] # NoOrder /\ orderRow'[o] # NoOrder /\ orderRow[o].paidAt = "first"
            => orderRow'[o].paidAt = "first" \/ ReadUnpaid(o)

(* An order that was ever paid keeps a time of payment through every later *)
(* edit, however edits overlap and however old the row was that they read  *)
(* (update sets paid_at only together with the status, and writes no       *)
(* column it was not given).  "Stamped on the FIRST transition into paid   *)
(* and deliberately preserved afterwards" (payment_order.rs:276) is true   *)
(* of it where no edit read the order before that payment and wrote it     *)
(* after; had_paid_at can say no more than the row that was read.          *)
PaidOrdersKeepTheirTime == [][PaidOrdersHaveATime' /\ FirstTimeStays]_orderVars

=============================================================================
