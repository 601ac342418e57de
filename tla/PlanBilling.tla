----------------------------- MODULE PlanBilling -----------------------------
(***************************************************************************)
(* Balances, plan templates, plan instances and the per-call quota of the  *)
(* server (server/src/services/plan.rs, set_balance and adjust_balance of  *)
(* services/user.rs, and the consume / refund protocol of                  *)
(* handlers/responses.rs).                                                 *)
(*                                                                         *)
(* Several replicas serve requests at once and share one PostgreSQL        *)
(* database under READ COMMITTED.  One action is one statement (or one     *)
(* transaction's commit) as the database executes it, so everything that   *)
(* can happen between two awaits of a handler happens in the model too.    *)
(***************************************************************************)
EXTENDS Integers, FiniteSets, FiniteSetsExt

CONSTANTS
    Users,          \* rows of the users table
    Plans,          \* ids a plan template can have
    Instances,      \* ids the Snowflake generator can give to user_plans rows
    Requests,       \* AI requests of role "user" (POST /api/ai/response)
    Txns,           \* database sessions running purchase, set_balance or
                    \* adjust_balance
    UserTenant,     \* users.tenant_id
    PlanTenant,     \* plans.tenant_id
    Templates,      \* the bodies an admin may send for a plan
    Amounts,        \* the amounts an admin may send for a balance
    MaxBalance,     \* i64::MAX in the code: checked_add fails above it
    MaxAttempts,    \* MAX_ATTEMPTS of consume_call (3 in the code)
    MaxClock        \* bound of the model: the last instant it looks at

\* purchase_limit = None
NoLimit == 0

\* No session holds the row lock.
Free == "free"

Template == [price : Int, total : Int, validity : Int, limit : Nat,
             active : BOOLEAN]

ASSUME PlanAssumption ==
    /\ IsFiniteSet(Requests)
    /\ Users # {} /\ Plans # {} /\ Instances # {}
    /\ Free \notin Txns
    /\ UserTenant \in [Users -> STRING]
    /\ PlanTenant \in [Plans -> STRING]
    /\ Templates \subseteq Template
    /\ Amounts \subseteq Int
    /\ MaxBalance \in Nat
    /\ MaxAttempts \in Nat \ {0}
    /\ MaxClock \in Nat

VARIABLES
    clock,      \* NOW()
    balance,    \* users.balance
    rowLock,    \* the session that holds FOR UPDATE on a users row
    plan,       \* the plan templates
    planState,  \* whether the row of an id was never inserted, is there or was
                \* deleted (the Snowflake generator gives no id twice)
    userPlan,   \* the plan instances
    instRows,   \* ids present in user_plans
    orders,     \* payment_orders rows inserted by purchase
    credited,   \* history: what admins added to a balance, taken together
    txn,        \* what each session is doing
    req         \* what each AI request is doing

vars == <<clock, balance, rowLock, plan, planState, userPlan, instRows,
          orders, credited, txn, req>>

adminVars == <<plan, planState>>
moneyVars == <<balance, rowLock, orders, credited, txn>>

-----------------------------------------------------------------------------
\* validate_plan_numbers and validate_purchase_limit; they look at one field at
\* a time, so any mixture of fields of valid templates is valid.
ValidTemplate(tpl) ==
    /\ tpl.price >= 0
    /\ tpl.total > 0
    /\ tpl.validity > 0
    /\ tpl.limit >= 0

\* A plans row: the CHECK constraints of the table say the same.
PlanRow == {tpl \in Template : ValidTemplate(tpl)}

\* A user_plans row: a snapshot of the template it came from.
Instance == [user : Users, plan : Plans, total : Nat, remaining : Nat,
             expires : Nat, source : {"purchase", "admin_grant"}]

Order == [id : Instances, user : Users, plan : Plans, amount : Nat]

TxnState == [pc : {"idle", "locked", "planned", "counted"},
             op : {"purchase", "adjust", "set"}, user : Users, plan : Plans,
             amount : Int, read : Nat, quote : PlanRow, count : Nat]

ReqPc == {"idle", "consume", "waiting", "probe", "consumed", "nochannel",
          "served", "refunded", "burned", "rejected"}

ReqState == [pc : ReqPc, user : Users, picked : Instances,
             rest : SUBSET Instances, attempts : Nat]

\* A new session or request has not read anything yet: the fields below
\* hold arbitrary values that no guard looks at before they are written.
AnyUser == CHOOSE u \in Users : TRUE
AnyPlan == CHOOSE p \in Plans : TRUE
AnyInstance == CHOOSE i \in Instances : TRUE
AnyPlanRow == [price |-> 0, total |-> 1, validity |-> 1, limit |-> NoLimit,
                active |-> FALSE]
AnyRow == [user |-> AnyUser, plan |-> AnyPlan, total |-> 1, remaining |-> 1,
           expires |-> 0, source |-> "admin_grant"]
IdleTxn == [pc |-> "idle", op |-> "adjust", user |-> AnyUser, plan |-> AnyPlan,
            amount |-> 0, read |-> 0, quote |-> AnyPlanRow, count |-> 0]

Init ==
    /\ clock = 0
    /\ balance = [u \in Users |-> 0]
    /\ rowLock = [u \in Users |-> Free]
    /\ plan = [p \in Plans |-> AnyPlanRow]
    /\ planState = [p \in Plans |-> "none"]
    /\ userPlan = [i \in Instances |-> AnyRow]
    /\ instRows = {}
    /\ orders = {}
    /\ credited = [u \in Users |-> 0]
    /\ txn = [t \in Txns |-> IdleTxn]
    /\ req = [r \in Requests |-> [pc |-> "idle", user |-> AnyUser,
                                  picked |-> AnyInstance, rest |-> {},
                                  attempts |-> 0]]

Tick ==
    /\ clock < MaxClock
    /\ clock' = clock + 1
    /\ UNCHANGED <<moneyVars, adminVars, userPlan, instRows, req>>

-----------------------------------------------------------------------------
(* Plan templates: PlanService::create, update, delete.                    *)

\* create inserts a validated body under a fresh id.
CreatePlan(p, tpl) ==
    /\ planState[p] = "none"
    /\ ValidTemplate(tpl)
    /\ planState' = [planState EXCEPT ![p] = "live"]
    /\ plan' = [plan EXCEPT ![p] = tpl]
    /\ UNCHANGED <<clock, moneyVars, userPlan, instRows, req>>

Columns == {"price", "total", "validity", "limit", "active"}

\* The columns an update names come from the body, the others keep what the
\* row holds (the statement writes only the columns that were set).
Merge(row, body, fields) ==
    [price    |-> IF "price"    \in fields THEN body.price    ELSE row.price,
     total    |-> IF "total"    \in fields THEN body.total    ELSE row.total,
     validity |-> IF "validity" \in fields THEN body.validity ELSE row.validity,
     limit    |-> IF "limit"    \in fields THEN body.limit    ELSE row.limit,
     active   |-> IF "active"   \in fields THEN body.active   ELSE row.active]

Updates(row) ==
    {Merge(row, tpl, fields) : tpl \in Templates, fields \in SUBSET Columns}

\* update rewrites the template only; instances already issued are snapshots.
UpdatePlan(p, new) ==
    /\ planState[p] = "live"
    /\ ValidTemplate(new)
    /\ plan' = [plan EXCEPT ![p] = new]
    /\ UNCHANGED <<clock, moneyVars, planState, userPlan, instRows, req>>

DeletePlan(p) ==
    /\ planState[p] = "live"
    /\ planState' = [planState EXCEPT ![p] = "deleted"]
    /\ UNCHANGED <<clock, moneyVars, plan, userPlan, instRows, req>>

\* insert_user_plan: the row given to user u from template tpl of plan p.
NewInstance(u, p, tpl, src) ==
    [user |-> u, plan |-> p, total |-> tpl.total, remaining |-> tpl.total,
     expires |-> clock + tpl.validity, source |-> src]

\* assign_to_user: no payment, no user row lock, disabled plans allowed.  The
\* template is read just before the insert; an edit that falls between the two
\* statements is as good as one that comes right after them.
AssignToUser(u, p, i) ==
    /\ planState[p] = "live"
    /\ PlanTenant[p] = UserTenant[u]
    /\ i \notin instRows
    /\ instRows' = instRows \cup {i}
    /\ userPlan' = [userPlan EXCEPT
                       ![i] = NewInstance(u, p, plan[p], "admin_grant")]
    /\ UNCHANGED <<clock, moneyVars, adminVars, req>>

-----------------------------------------------------------------------------
(* Transactions on a user row.  SELECT ... FOR UPDATE waits for the row    *)
(* lock, and commit or rollback gives it back.                             *)

\* Mutant: a plain SELECT.
LockRowPlainSelect(t, u) ==
    /\ txn[t].pc = "idle"
    /\ rowLock' = [rowLock EXCEPT ![u] = t]

LockRow(t, u) ==
    /\ txn[t].pc = "idle"
    /\ rowLock[u] = Free
    /\ rowLock' = [rowLock EXCEPT ![u] = t]

EndTxn(t) ==
    /\ rowLock' = [rowLock EXCEPT ![txn[t].user] = Free]
    /\ txn' = [txn EXCEPT ![t] = IdleTxn]

\* purchase: begin, then load the buyer with lock_exclusive.
PurchaseBegin(t, u, p) ==
    /\ LockRow(t, u)
    /\ txn' = [txn EXCEPT ![t] = [@ EXCEPT !.pc = "locked", !.op = "purchase",
                                  !.user = u, !.plan = p, !.read = balance[u]]]
    /\ UNCHANGED <<clock, balance, orders, credited, adminVars, userPlan,
                   instRows, req>>

\* purchase: the plan is read without a lock, so an admin may change or
\* delete it before this transaction commits.
PurchaseLoadPlan(t) ==
    LET p == txn[t].plan IN
    /\ txn[t].pc = "locked" /\ txn[t].op = "purchase"
    /\ planState[p] = "live"
    /\ PlanTenant[p] = UserTenant[txn[t].user]
    /\ plan[p].active
    /\ txn' = [txn EXCEPT ![t] = [@ EXCEPT !.pc = "planned",
                                  !.quote = plan[p]]]
    /\ UNCHANGED <<clock, balance, rowLock, orders, credited, adminVars,
                   userPlan, instRows, req>>

\* The instances of u that count against the purchase limit of plan p.
Purchases(u, p) ==
    {i \in instRows : /\ userPlan[i].user = u
                      /\ userPlan[i].plan = p
                      /\ userPlan[i].source = "purchase"}

\* Mutant: off by one.
BelowLimitInclusive(count, limit) == limit = NoLimit \/ count <= limit

BelowLimit(count, limit) == limit = NoLimit \/ count < limit

\* purchase: count the earlier purchases, a statement of its own.
PurchaseCount(t) ==
    /\ txn[t].pc = "planned"
    /\ txn' = [txn EXCEPT ![t] = [@ EXCEPT !.pc = "counted",
                  !.count = Cardinality(Purchases(txn[t].user, txn[t].plan))]]
    /\ UNCHANGED <<clock, balance, rowLock, orders, credited, adminVars,
                   userPlan, instRows, req>>

\* Mutant: the balance is charged the price of the row as it is now.
PurchaseCommitRepriced(t, i) ==
    LET u == txn[t].user
        p == txn[t].plan
        quote == txn[t].quote IN
    /\ txn[t].pc = "counted"
    /\ BelowLimit(txn[t].count, quote.limit)
    /\ txn[t].read >= plan[p].price
    /\ i \notin instRows
    /\ balance' = [balance EXCEPT ![u] = txn[t].read - plan[p].price]
    /\ orders' = orders \cup
          {[id |-> i, user |-> u, plan |-> p, amount |-> quote.price]}
    /\ instRows' = instRows \cup {i}
    /\ userPlan' = [userPlan EXCEPT
                       ![i] = NewInstance(u, p, quote, "purchase")]
    /\ EndTxn(t)
    /\ UNCHANGED <<clock, credited, adminVars, req>>

\* purchase: limit and balance checks, then deduct, insert the paid order
\* and the instance, and commit.  All of it becomes visible at once.
PurchaseCommit(t, i) ==
    LET u == txn[t].user
        p == txn[t].plan
        quote == txn[t].quote IN
    /\ txn[t].pc = "counted"
    /\ BelowLimit(txn[t].count, quote.limit)
    /\ txn[t].read >= quote.price
    /\ i \notin instRows
    /\ balance' = [balance EXCEPT ![u] = txn[t].read - quote.price]
    /\ orders' = orders \cup
          {[id |-> i, user |-> u, plan |-> p, amount |-> quote.price]}
    /\ instRows' = instRows \cup {i}
    /\ userPlan' = [userPlan EXCEPT
                       ![i] = NewInstance(u, p, quote, "purchase")]
    /\ EndTxn(t)
    /\ UNCHANGED <<clock, credited, adminVars, req>>

\* set_balance and adjust_balance: begin, then load the target with
\* lock_exclusive.
BalanceBegin(t, op, u, amount) ==
    /\ LockRow(t, u)
    /\ txn' = [txn EXCEPT ![t] = [@ EXCEPT !.pc = "locked", !.op = op,
                                  !.user = u, !.amount = amount,
                                  !.read = balance[u]]]
    /\ UNCHANGED <<clock, balance, orders, credited, adminVars, userPlan,
                   instRows, req>>

\* Mutant: no check of the sign.
AdjustCommitOverdraft(t) ==
    LET new == txn[t].read + txn[t].amount IN
    /\ txn[t].pc = "locked" /\ txn[t].op = "adjust"
    /\ new <= MaxBalance
    /\ balance' = [balance EXCEPT ![txn[t].user] = new]
    /\ credited' = [credited EXCEPT ![txn[t].user] = @ + txn[t].amount]
    /\ EndTxn(t)
    /\ UNCHANGED <<clock, orders, adminVars, userPlan, instRows, req>>

\* adjust_balance: checked_add, no negative result, write and commit.
AdjustCommit(t) ==
    LET new == txn[t].read + txn[t].amount IN
    /\ txn[t].pc = "locked" /\ txn[t].op = "adjust"
    /\ new \in 0..MaxBalance
    /\ balance' = [balance EXCEPT ![txn[t].user] = new]
    /\ credited' = [credited EXCEPT ![txn[t].user] = @ + txn[t].amount]
    /\ EndTxn(t)
    /\ UNCHANGED <<clock, orders, adminVars, userPlan, instRows, req>>

\* set_balance: no negative balance, write and commit.  Admins have then
\* added what the new balance is above the old one.
SetCommit(t) ==
    /\ txn[t].pc = "locked" /\ txn[t].op = "set"
    /\ txn[t].amount >= 0
    /\ balance' = [balance EXCEPT ![txn[t].user] = txn[t].amount]
    /\ credited' = [credited EXCEPT
                       ![txn[t].user] = @ + (txn[t].amount - txn[t].read)]
    /\ EndTxn(t)
    /\ UNCHANGED <<clock, orders, adminVars, userPlan, instRows, req>>

\* Every early return drops the transaction: not found, wrong tenant,
\* disabled plan, limit reached, insufficient balance, overflow, a database
\* error, or the death of the replica.  Nothing of it was visible.
Rollback(t) ==
    /\ txn[t].pc # "idle"
    /\ EndTxn(t)
    /\ UNCHANGED <<clock, balance, orders, credited, adminVars, userPlan,
                   instRows, req>>

-----------------------------------------------------------------------------
(* The call quota: consume_plan_quota / consume_call / refund_call.        *)

\* user_id = $1 AND remaining_calls > 0 AND expires_at > NOW()
Eligible(u) ==
    {i \in instRows : /\ userPlan[i].user = u
                      /\ userPlan[i].remaining > 0
                      /\ userPlan[i].expires > clock}

\* ORDER BY expires_at ASC LIMIT 1 over the rows of a snapshot.
Earliest(S) ==
    {i \in S : \A j \in S : userPlan[i].expires <= userPlan[j].expires}

StartRequest(r, u) ==
    /\ req[r].pc = "idle"
    /\ req' = [req EXCEPT ![r] = [@ EXCEPT !.pc = "consume", !.user = u]]
    /\ UNCHANGED <<clock, moneyVars, adminVars, userPlan, instRows>>

\* The UPDATE takes its snapshot: the subquery finds a row and waits for its
\* lock, or the statement affects no row.
ConsumeScan(r) ==
    /\ req[r].pc = "consume"
    /\ LET S == Eligible(req[r].user) IN
       \/ /\ S = {}
          /\ req' = [req EXCEPT ![r].pc = "probe"]
       \/ \E i \in Earliest(S) :
             req' = [req EXCEPT ![r] = [@ EXCEPT !.pc = "waiting",
                                        !.picked = i, !.rest = S \ {i}]]
    /\ UNCHANGED <<clock, moneyVars, adminVars, userPlan, instRows>>

\* The row lock is granted and the row re-checked against its latest
\* version (expires_at never changes and NOW() is fixed at the start of the
\* statement, so only remaining_calls can have changed).  The connection may
\* break after the statement took effect: the call is then consumed and the
\* request fails.
ConsumeApply(r) ==
    LET i == req[r].picked IN
    /\ req[r].pc = "waiting"
    /\ userPlan[i].remaining > 0
    /\ userPlan' = [userPlan EXCEPT ![i].remaining = @ - 1]
    /\ \E pc \in {"consumed", "burned"} :
          req' = [req EXCEPT ![r] = [@ EXCEPT !.pc = pc, !.rest = {}]]
    /\ UNCHANGED <<clock, moneyVars, adminVars, instRows>>

\* The re-check fails.  The code's comment says the statement then affects
\* no row; PostgreSQL may also lock the next row of the same snapshot.
ConsumeDropout(r) ==
    /\ req[r].pc = "waiting"
    /\ userPlan[req[r].picked].remaining = 0
    /\ \/ req' = [req EXCEPT ![r] = [@ EXCEPT !.pc = "probe", !.rest = {}]]
       \/ \E i \in Earliest(req[r].rest) :
             req' = [req EXCEPT ![r] = [@ EXCEPT !.picked = i,
                                        !.rest = req[r].rest \ {i}]]
    /\ UNCHANGED <<clock, moneyVars, adminVars, userPlan, instRows>>

LastAttempt(r) == req[r].attempts + 1 = MaxAttempts

\* The existence probe decides between retrying and NoActivePlan.
ConsumeProbe(r) ==
    LET none == Eligible(req[r].user) = {} IN
    /\ req[r].pc = "probe"
    /\ req' = [req EXCEPT ![r] = [@ EXCEPT
                 !.pc = IF none \/ LastAttempt(r) THEN "rejected"
                                                  ELSE "consume",
                 !.attempts = req[r].attempts + 1]]
    /\ UNCHANGED <<clock, moneyVars, adminVars, userPlan, instRows>>

\* The proxy either finds no channel or reaches an upstream (whose failures
\* are not refunded).
GatewayOutcome(r) ==
    /\ req[r].pc = "consumed"
    /\ \E pc \in {"nochannel", "served"} : req' = [req EXCEPT ![r].pc = pc]
    /\ UNCHANGED <<clock, moneyVars, adminVars, userPlan, instRows>>

\* Mutant: the ticket survives its refund.
RefundCallKeepsTicket(r) ==
    LET i == req[r].picked IN
    /\ req[r].pc = "nochannel"
    /\ userPlan' = IF userPlan[i].remaining < userPlan[i].total
                   THEN [userPlan EXCEPT ![i].remaining = @ + 1]
                   ELSE userPlan
    /\ UNCHANGED <<clock, moneyVars, adminVars, instRows, req>>

\* refund_plan_call: one UPDATE guarded by remaining_calls < total_calls.
RefundCall(r) ==
    LET i == req[r].picked IN
    /\ req[r].pc = "nochannel"
    /\ userPlan' = IF userPlan[i].remaining < userPlan[i].total
                   THEN [userPlan EXCEPT ![i].remaining = @ + 1]
                   ELSE userPlan
    /\ req' = [req EXCEPT ![r].pc = "refunded"]
    /\ UNCHANGED <<clock, moneyVars, adminVars, instRows>>

\* The refund is best effort, and the handler's future may be dropped or the
\* replica die before it runs: the call stays consumed.
Abandon(r) ==
    /\ req[r].pc \in {"consumed", "nochannel"}
    /\ req' = [req EXCEPT ![r].pc = "burned"]
    /\ UNCHANGED <<clock, moneyVars, adminVars, userPlan, instRows>>

-----------------------------------------------------------------------------
AdminStep ==
    \/ \E p \in Plans, tpl \in Templates : CreatePlan(p, tpl)
    \/ \E p \in Plans : \E new \in Updates(plan[p]) : UpdatePlan(p, new)
    \/ \E p \in Plans : DeletePlan(p)
    \/ \E u \in Users, p \in Plans, i \in Instances : AssignToUser(u, p, i)

TxnStep(t) ==
    \/ \E u \in Users, p \in Plans : PurchaseBegin(t, u, p)
    \/ PurchaseLoadPlan(t)
    \/ PurchaseCount(t)
    \/ \E i \in Instances : PurchaseCommit(t, i)
    \/ \E op \in {"adjust", "set"}, u \in Users, amount \in Amounts :
          BalanceBegin(t, op, u, amount)
    \/ AdjustCommit(t)
    \/ SetCommit(t)
    \/ Rollback(t)

RequestStep(r) ==
    \/ \E u \in Users : StartRequest(r, u)
    \/ ConsumeScan(r)
    \/ ConsumeApply(r)
    \/ ConsumeDropout(r)
    \/ ConsumeProbe(r)
    \/ GatewayOutcome(r)
    \/ RefundCall(r)
    \/ Abandon(r)

Next ==
    \/ Tick
    \/ AdminStep
    \/ \E t \in Txns : TxnStep(t)
    \/ \E r \in Requests : RequestStep(r)

Spec == Init /\ [][Next]_vars

-----------------------------------------------------------------------------
(* Properties.                                                             *)

TypeOK ==
    /\ clock \in 0..MaxClock
    /\ balance \in [Users -> Nat]
    /\ rowLock \in [Users -> Txns \cup {Free}]
    /\ plan \in [Plans -> PlanRow]
    /\ planState \in [Plans -> {"none", "live", "deleted"}]
    /\ userPlan \in [Instances -> Instance]
    /\ instRows \subseteq Instances /\ IsFiniteSet(instRows)
    /\ orders \subseteq Order
    /\ credited \in [Users -> Int]
    /\ txn \in [Txns -> TxnState]
    /\ req \in [Requests -> ReqState]

\* purchase and adjust_balance compute the new balance from a value they read
\* several awaits earlier, and set_balance overwrites it.  While a session is
\* between its read and its commit, the row still holds the value it read.
ReadStaysCurrent ==
    \A t \in Txns : txn[t].pc # "idle" => balance[txn[t].user] = txn[t].read

\* What a user spent on purchases, from the audit trail in payment_orders.
Spent(u) ==
    MapThenSumSet(LAMBDA o : o.amount, {o \in orders : o.user = u})

\* No concurrent purchase or adjustment is lost or applied twice: the balance
\* is exactly what admins credited minus what the paid orders add up to.
MoneyConserved == \A u \in Users : balance[u] + Spent(u) = credited[u]

\* However admins edit a plan while purchases are under way, nobody buys more
\* instances of it than the most generous purchase_limit it can have had.
PurchaseLimitHolds ==
    \A L \in {tpl.limit : tpl \in Templates} :
        (\A tpl \in Templates : tpl.limit \in 1..L) =>
            \A u \in Users, p \in Plans : Cardinality(Purchases(u, p)) <= L

\* The requests whose call on instance i is spent and not refunded.
ChargedPc == {"consumed", "nochannel", "served", "burned"}
Charged(i) == {r \in Requests : req[r].picked = i /\ req[r].pc \in ChargedPc}

\* Whatever the interleaving of consume_call, its retries, refunds and lost
\* answers, an instance is short of exactly one call per request charged to
\* it: no call is handed out twice, and no refund mints a call.
QuotaAccounting ==
    \A i \in instRows :
        userPlan[i].total - userPlan[i].remaining = Cardinality(Charged(i))

=============================================================================
