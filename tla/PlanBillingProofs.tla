-------------------------- MODULE PlanBillingProofs --------------------------
(***************************************************************************)
(* Proofs about PlanBilling for any number of users, plans, instances,     *)
(* sessions and requests.                                                  *)
(***************************************************************************)
EXTENDS PlanBilling, FiniteSetTheorems, WellFoundedInduction, TLAPS

-----------------------------------------------------------------------------
(* Types.                                                                  *)

\* What an update that passes validation leaves in the row is a row again.
LEMMA UpdatesType ==
    ASSUME NEW row \in PlanRow, NEW new \in Updates(row), ValidTemplate(new)
    PROVE  new \in PlanRow
<1>1. PICK tpl \in Templates, fields \in SUBSET Columns :
          new = Merge(row, tpl, fields)
  BY DEF Updates
<1>2. tpl \in Template /\ row \in Template
  BY PlanAssumption DEF PlanRow
<1>3. new \in Template
  BY <1>1, <1>2 DEF Merge, Template
<1> QED
  BY <1>3 DEF PlanRow

\* The arbitrary initial values have their types.
LEMMA AnyType ==
    /\ AnyUser \in Users
    /\ AnyPlan \in Plans
    /\ AnyInstance \in Instances
    /\ AnyPlanRow \in PlanRow
    /\ AnyRow \in Instance
    /\ IdleTxn \in TxnState
<1>1. AnyUser \in Users
  <2>1. \E u \in Users : TRUE
    BY PlanAssumption
  <2> QED
    BY <2>1 DEF AnyUser
<1>2. AnyPlan \in Plans
  <2>1. \E p \in Plans : TRUE
    BY PlanAssumption
  <2> QED
    BY <2>1 DEF AnyPlan
<1>3. AnyInstance \in Instances
  <2>1. \E i \in Instances : TRUE
    BY PlanAssumption
  <2> QED
    BY <2>1 DEF AnyInstance
<1>4. AnyPlanRow \in PlanRow
  BY DEF AnyPlanRow, PlanRow, Template, ValidTemplate, NoLimit
<1>5. AnyRow \in Instance
  BY <1>1, <1>2 DEF AnyRow, Instance
<1>6. IdleTxn \in TxnState
  BY <1>1, <1>2, <1>4 DEF IdleTxn, TxnState
<1> QED
  BY <1>1, <1>2, <1>3, <1>4, <1>5, <1>6

\* An instance made from a plan row at a time of the model has its type.
LEMMA NewInstanceType ==
    ASSUME clock \in Nat, NEW u \in Users, NEW p \in Plans,
           NEW tpl \in PlanRow, NEW src \in {"purchase", "admin_grant"}
    PROVE  NewInstance(u, p, tpl, src) \in Instance
  BY DEF NewInstance, Instance, PlanRow, Template, ValidTemplate

LEMMA TypeInit == Init => TypeOK
<1> SUFFICES ASSUME Init PROVE TypeOK
  OBVIOUS
<1>1. \A r \in Requests : req[r] \in ReqState
  BY AnyType DEF Init, ReqState, ReqPc
<1>2. req \in [Requests -> ReqState]
  BY <1>1 DEF Init
<1>3. txn \in [Txns -> TxnState]
  BY AnyType DEF Init
<1>4. /\ plan \in [Plans -> PlanRow]
      /\ userPlan \in [Instances -> Instance]
  BY AnyType DEF Init
<1>5. instRows \subseteq Instances /\ IsFiniteSet(instRows)
  BY FS_EmptySet DEF Init
<1>6. /\ clock \in 0..MaxClock
      /\ balance \in [Users -> Nat]
      /\ rowLock \in [Users -> Txns \cup {Free}]
      /\ planState \in [Plans -> {"none", "live", "deleted"}]
      /\ orders \subseteq Order
      /\ credited \in [Users -> Int]
  BY PlanAssumption DEF Init
<1> QED
  BY <1>2, <1>3, <1>4, <1>5, <1>6 DEF TypeOK

\* The steps of admins and of the clock keep the types.
LEMMA TypeAdmin ==
    ASSUME TypeOK, Tick \/ AdminStep
    PROVE  TypeOK'
<1> USE DEF TypeOK, adminVars, moneyVars
<1>1. CASE Tick
  BY <1>1, PlanAssumption DEF Tick
<1>2. ASSUME NEW p \in Plans, NEW tpl \in Templates, CreatePlan(p, tpl)
      PROVE  TypeOK'
  BY <1>2, PlanAssumption DEF CreatePlan, PlanRow
<1>3. ASSUME NEW p \in Plans, NEW new \in Updates(plan[p]), UpdatePlan(p, new)
      PROVE  TypeOK'
  <2>1. new \in PlanRow
    BY <1>3, UpdatesType DEF UpdatePlan
  <2> QED
    BY <1>3, <2>1 DEF UpdatePlan
<1>4. ASSUME NEW p \in Plans, DeletePlan(p)
      PROVE  TypeOK'
  BY <1>4 DEF DeletePlan
<1>5. ASSUME NEW u \in Users, NEW p \in Plans, NEW i \in Instances,
             AssignToUser(u, p, i)
      PROVE  TypeOK'
  <2>1. NewInstance(u, p, plan[p], "admin_grant") \in Instance
    BY NewInstanceType, PlanAssumption
  <2>2. IsFiniteSet(instRows \cup {i})
    BY FS_AddElement
  <2> QED
    BY <1>5, <2>1, <2>2 DEF AssignToUser
<1> QED
  BY <1>1, <1>2, <1>3, <1>4, <1>5 DEF AdminStep

\* The steps of a session keep the types.
LEMMA TypeTxn ==
    ASSUME TypeOK, NEW t \in Txns, TxnStep(t)
    PROVE  TypeOK'
<1> USE DEF TypeOK, adminVars
<1>t. txn[t] \in TxnState
  OBVIOUS
<1>1. ASSUME NEW u \in Users, NEW p \in Plans, PurchaseBegin(t, u, p)
      PROVE  TypeOK'
  BY <1>1, <1>t DEF PurchaseBegin, LockRow, TxnState
<1>2. CASE PurchaseLoadPlan(t)
  BY <1>2, <1>t DEF PurchaseLoadPlan, TxnState
<1>3. CASE PurchaseCount(t)
  <2>1. Cardinality(Purchases(txn[t].user, txn[t].plan)) \in Nat
    <3>1. IsFiniteSet(Purchases(txn[t].user, txn[t].plan))
      BY FS_Subset DEF Purchases
    <3> QED
      BY <3>1, FS_CardinalityType
  <2> QED
    BY <1>3, <1>t, <2>1 DEF PurchaseCount, TxnState
<1>4. ASSUME NEW i \in Instances, PurchaseCommit(t, i)
      PROVE  TypeOK'
  <2> DEFINE u == txn[t].user
             p == txn[t].plan
             quote == txn[t].quote
             o == [id |-> i, user |-> u, plan |-> p, amount |-> quote.price]
  <2>1. u \in Users /\ p \in Plans /\ quote \in PlanRow /\ txn[t].read \in Nat
    BY <1>t DEF TxnState
  <2>2. quote.price \in Nat
    BY <2>1 DEF PlanRow, Template, ValidTemplate
  <2>3. txn[t].read - quote.price \in Nat
    BY <1>4, <2>1, <2>2 DEF PurchaseCommit
  <2>4. balance' \in [Users -> Nat]
    BY <1>4, <2>1, <2>3 DEF PurchaseCommit
  <2>5. orders' \subseteq Order
    <3>1. o \in Order
      BY <2>1, <2>2 DEF Order
    <3>2. orders' = orders \cup {o}
      BY <1>4 DEF PurchaseCommit
    <3> QED
      BY <3>1, <3>2
  <2>6. userPlan' \in [Instances -> Instance]
    <3>1. NewInstance(u, p, quote, "purchase") \in Instance
      BY <2>1, NewInstanceType, PlanAssumption
    <3> QED
      BY <1>4, <3>1 DEF PurchaseCommit
  <2>7. instRows' \subseteq Instances /\ IsFiniteSet(instRows')
    BY <1>4, FS_AddElement DEF PurchaseCommit
  <2>8. txn' \in [Txns -> TxnState] /\ rowLock' \in [Users -> Txns \cup {Free}]
    BY <1>4, <2>1, AnyType DEF PurchaseCommit, EndTxn
  <2> QED
    BY <1>4, <2>4, <2>5, <2>6, <2>7, <2>8 DEF PurchaseCommit
<1>5. ASSUME NEW op \in {"adjust", "set"}, NEW u \in Users,
             NEW amount \in Amounts, BalanceBegin(t, op, u, amount)
      PROVE  TypeOK'
  BY <1>5, <1>t, PlanAssumption DEF BalanceBegin, LockRow, TxnState
<1>6. CASE AdjustCommit(t)
  BY <1>6, <1>t, AnyType DEF AdjustCommit, EndTxn, TxnState
<1>7. CASE SetCommit(t)
  BY <1>7, <1>t, AnyType DEF SetCommit, EndTxn, TxnState
<1>8. CASE Rollback(t)
  BY <1>8, <1>t, AnyType DEF Rollback, EndTxn, TxnState
<1> QED
  BY <1>1, <1>2, <1>3, <1>4, <1>5, <1>6, <1>7, <1>8 DEF TxnStep

\* The steps of a request keep the types.
LEMMA TypeReq ==
    ASSUME TypeOK, NEW r \in Requests, RequestStep(r)
    PROVE  TypeOK'
<1> USE DEF TypeOK, adminVars, moneyVars
<1>r. req[r] \in ReqState
  OBVIOUS
<1>1. ASSUME NEW u \in Users, StartRequest(r, u)
      PROVE  TypeOK'
  BY <1>1, <1>r DEF StartRequest, ReqState, ReqPc
<1>2. CASE ConsumeScan(r)
  <2> DEFINE S == Eligible(req[r].user)
  <2>1. S \subseteq Instances
    BY DEF Eligible
  <2>2. CASE req' = [req EXCEPT ![r].pc = "probe"]
    BY <1>2, <1>r, <2>2 DEF ConsumeScan, ReqState, ReqPc
  <2>3. ASSUME NEW i \in Earliest(S),
               req' = [req EXCEPT ![r] = [@ EXCEPT !.pc = "waiting",
                                          !.picked = i, !.rest = S \ {i}]]
        PROVE  TypeOK'
    <3>1. i \in Instances /\ S \ {i} \in SUBSET Instances
      BY <2>1 DEF Earliest
    <3>2. [req[r] EXCEPT !.pc = "waiting", !.picked = i, !.rest = S \ {i}]
             \in ReqState
      BY <1>r, <3>1 DEF ReqState, ReqPc
    <3>3. req' \in [Requests -> ReqState]
      BY <2>3, <3>2
    <3> QED
      BY <1>2, <3>3 DEF ConsumeScan
  <2> QED
    BY <1>2, <2>2, <2>3 DEF ConsumeScan
<1>3. CASE ConsumeApply(r)
  <2> DEFINE i == req[r].picked
  <2>1. i \in Instances /\ userPlan[i] \in Instance
    BY <1>r DEF ReqState
  <2>2. [userPlan[i] EXCEPT !.remaining = userPlan[i].remaining - 1] \in Instance
    BY <1>3, <2>1 DEF ConsumeApply, Instance
  <2>3. userPlan' \in [Instances -> Instance]
    BY <1>3, <2>2 DEF ConsumeApply
  <2>4. PICK pc \in {"consumed", "burned"} :
            req' = [req EXCEPT ![r] = [@ EXCEPT !.pc = pc, !.rest = {}]]
    BY <1>3 DEF ConsumeApply
  <2>5. req' \in [Requests -> ReqState]
    BY <1>r, <2>4 DEF ReqState, ReqPc
  <2> QED
    BY <1>3, <2>3, <2>5 DEF ConsumeApply
<1>4. CASE ConsumeDropout(r)
  <2>1. CASE req' = [req EXCEPT ![r] = [@ EXCEPT !.pc = "probe", !.rest = {}]]
    BY <1>4, <1>r, <2>1 DEF ConsumeDropout, ReqState, ReqPc
  <2>2. ASSUME NEW i \in Earliest(req[r].rest),
               req' = [req EXCEPT ![r] = [@ EXCEPT !.picked = i,
                                          !.rest = req[r].rest \ {i}]]
        PROVE  TypeOK'
    <3>1. i \in Instances /\ req[r].rest \ {i} \in SUBSET Instances
      BY <1>r DEF Earliest, ReqState
    <3>2. [req[r] EXCEPT !.picked = i, !.rest = req[r].rest \ {i}] \in ReqState
      BY <1>r, <3>1 DEF ReqState
    <3>3. req' \in [Requests -> ReqState]
      BY <2>2, <3>2
    <3> QED
      BY <1>4, <3>3 DEF ConsumeDropout
  <2> QED
    BY <1>4, <2>1, <2>2 DEF ConsumeDropout
<1>5. CASE ConsumeProbe(r)
  <2> DEFINE pc == IF Eligible(req[r].user) = {} \/ LastAttempt(r)
                   THEN "rejected" ELSE "consume"
  <2>0. pc \in ReqPc
    BY DEF ReqPc
  <2> HIDE DEF pc
  <2>1. [req[r] EXCEPT !.pc = pc, !.attempts = req[r].attempts + 1] \in ReqState
    <3>1. ASSUME NEW x \in ReqPc, NEW n \in Nat
          PROVE  [req[r] EXCEPT !.pc = x, !.attempts = n] \in ReqState
      BY <1>r DEF ReqState
    <3>2. req[r].attempts + 1 \in Nat
      BY <1>r DEF ReqState
    <3> QED
      BY <2>0, <3>1, <3>2
  <2>2. req' \in [Requests -> ReqState]
    BY <1>5, <2>1 DEF ConsumeProbe, pc
  <2> QED
    BY <1>5, <2>2 DEF ConsumeProbe
<1>6. CASE GatewayOutcome(r)
  BY <1>6, <1>r DEF GatewayOutcome, ReqState, ReqPc
<1>7. CASE RefundCall(r)
  <2> DEFINE i == req[r].picked
  <2>1. i \in Instances /\ userPlan[i] \in Instance
    BY <1>r DEF ReqState
  <2>2. [userPlan[i] EXCEPT !.remaining = userPlan[i].remaining + 1] \in Instance
    BY <2>1 DEF Instance
  <2>3. userPlan' \in [Instances -> Instance]
    BY <1>7, <2>2 DEF RefundCall
  <2>4. req' \in [Requests -> ReqState]
    BY <1>7, <1>r DEF RefundCall, ReqState, ReqPc
  <2> QED
    BY <1>7, <2>3, <2>4 DEF RefundCall
<1>8. CASE Abandon(r)
  BY <1>8, <1>r DEF Abandon, ReqState, ReqPc
<1> QED
  BY <1>1, <1>2, <1>3, <1>4, <1>5, <1>6, <1>7, <1>8 DEF RequestStep

\* Every state of the system is well typed: balances and counters never go
\* below zero, whatever the sessions and requests do.
THEOREM TypeCorrect == Spec => []TypeOK
<1>1. TypeOK /\ [Next]_vars => TypeOK'
  <2> SUFFICES ASSUME TypeOK, [Next]_vars PROVE TypeOK'
    OBVIOUS
  <2>1. CASE UNCHANGED vars
    BY <2>1 DEF vars, TypeOK
  <2>2. CASE Next
    BY <2>2, TypeAdmin, TypeTxn, TypeReq DEF Next
  <2> QED
    BY <2>1, <2>2
<1> QED
  BY <1>1, TypeInit, PTL DEF Spec

-----------------------------------------------------------------------------
(* The row lock and the value read under it.                               *)

\* A session that has begun holds the lock of its user's row.
LockHeld ==
    \A t \in Txns : txn[t].pc # "idle" => rowLock[txn[t].user] = t

MoneyInv == TypeOK /\ LockHeld /\ ReadStaysCurrent

\* A step that begins a session on a free row keeps both parts.
LEMMA BeginKeepsMoney ==
    ASSUME MoneyInv, NEW t \in Txns, NEW u \in Users, NEW new \in TxnState,
           LockRow(t, u), new.pc # "idle", new.user = u, new.read = balance[u],
           txn' = [txn EXCEPT ![t] = new], UNCHANGED balance
    PROVE  LockHeld' /\ ReadStaysCurrent'
<1> USE DEF MoneyInv, TypeOK
<1>1. ASSUME NEW s \in Txns, s # t, txn[s].pc # "idle"
      PROVE  txn[s].user # u
  BY <1>1, PlanAssumption DEF LockHeld, LockRow
<1>2. LockHeld'
  BY <1>1, PlanAssumption DEF LockHeld, LockRow, TxnState
<1>3. ReadStaysCurrent'
  BY <1>1 DEF ReadStaysCurrent, TxnState
<1> QED
  BY <1>2, <1>3

\* A step that ends a session, after writing its user's row or not, keeps both.
LEMMA EndKeepsMoney ==
    ASSUME MoneyInv, NEW t \in Txns, txn[t].pc # "idle", EndTxn(t), NEW b,
           balance' = [balance EXCEPT ![txn[t].user] = b]
    PROVE  LockHeld' /\ ReadStaysCurrent'
<1> USE DEF MoneyInv, TypeOK
<1>1. ASSUME NEW s \in Txns, s # t, txn[s].pc # "idle"
      PROVE  txn[s].user # txn[t].user
  BY <1>1 DEF LockHeld
<1>2. txn[t].user \in Users
  BY DEF TxnState
<1>3. \A s \in Txns : txn'[s] = IF s = t THEN IdleTxn ELSE txn[s]
  BY DEF EndTxn
<1>4. IdleTxn.pc = "idle"
  BY DEF IdleTxn
<1>5. \A s \in Txns : txn[s].user \in Users
  BY DEF TxnState
<1>6. LockHeld'
  <2> SUFFICES ASSUME NEW s \in Txns, txn'[s].pc # "idle"
               PROVE  rowLock'[txn'[s].user] = s
    BY DEF LockHeld
  <2>1. s # t /\ txn'[s] = txn[s]
    BY <1>3, <1>4
  <2>2. rowLock'[txn[s].user] = rowLock[txn[s].user]
    BY <1>1, <1>2, <1>5, <2>1 DEF EndTxn
  <2> QED
    BY <2>1, <2>2 DEF LockHeld
<1>7. ReadStaysCurrent'
  <2> SUFFICES ASSUME NEW s \in Txns, txn'[s].pc # "idle"
               PROVE  balance'[txn'[s].user] = txn'[s].read
    BY DEF ReadStaysCurrent
  <2>1. s # t /\ txn'[s] = txn[s]
    BY <1>3, <1>4
  <2>2. balance'[txn[s].user] = balance[txn[s].user]
    BY <1>1, <1>2, <1>5, <2>1
  <2> QED
    BY <2>1, <2>2 DEF ReadStaysCurrent
<1> QED
  BY <1>6, <1>7

\* A step of a session that neither begins nor ends it.
LEMMA MiddleKeepsMoney ==
    ASSUME MoneyInv, NEW t \in Txns, txn[t].pc # "idle", NEW new \in TxnState,
           new.user = txn[t].user, new.read = txn[t].read,
           txn' = [txn EXCEPT ![t] = new], UNCHANGED <<balance, rowLock>>
    PROVE  LockHeld' /\ ReadStaysCurrent'
  BY DEF MoneyInv, TypeOK, LockHeld, ReadStaysCurrent

LEMMA TxnKeepsMoney ==
    ASSUME MoneyInv, NEW t \in Txns, TxnStep(t)
    PROVE  LockHeld' /\ ReadStaysCurrent'
<1> USE DEF MoneyInv, TypeOK
<1>t. txn[t] \in TxnState
  OBVIOUS
<1>1. ASSUME NEW u \in Users, NEW p \in Plans, PurchaseBegin(t, u, p)
      PROVE  LockHeld' /\ ReadStaysCurrent'
  <2> DEFINE new == [txn[t] EXCEPT !.pc = "locked", !.op = "purchase",
                                   !.user = u, !.plan = p, !.read = balance[u]]
  <2>1. new \in TxnState /\ new.pc # "idle" /\ new.user = u
        /\ new.read = balance[u]
    BY <1>t DEF TxnState
  <2>2. LockRow(t, u) /\ txn' = [txn EXCEPT ![t] = new] /\ UNCHANGED balance
    BY <1>1 DEF PurchaseBegin
  <2> HIDE DEF new, MoneyInv, TypeOK
  <2> QED
    BY <2>1, <2>2, BeginKeepsMoney
<1>2. CASE PurchaseLoadPlan(t)
  <2> DEFINE new == [txn[t] EXCEPT !.pc = "planned", !.quote = plan[txn[t].plan]]
  <2>1. new \in TxnState /\ new.user = txn[t].user /\ new.read = txn[t].read
    BY <1>t DEF TxnState
  <2>2. txn[t].pc # "idle" /\ txn' = [txn EXCEPT ![t] = new]
        /\ UNCHANGED <<balance, rowLock>>
    BY <1>2 DEF PurchaseLoadPlan
  <2> HIDE DEF new, MoneyInv, TypeOK
  <2> QED
    BY <2>1, <2>2, MiddleKeepsMoney
<1>3. CASE PurchaseCount(t)
  <2> DEFINE n == Cardinality(Purchases(txn[t].user, txn[t].plan))
             new == [txn[t] EXCEPT !.pc = "counted", !.count = n]
  <2>0. n \in Nat
    <3>1. IsFiniteSet(Purchases(txn[t].user, txn[t].plan))
      BY FS_Subset DEF Purchases
    <3> QED
      BY <3>1, FS_CardinalityType
  <2>1. new \in TxnState /\ new.user = txn[t].user /\ new.read = txn[t].read
    BY <1>t, <2>0 DEF TxnState
  <2>2. txn[t].pc # "idle" /\ txn' = [txn EXCEPT ![t] = new]
        /\ UNCHANGED <<balance, rowLock>>
    BY <1>3 DEF PurchaseCount
  <2> HIDE DEF new, MoneyInv, TypeOK
  <2> QED
    BY <2>1, <2>2, MiddleKeepsMoney
<1>4. ASSUME NEW i \in Instances, PurchaseCommit(t, i)
      PROVE  LockHeld' /\ ReadStaysCurrent'
  <2>1. txn[t].pc # "idle" /\ EndTxn(t)
        /\ balance' = [balance EXCEPT ![txn[t].user] =
                          txn[t].read - txn[t].quote.price]
    BY <1>4 DEF PurchaseCommit
  <2> HIDE DEF MoneyInv, TypeOK
  <2> QED
    BY <2>1, EndKeepsMoney
<1>5. ASSUME NEW op \in {"adjust", "set"}, NEW u \in Users,
             NEW amount \in Amounts, BalanceBegin(t, op, u, amount)
      PROVE  LockHeld' /\ ReadStaysCurrent'
  <2> DEFINE new == [txn[t] EXCEPT !.pc = "locked", !.op = op, !.user = u,
                                   !.amount = amount, !.read = balance[u]]
  <2>1. new \in TxnState /\ new.pc # "idle" /\ new.user = u
        /\ new.read = balance[u]
    BY <1>t, PlanAssumption DEF TxnState
  <2>2. LockRow(t, u) /\ txn' = [txn EXCEPT ![t] = new] /\ UNCHANGED balance
    BY <1>5 DEF BalanceBegin
  <2> HIDE DEF new, MoneyInv, TypeOK
  <2> QED
    BY <2>1, <2>2, BeginKeepsMoney
<1>6. CASE AdjustCommit(t)
  <2>1. txn[t].pc # "idle" /\ EndTxn(t)
        /\ balance' = [balance EXCEPT ![txn[t].user] =
                          txn[t].read + txn[t].amount]
    BY <1>6 DEF AdjustCommit
  <2> HIDE DEF MoneyInv, TypeOK
  <2> QED
    BY <2>1, EndKeepsMoney
<1>7. CASE SetCommit(t)
  <2>1. txn[t].pc # "idle" /\ EndTxn(t)
        /\ balance' = [balance EXCEPT ![txn[t].user] = txn[t].amount]
    BY <1>7 DEF SetCommit
  <2> HIDE DEF MoneyInv, TypeOK
  <2> QED
    BY <2>1, EndKeepsMoney
<1>8. CASE Rollback(t)
  <2>1. txn[t].pc # "idle" /\ EndTxn(t)
        /\ balance' = [balance EXCEPT ![txn[t].user] = balance[txn[t].user]]
    BY <1>8, <1>t DEF Rollback, TxnState
  <2> HIDE DEF MoneyInv, TypeOK
  <2> QED
    BY <2>1, EndKeepsMoney
<1> QED
  BY <1>1, <1>2, <1>3, <1>4, <1>5, <1>6, <1>7, <1>8 DEF TxnStep

\* Steps of admins, of the clock and of requests leave the money alone.
LEMMA OthersLeaveMoney ==
    ASSUME Tick \/ AdminStep \/ (\E r \in Requests : RequestStep(r))
    PROVE  UNCHANGED moneyVars
<1>1. CASE Tick
  BY <1>1 DEF Tick
<1>2. CASE AdminStep
  BY <1>2 DEF AdminStep, CreatePlan, UpdatePlan, DeletePlan, AssignToUser
<1>3. ASSUME NEW r \in Requests, RequestStep(r)
      PROVE  UNCHANGED moneyVars
  BY <1>3 DEF RequestStep, StartRequest, ConsumeScan, ConsumeApply,
     ConsumeDropout, ConsumeProbe, GatewayOutcome, RefundCall, Abandon
<1> QED
  BY <1>1, <1>2, <1>3

LEMMA MoneyStep == MoneyInv /\ [Next]_vars => MoneyInv'
<1> SUFFICES ASSUME MoneyInv, [Next]_vars PROVE MoneyInv'
  OBVIOUS
<1>1. TypeOK'
  <2>1. CASE UNCHANGED vars
    BY <2>1 DEF vars, MoneyInv, TypeOK
  <2>2. CASE Next
    BY <2>2, TypeAdmin, TypeTxn, TypeReq DEF Next, MoneyInv
  <2> QED
    BY <2>1, <2>2
<1>2. LockHeld' /\ ReadStaysCurrent'
  <2>1. CASE UNCHANGED moneyVars
    BY <2>1 DEF moneyVars, MoneyInv, LockHeld, ReadStaysCurrent
  <2>2. CASE UNCHANGED vars
    BY <2>1, <2>2 DEF vars, moneyVars
  <2>3. CASE Tick \/ AdminStep \/ (\E r \in Requests : RequestStep(r))
    BY <2>1, <2>3, OthersLeaveMoney
  <2>4. ASSUME NEW t \in Txns, TxnStep(t)
        PROVE  LockHeld' /\ ReadStaysCurrent'
    BY <2>4, TxnKeepsMoney
  <2> QED
    BY <2>2, <2>3, <2>4 DEF Next
<1> QED
  BY <1>1, <1>2 DEF MoneyInv

\* FOR UPDATE is enough: the balance that purchase and adjust_balance read is
\* still the balance when they write, with any number of sessions.
THEOREM ReadsAreCurrent == Spec => []ReadStaysCurrent
<1>1. Init => MoneyInv
  <2> SUFFICES ASSUME Init PROVE MoneyInv
    OBVIOUS
  <2>1. \A t \in Txns : txn[t].pc = "idle"
    BY DEF Init, IdleTxn
  <2> QED
    BY <2>1, TypeInit DEF MoneyInv, LockHeld, ReadStaysCurrent
<1>2. MoneyInv => ReadStaysCurrent
  BY DEF MoneyInv
<1> QED
  BY <1>1, <1>2, MoneyStep, PTL DEF Spec

-----------------------------------------------------------------------------
(* The call quota.                                                         *)

\* A request only ever points at rows that exist.
PickedExists ==
    \A r \in Requests :
        /\ req[r].pc \in ChargedPc \cup {"waiting"} => req[r].picked \in instRows
        /\ req[r].rest \subseteq instRows

QuotaInv == TypeOK /\ PickedExists /\ QuotaAccounting

LEMMA ChargedFinite ==
    ASSUME NEW i
    PROVE  IsFiniteSet(Charged(i)) /\ Cardinality(Charged(i)) \in Nat
<1>1. IsFiniteSet(Charged(i))
  BY PlanAssumption, FS_Subset DEF Charged
<1> QED
  BY <1>1, FS_CardinalityType

\* A row inserted by a purchase or a grant is full, and nobody is charged yet.
LEMMA NewRowKeepsQuota ==
    ASSUME QuotaInv, NEW i \in Instances, i \notin instRows,
           NEW row, row.total \in Nat, row.remaining = row.total,
           instRows' = instRows \cup {i},
           userPlan' = [userPlan EXCEPT ![i] = row],
           UNCHANGED req
    PROVE  PickedExists' /\ QuotaAccounting'
<1> USE DEF QuotaInv, TypeOK
<1>1. PickedExists'
  BY DEF PickedExists
<1>2. \A j : Charged(j)' = Charged(j)
  BY DEF Charged
<1>3. Charged(i) = {}
  BY DEF Charged, PickedExists
<1>4. QuotaAccounting'
  <2> SUFFICES ASSUME NEW j \in instRows'
               PROVE  userPlan'[j].total - userPlan'[j].remaining
                         = Cardinality(Charged(j)')
    BY DEF QuotaAccounting
  <2>1. CASE j = i
    <3>1. userPlan'[i] = row
      OBVIOUS
    <3>2. Cardinality(Charged(i)') = 0
      BY <1>2, <1>3, FS_EmptySet
    <3> QED
      BY <2>1, <3>1, <3>2
  <2>2. CASE j # i
    BY <1>2, <2>2 DEF QuotaAccounting
  <2> QED
    BY <2>1, <2>2
<1> QED
  BY <1>1, <1>4

\* A request step that moves no call: its charge is the same before and after.
LEMMA NoMoveKeepsQuota ==
    ASSUME QuotaInv, NEW r \in Requests, NEW new \in ReqState,
           req' = [req EXCEPT ![r] = new], UNCHANGED <<userPlan, instRows>>,
           new.rest \subseteq instRows,
           \/ /\ req[r].pc \notin ChargedPc /\ new.pc \notin ChargedPc
              /\ new.pc = "waiting" => new.picked \in instRows
           \/ /\ req[r].pc \in ChargedPc /\ new.pc \in ChargedPc
              /\ new.picked = req[r].picked
    PROVE  PickedExists' /\ QuotaAccounting'
<1> USE DEF QuotaInv, TypeOK
<1>1. PickedExists'
  <2> SUFFICES ASSUME NEW q \in Requests
               PROVE  /\ req'[q].pc \in ChargedPc \cup {"waiting"}
                            => req'[q].picked \in instRows
                      /\ req'[q].rest \subseteq instRows
    BY DEF PickedExists
  <2>1. CASE q = r
    BY <2>1 DEF PickedExists
  <2>2. CASE q # r
    BY <2>2 DEF PickedExists
  <2> QED
    BY <2>1, <2>2
<1>2. \A j : Charged(j)' = Charged(j)
  BY DEF Charged
<1>3. QuotaAccounting'
  BY <1>2 DEF QuotaAccounting
<1> QED
  BY <1>1, <1>3

\* Consuming a call charges the request and takes the call from the same row.
LEMMA ApplyKeepsQuota ==
    ASSUME QuotaInv, NEW r \in Requests, ConsumeApply(r)
    PROVE  PickedExists' /\ QuotaAccounting'
<1> USE DEF QuotaInv, TypeOK
<1>i. PICK i : i = req[r].picked
  OBVIOUS
<1>0. req[r] \in ReqState /\ i \in instRows /\ i \in Instances
  BY <1>i DEF ConsumeApply, PickedExists, ReqState
<1>1. PICK pc \in {"consumed", "burned"} :
          req' = [req EXCEPT ![r] = [@ EXCEPT !.pc = pc, !.rest = {}]]
  BY DEF ConsumeApply
<1>2. /\ req'[r].pc \in ChargedPc /\ req'[r].picked = i /\ req'[r].rest = {}
      /\ \A q \in Requests : q # r => req'[q] = req[q]
  BY <1>0, <1>i, <1>1 DEF ReqState, ChargedPc
<1>3. PickedExists'
  BY <1>0, <1>i, <1>2 DEF PickedExists, ConsumeApply
<1>4. Charged(i)' = Charged(i) \cup {r} /\ r \notin Charged(i)
  BY <1>0, <1>i, <1>2 DEF Charged, ConsumeApply, ChargedPc
<1>5. \A j \in instRows : j # i => Charged(j)' = Charged(j)
  BY <1>0, <1>i, <1>2 DEF Charged
<1>6. /\ userPlan'[i].total = userPlan[i].total
      /\ userPlan'[i].remaining = userPlan[i].remaining - 1
      /\ \A j \in instRows : j # i => userPlan'[j] = userPlan[j]
  BY <1>0, <1>i DEF ConsumeApply, Instance
<1>7. Cardinality(Charged(i)') = Cardinality(Charged(i)) + 1
  BY <1>4, ChargedFinite, FS_AddElement
<1>8. userPlan[i].total \in Nat /\ userPlan[i].remaining \in Nat
  BY <1>0, <1>i DEF Instance
<1>9. QuotaAccounting'
  <2> SUFFICES ASSUME NEW j \in instRows
               PROVE  userPlan'[j].total - userPlan'[j].remaining
                         = Cardinality(Charged(j)')
    BY DEF QuotaAccounting, ConsumeApply
  <2>1. CASE j = i
    <3>1. userPlan[i].total - userPlan[i].remaining = Cardinality(Charged(i))
      BY <1>0 DEF QuotaAccounting
    <3> QED
      BY <1>6, <1>7, <1>8, <2>1, <3>1
  <2>2. CASE j # i
    BY <1>5, <1>6, <2>2 DEF QuotaAccounting
  <2> QED
    BY <2>1, <2>2
<1> QED
  BY <1>3, <1>9

\* A refund finds the row short of a call, because the request is charged to
\* it, and gives back exactly that call.
LEMMA RefundKeepsQuota ==
    ASSUME QuotaInv, NEW r \in Requests, RefundCall(r)
    PROVE  PickedExists' /\ QuotaAccounting'
<1> USE DEF QuotaInv, TypeOK
<1>i. PICK i : i = req[r].picked
  OBVIOUS
<1>0. /\ req[r] \in ReqState /\ i \in instRows /\ i \in Instances
      /\ r \in Charged(i)
  BY <1>i DEF RefundCall, PickedExists, ReqState, ChargedPc, Charged
<1>1. userPlan[i].total \in Nat /\ userPlan[i].remaining \in Nat
  BY <1>0, <1>i DEF Instance
<1>2. /\ req'[r].pc = "refunded" /\ req'[r].picked = i
      /\ req'[r].rest = req[r].rest
      /\ \A q \in Requests : q # r => req'[q] = req[q]
  BY <1>0, <1>i DEF RefundCall, ReqState
<1>3. PickedExists'
  BY <1>0, <1>i, <1>2 DEF PickedExists, RefundCall, ChargedPc
<1>4. Charged(i)' = Charged(i) \ {r}
  BY <1>0, <1>i, <1>2 DEF Charged, ChargedPc
<1>5. \A j \in instRows : j # i => Charged(j)' = Charged(j)
  BY <1>0, <1>i, <1>2 DEF Charged
<1>6. Cardinality(Charged(i)') = Cardinality(Charged(i)) - 1
  <2>1. IsFiniteSet(Charged(i))
    BY ChargedFinite
  <2>2. Cardinality(Charged(i) \ {r}) = Cardinality(Charged(i)) - 1
    BY <1>0, <2>1, FS_RemoveElement
  <2> QED
    BY <1>4, <2>2
<1>7. Cardinality(Charged(i)) # 0
  BY <1>0, ChargedFinite, FS_EmptySet
<1>8. userPlan[i].remaining < userPlan[i].total
  BY <1>0, <1>1, <1>7, ChargedFinite DEF QuotaAccounting
<1>9. /\ userPlan'[i].total = userPlan[i].total
      /\ userPlan'[i].remaining = userPlan[i].remaining + 1
      /\ \A j \in instRows : j # i => userPlan'[j] = userPlan[j]
  BY <1>0, <1>i, <1>8 DEF RefundCall, Instance
<1>10. QuotaAccounting'
  <2> SUFFICES ASSUME NEW j \in instRows
               PROVE  userPlan'[j].total - userPlan'[j].remaining
                         = Cardinality(Charged(j)')
    BY DEF QuotaAccounting, RefundCall
  <2>1. CASE j = i
    <3>1. userPlan[i].total - userPlan[i].remaining = Cardinality(Charged(i))
      BY <1>0 DEF QuotaAccounting
    <3> QED
      BY <1>1, <1>6, <1>9, <2>1, <3>1
  <2>2. CASE j # i
    BY <1>5, <1>9, <2>2 DEF QuotaAccounting
  <2> QED
    BY <2>1, <2>2
<1> QED
  BY <1>3, <1>10

LEMMA ReqKeepsQuota ==
    ASSUME QuotaInv, NEW r \in Requests, RequestStep(r)
    PROVE  PickedExists' /\ QuotaAccounting'
<1> USE DEF QuotaInv, TypeOK
<1> DEFINE Goal == PickedExists' /\ QuotaAccounting'
<1>r. req[r] \in ReqState /\ req[r].rest \subseteq instRows
  BY DEF PickedExists
<1>1. ASSUME NEW u \in Users, StartRequest(r, u) PROVE Goal
  <2> DEFINE new == [req[r] EXCEPT !.pc = "consume", !.user = u]
  <2>1. /\ new \in ReqState /\ new.rest \subseteq instRows
        /\ new.pc \notin ChargedPc \cup {"waiting"}
    BY <1>r DEF ReqState, ReqPc, ChargedPc
  <2>2. /\ req' = [req EXCEPT ![r] = new] /\ UNCHANGED <<userPlan, instRows>>
        /\ req[r].pc \notin ChargedPc
    BY <1>1 DEF StartRequest, ChargedPc
  <2> HIDE DEF new, QuotaInv, TypeOK
  <2> QED
    BY <2>1, <2>2, NoMoveKeepsQuota
<1>2. CASE ConsumeScan(r)
  <2>1. req[r].pc \notin ChargedPc /\ UNCHANGED <<userPlan, instRows>>
    BY <1>2 DEF ConsumeScan, ChargedPc
  <2>2. ASSUME req' = [req EXCEPT ![r].pc = "probe"] PROVE Goal
    <3> DEFINE new == [req[r] EXCEPT !.pc = "probe"]
    <3>1. /\ new \in ReqState /\ new.rest \subseteq instRows
          /\ new.pc \notin ChargedPc \cup {"waiting"}
      BY <1>r DEF ReqState, ReqPc, ChargedPc
    <3>2. req' = [req EXCEPT ![r] = new]
      BY <2>2
    <3> HIDE DEF new, QuotaInv, TypeOK
    <3> QED
      BY <2>1, <3>1, <3>2, NoMoveKeepsQuota
  <2>3. ASSUME NEW i \in Earliest(Eligible(req[r].user)),
               req' = [req EXCEPT ![r] = [@ EXCEPT !.pc = "waiting",
                          !.picked = i,
                          !.rest = Eligible(req[r].user) \ {i}]]
        PROVE  Goal
    <3> DEFINE new == [req[r] EXCEPT !.pc = "waiting", !.picked = i,
                          !.rest = Eligible(req[r].user) \ {i}]
    <3>0. i \in instRows /\ Eligible(req[r].user) \subseteq instRows
      BY DEF Earliest, Eligible
    <3>1. /\ new \in ReqState /\ new.rest \subseteq instRows
          /\ new.pc \notin ChargedPc /\ new.picked \in instRows
      BY <1>r, <3>0 DEF ReqState, ReqPc, ChargedPc
    <3>2. req' = [req EXCEPT ![r] = new]
      BY <2>3
    <3> HIDE DEF new, QuotaInv, TypeOK
    <3> QED
      BY <2>1, <3>1, <3>2, NoMoveKeepsQuota
  <2> QED
    BY <1>2, <2>2, <2>3 DEF ConsumeScan
<1>3. CASE ConsumeApply(r)
  BY <1>3, ApplyKeepsQuota
<1>4. CASE ConsumeDropout(r)
  <2>1. req[r].pc \notin ChargedPc /\ UNCHANGED <<userPlan, instRows>>
    BY <1>4 DEF ConsumeDropout, ChargedPc
  <2>2. ASSUME req' = [req EXCEPT ![r] = [@ EXCEPT !.pc = "probe", !.rest = {}]]
        PROVE  Goal
    <3> DEFINE new == [req[r] EXCEPT !.pc = "probe", !.rest = {}]
    <3>1. /\ new \in ReqState /\ new.rest \subseteq instRows
          /\ new.pc \notin ChargedPc \cup {"waiting"}
      BY <1>r DEF ReqState, ReqPc, ChargedPc
    <3>2. req' = [req EXCEPT ![r] = new]
      BY <2>2
    <3> HIDE DEF new, QuotaInv, TypeOK
    <3> QED
      BY <2>1, <3>1, <3>2, NoMoveKeepsQuota
  <2>3. ASSUME NEW i \in Earliest(req[r].rest),
               req' = [req EXCEPT ![r] = [@ EXCEPT !.picked = i,
                                          !.rest = req[r].rest \ {i}]]
        PROVE  Goal
    <3> DEFINE new == [req[r] EXCEPT !.picked = i, !.rest = req[r].rest \ {i}]
    <3>0. i \in instRows
      BY <1>r DEF Earliest
    <3>1. /\ new \in ReqState /\ new.rest \subseteq instRows
          /\ new.pc \notin ChargedPc /\ new.picked \in instRows
      BY <1>r, <2>1, <3>0 DEF ReqState, ReqPc
    <3>2. req' = [req EXCEPT ![r] = new]
      BY <2>3
    <3> HIDE DEF new, QuotaInv, TypeOK
    <3> QED
      BY <2>1, <3>1, <3>2, NoMoveKeepsQuota
  <2> QED
    BY <1>4, <2>2, <2>3 DEF ConsumeDropout
<1>5. CASE ConsumeProbe(r)
  <2>1. req[r].pc \notin ChargedPc /\ UNCHANGED <<userPlan, instRows>>
    BY <1>5 DEF ConsumeProbe, ChargedPc
  <2>2. PICK pc \in {"rejected", "consume"} :
           req' = [req EXCEPT ![r] = [@ EXCEPT !.pc = pc,
                                      !.attempts = req[r].attempts + 1]]
    BY <1>5 DEF ConsumeProbe
  <2> DEFINE new == [req[r] EXCEPT !.pc = pc, !.attempts = req[r].attempts + 1]
  <2>3. /\ new \in ReqState /\ new.rest \subseteq instRows
        /\ new.pc \notin ChargedPc \cup {"waiting"}
    <3>1. ASSUME NEW n \in Nat, NEW x \in {"rejected", "consume"}
          PROVE  LET m == [req[r] EXCEPT !.pc = x, !.attempts = n] IN
                 /\ m \in ReqState /\ m.rest = req[r].rest /\ m.pc = x
      BY <1>r DEF ReqState, ReqPc
    <3>2. req[r].attempts + 1 \in Nat
      BY <1>r DEF ReqState
    <3>3. new \in ReqState /\ new.rest = req[r].rest /\ new.pc = pc
      BY <2>2, <3>1, <3>2
    <3> HIDE DEF new
    <3> QED
      BY <1>r, <2>2, <3>3 DEF ChargedPc
  <2>4. req' = [req EXCEPT ![r] = new]
    BY <2>2
  <2> HIDE DEF new, QuotaInv, TypeOK
  <2> QED
    BY <2>1, <2>3, <2>4, NoMoveKeepsQuota
<1>6. CASE GatewayOutcome(r) \/ Abandon(r)
  <2>1. req[r].pc \in ChargedPc /\ UNCHANGED <<userPlan, instRows>>
    BY <1>6 DEF GatewayOutcome, Abandon, ChargedPc
  <2>2. PICK pc \in ChargedPc : req' = [req EXCEPT ![r].pc = pc]
    BY <1>6 DEF GatewayOutcome, Abandon, ChargedPc
  <2> DEFINE new == [req[r] EXCEPT !.pc = pc]
  <2>3. /\ new \in ReqState /\ new.rest \subseteq instRows
        /\ new.pc \in ChargedPc /\ new.picked = req[r].picked
    BY <1>r, <2>2 DEF ReqState, ReqPc, ChargedPc
  <2>4. req' = [req EXCEPT ![r] = new]
    BY <2>2
  <2> HIDE DEF new, QuotaInv, TypeOK
  <2> QED
    BY <2>1, <2>3, <2>4, NoMoveKeepsQuota
<1>7. CASE RefundCall(r)
  BY <1>7, RefundKeepsQuota
<1> QED
  BY <1>1, <1>2, <1>3, <1>4, <1>5, <1>6, <1>7 DEF RequestStep

\* The steps that insert an instance.
LEMMA InsertKeepsQuota ==
    ASSUME QuotaInv, NEW u \in Users, NEW p \in Plans, NEW i \in Instances,
           NEW tpl \in PlanRow, NEW src, i \notin instRows,
           instRows' = instRows \cup {i},
           userPlan' = [userPlan EXCEPT ![i] = NewInstance(u, p, tpl, src)],
           UNCHANGED req
    PROVE  PickedExists' /\ QuotaAccounting'
<1>1. PICK row : row = NewInstance(u, p, tpl, src)
  OBVIOUS
<1>2. row.total \in Nat /\ row.remaining = row.total
  BY <1>1 DEF NewInstance, PlanRow, Template, ValidTemplate
<1> QED
  BY <1>1, <1>2, NewRowKeepsQuota

LEMMA QuotaStep == QuotaInv /\ [Next]_vars => QuotaInv'
<1> SUFFICES ASSUME QuotaInv, [Next]_vars PROVE QuotaInv'
  OBVIOUS
<1>1. TypeOK'
  <2>1. CASE UNCHANGED vars
    BY <2>1 DEF vars, QuotaInv, TypeOK
  <2>2. CASE Next
    BY <2>2, TypeAdmin, TypeTxn, TypeReq DEF Next, QuotaInv
  <2> QED
    BY <2>1, <2>2
<1>2. PickedExists' /\ QuotaAccounting'
  <2>1. CASE UNCHANGED <<userPlan, instRows, req>>
    BY <2>1 DEF QuotaInv, PickedExists, QuotaAccounting, Charged
  <2>2. CASE UNCHANGED vars
    BY <2>1, <2>2 DEF vars
  <2>3. CASE Tick
    BY <2>1, <2>3 DEF Tick
  <2>4. CASE AdminStep
    <3>1. ASSUME NEW u \in Users, NEW p \in Plans, NEW i \in Instances,
                 AssignToUser(u, p, i)
          PROVE  PickedExists' /\ QuotaAccounting'
      <4>1. plan[p] \in PlanRow
        BY DEF QuotaInv, TypeOK
      <4> QED
        BY <3>1, <4>1, InsertKeepsQuota DEF AssignToUser
    <3>2. CASE \E p \in Plans : \/ \E tpl \in Templates : CreatePlan(p, tpl)
                                \/ \E new \in Updates(plan[p]) : UpdatePlan(p, new)
                                \/ DeletePlan(p)
      BY <2>1, <3>2 DEF CreatePlan, UpdatePlan, DeletePlan
    <3> QED
      BY <2>4, <3>1, <3>2 DEF AdminStep
  <2>5. ASSUME NEW t \in Txns, TxnStep(t)
        PROVE  PickedExists' /\ QuotaAccounting'
    <3>1. ASSUME NEW i \in Instances, PurchaseCommit(t, i)
          PROVE  PickedExists' /\ QuotaAccounting'
      <4>1. /\ txn[t].quote \in PlanRow /\ txn[t].user \in Users
            /\ txn[t].plan \in Plans
        BY DEF QuotaInv, TypeOK, TxnState
      <4>2. /\ i \notin instRows /\ instRows' = instRows \cup {i}
            /\ userPlan' = [userPlan EXCEPT ![i] =
                   NewInstance(txn[t].user, txn[t].plan, txn[t].quote, "purchase")]
            /\ UNCHANGED req
        BY <3>1 DEF PurchaseCommit
      <4> QED
        BY <4>1, <4>2, InsertKeepsQuota
    <3>2. CASE \/ \E u \in Users, p \in Plans : PurchaseBegin(t, u, p)
               \/ PurchaseLoadPlan(t) \/ PurchaseCount(t)
               \/ \E op \in {"adjust", "set"}, u \in Users,
                     amount \in Amounts : BalanceBegin(t, op, u, amount)
               \/ AdjustCommit(t) \/ SetCommit(t) \/ Rollback(t)
      BY <2>1, <3>2 DEF PurchaseBegin, PurchaseLoadPlan, PurchaseCount,
         BalanceBegin, AdjustCommit, SetCommit, Rollback
    <3> QED
      BY <2>5, <3>1, <3>2 DEF TxnStep
  <2>6. ASSUME NEW r \in Requests, RequestStep(r)
        PROVE  PickedExists' /\ QuotaAccounting'
    BY <2>6, ReqKeepsQuota
  <2> QED
    BY <2>2, <2>3, <2>4, <2>5, <2>6 DEF Next
<1> QED
  BY <1>1, <1>2 DEF QuotaInv

\* With any number of requests, instances and retries: an instance is short
\* of exactly the calls of the requests charged to it.
THEOREM QuotaIsExact == Spec => []QuotaAccounting
<1>1. Init => QuotaInv
  BY TypeInit DEF Init, QuotaInv, PickedExists, QuotaAccounting, ChargedPc
<1>2. QuotaInv => QuotaAccounting
  BY DEF QuotaInv
<1> QED
  BY <1>1, <1>2, QuotaStep, PTL DEF Spec

-----------------------------------------------------------------------------
(* Sums over the audit trail.  The library's sum is a recursive function,  *)
(* of which nothing is known before such a function is shown to exist; the *)
(* inductions are on the least subset that breaks a claim.                 *)

\* The sum of the amounts of a set of orders, and the function the library's
\* definition of it is built on.
Total(S) == MapThenSumSet(LAMBDA o : o.amount, S)

First(s) == CHOOSE x \in s : TRUE

Sums(g, S) ==
    g = [s \in SUBSET S |-> IF s = {} THEN 0 ELSE First(s).amount + g[s \ {First(s)}]]

LEMMA TotalIsChosen == ASSUME NEW S PROVE Total(S) = (CHOOSE g : Sums(g, S))[S]
BY DEF Total, MapThenSumSet, MapThenFoldSet, Sums, First

LEMMA FirstIn == ASSUME NEW s, s # {} PROVE First(s) \in s
BY DEF First

\* Among some subsets of a finite set there is one that has no other inside it:
\* what a proof by induction on the size of a set needs.
LEMMA LeastSubset ==
    ASSUME NEW S, IsFiniteSet(S), NEW Bad \in SUBSET SUBSET S, Bad # {}
    PROVE  \E T \in Bad : \A U \in Bad : U \subseteq T => U = T
<1>1. IsWellFoundedOn(StrictSubsetOrdering(S), SUBSET S)
  BY FS_StrictSubsetOrderingWellFounded, FS_FiniteSubsetsOfFinite
<1>2. PICK T \in Bad : \A U \in Bad : ~(<<U, T>> \in StrictSubsetOrdering(S))
  BY <1>1, WFMin
<1>3. ASSUME NEW U \in Bad, U \subseteq T, U # T PROVE FALSE
  BY <1>2, <1>3 DEF StrictSubsetOrdering
<1> QED
  BY <1>3

\* Two such functions agree where both are defined.
LEMMA SumsAgree ==
    ASSUME NEW A, NEW B, IsFiniteSet(A), NEW g, NEW h, Sums(g, A), Sums(h, B),
           NEW s, s \subseteq A, s \subseteq B
    PROVE  g[s] = h[s]
<1> DEFINE Bad == {t \in SUBSET A : t \subseteq B /\ g[t] # h[t]}
<1> SUFFICES ASSUME Bad # {} PROVE FALSE
  OBVIOUS
<1>1. PICK t \in Bad : \A u \in Bad : u \subseteq t => u = t
  <2>1. Bad \in SUBSET SUBSET A
    OBVIOUS
  <2> HIDE DEF Bad
  <2> QED
    BY <2>1, LeastSubset
<1>2. g[t] = IF t = {} THEN 0 ELSE First(t).amount + g[t \ {First(t)}]
  BY DEF Sums
<1>3. h[t] = IF t = {} THEN 0 ELSE First(t).amount + h[t \ {First(t)}]
  BY DEF Sums
<1>4. t # {}
  BY <1>2, <1>3
<1>5. First(t) \in t
  BY <1>4, FirstIn
<1>6. g[t \ {First(t)}] = h[t \ {First(t)}]
  BY <1>1, <1>5
<1> QED
  BY <1>2, <1>3, <1>6

\* There is such a function on every finite set.
LEMMA SumsExist ==
    ASSUME NEW S, IsFiniteSet(S)
    PROVE  \E g : Sums(g, S)
<1> DEFINE Bad == {T \in SUBSET S : ~ \E g : Sums(g, T)}
           G(T) == CHOOSE g : Sums(g, T)
<1> SUFFICES ASSUME Bad # {} PROVE FALSE
  OBVIOUS
<1>1. PICK T \in Bad : \A U \in Bad : U \subseteq T => U = T
  <2>1. Bad \in SUBSET SUBSET S
    OBVIOUS
  <2> HIDE DEF Bad
  <2> QED
    BY <2>1, LeastSubset
<1>2. \A U \in SUBSET T : U # T => Sums(G(U), U)
  BY <1>1
<1>f. \A U \in SUBSET T : IsFiniteSet(U)
  BY FS_Subset
<1> DEFINE h == [s \in SUBSET T |-> IF s # T THEN G(s)[s]
                                    ELSE IF T = {} THEN 0
                                    ELSE First(T).amount + G(T \ {First(T)})[T \ {First(T)}]]
<1> HIDE DEF G
<1>3. ASSUME NEW s \in SUBSET T
      PROVE  h[s] = IF s = {} THEN 0 ELSE First(s).amount + h[s \ {First(s)}]
  <2>1. CASE s = {} /\ s # T
    <3>1. G(s)[s] = 0
      BY <1>2, <2>1 DEF Sums
    <3> QED
      BY <2>1, <3>1
  <2>2. CASE s = {} /\ s = T
    BY <2>2
  <2>3. CASE s # {} /\ s = T
    <3>1. First(s) \in s
      BY <2>3, FirstIn
    <3> QED
      BY <2>3, <3>1
  <2>4. CASE s # {} /\ s # T
    <3> DEFINE r == s \ {First(s)}
    <3>1. First(s) \in s
      BY <2>4, FirstIn
    <3>2. r \in SUBSET T /\ r # T /\ r \subseteq s
      BY <3>1
    <3>3. G(s)[s] = First(s).amount + G(s)[r]
      BY <1>2, <2>4 DEF Sums
    <3>4. G(s)[r] = G(r)[r]
      <4>1. Sums(G(s), s) /\ Sums(G(r), r) /\ IsFiniteSet(s) /\ r \subseteq s /\ r \subseteq r
        BY <1>2, <1>f, <2>4, <3>2
      <4> HIDE DEF h, r, Bad
      <4> QED
        BY ONLY <4>1, SumsAgree
    <3>5. h[s] = G(s)[s] /\ h[r] = G(r)[r]
      BY <2>4, <3>2
    <3> HIDE DEF h, r
    <3>6. h[s] = First(s).amount + h[r]
      BY <3>3, <3>4, <3>5
    <3> QED
      BY <2>4, <3>6 DEF r
  <2> QED
    BY <2>1, <2>2, <2>3, <2>4
<1>4. Sums(h, T)
  <2>1. h = [s \in SUBSET T |-> h[s]]
    OBVIOUS
  <2> HIDE DEF h
  <2> QED
    BY <1>3, <2>1 DEF Sums
<1> QED
  BY <1>1, <1>4

\* Sums of whole amounts are whole.
LEMMA SumsType ==
    ASSUME NEW S, IsFiniteSet(S), \A o \in S : o.amount \in Nat, NEW g, Sums(g, S),
           NEW s \in SUBSET S
    PROVE  g[s] \in Nat
<1> DEFINE Bad == {t \in SUBSET S : g[t] \notin Nat}
<1> SUFFICES ASSUME Bad # {} PROVE FALSE
  OBVIOUS
<1>1. PICK t \in Bad : \A u \in Bad : u \subseteq t => u = t
  <2>1. Bad \in SUBSET SUBSET S
    OBVIOUS
  <2> HIDE DEF Bad
  <2> QED
    BY <2>1, LeastSubset
<1>2. g[t] = IF t = {} THEN 0 ELSE First(t).amount + g[t \ {First(t)}]
  BY DEF Sums
<1>3. t # {}
  BY <1>2
<1>4. First(t) \in t
  BY <1>3, FirstIn
<1>5. g[t \ {First(t)}] \in Nat
  BY <1>1, <1>4
<1> QED
  BY <1>2, <1>3, <1>4, <1>5

\* Any element may be taken out first.
LEMMA SumsAnyOrder ==
    ASSUME NEW S, IsFiniteSet(S), \A o \in S : o.amount \in Nat, NEW g, Sums(g, S),
           NEW s \in SUBSET S, NEW x \in s
    PROVE  g[s] = x.amount + g[s \ {x}]
<1> DEFINE Bad == {t \in SUBSET S : \E y \in t : g[t] # y.amount + g[t \ {y}]}
<1> SUFFICES ASSUME Bad # {} PROVE FALSE
  OBVIOUS
<1>1. PICK t \in Bad : \A u \in Bad : u \subseteq t => u = t
  <2>1. Bad \in SUBSET SUBSET S
    OBVIOUS
  <2> HIDE DEF Bad
  <2> QED
    BY <2>1, LeastSubset
<1>2. PICK y \in t : g[t] # y.amount + g[t \ {y}]
  BY <1>1
<1> DEFINE z == First(t)
           r == (t \ {y}) \ {z}
<1>3. z \in t
  BY <1>2, FirstIn
<1>4. g[t] = z.amount + g[t \ {z}]
  BY <1>2 DEF Sums
<1>5. y # z
  BY <1>2, <1>4
<1>6. g[t \ {z}] = y.amount + g[r]
  <2>1. t \ {z} \in SUBSET S /\ t \ {z} # t /\ y \in t \ {z} /\ (t \ {z}) \ {y} = r
    BY <1>2, <1>3, <1>5
  <2> QED
    BY <1>1, <2>1
<1>7. g[t \ {y}] = z.amount + g[r]
  <2>1. t \ {y} \in SUBSET S /\ t \ {y} # t /\ z \in t \ {y}
    BY <1>2, <1>3, <1>5
  <2> QED
    BY <1>1, <2>1
<1>8. g[r] \in Nat /\ y.amount \in Nat /\ z.amount \in Nat
  BY <1>2, <1>3, SumsType
<1> QED
  BY <1>2, <1>4, <1>6, <1>7, <1>8

\* The sum over the empty set, and over a set with one more order.
LEMMA TotalOfNone == Total({}) = 0
<1>1. Sums(CHOOSE g : Sums(g, {}), {})
  BY SumsExist, FS_EmptySet
<1> QED
  BY <1>1, TotalIsChosen DEF Sums

LEMMA TotalType ==
    ASSUME NEW S, IsFiniteSet(S), \A o \in S : o.amount \in Nat
    PROVE  Total(S) \in Nat
<1> DEFINE g == CHOOSE f : Sums(f, S)
<1>1. Sums(g, S)
  BY SumsExist
<1>2. Total(S) = g[S] /\ S \in SUBSET S
  BY TotalIsChosen
<1> HIDE DEF g
<1> QED
  BY <1>1, <1>2, SumsType

LEMMA TotalAdds ==
    ASSUME NEW S, IsFiniteSet(S), NEW x, x \notin S, x.amount \in Nat, \A o \in S : o.amount \in Nat
    PROVE  Total(S) \in Nat /\ Total(S \cup {x}) = Total(S) + x.amount
<1> DEFINE R == S \cup {x}
           g == CHOOSE f : Sums(f, S)
           h == CHOOSE f : Sums(f, R)
<1>1. IsFiniteSet(R)
  BY FS_AddElement
<1>2. Sums(g, S) /\ Sums(h, R)
  BY <1>1, SumsExist
<1>3. Total(S) = g[S] /\ Total(R) = h[R]
  BY TotalIsChosen
<1> HIDE DEF g, h
<1>4. R \ {x} = S /\ x \in R /\ \A o \in R : o.amount \in Nat
  OBVIOUS
<1> HIDE DEF R
<1>5. h[R] = x.amount + h[S]
  <2>1. h[R] = x.amount + h[R \ {x}]
    BY <1>1, <1>2, <1>4, SumsAnyOrder
  <2> QED
    BY <2>1, <1>4
<1>6. g[S] = h[S]
  <2>1. S \subseteq S /\ S \subseteq R /\ IsFiniteSet(S)
    BY DEF R
  <2> QED
    BY ONLY <1>2, <2>1, SumsAgree
<1>7. g[S] \in Nat
  BY <1>2, SumsType
<1> QED
  BY <1>3, <1>5, <1>6, <1>7 DEF R

-----------------------------------------------------------------------------
(* The audit trail.                                                        *)

\* Every order bears the id of an instance that was inserted with it.
OrdersAreIssued ==
    /\ IsFiniteSet(orders)
    /\ \A o \in orders : o.id \in instRows

AuditInv == MoneyInv /\ OrdersAreIssued /\ MoneyConserved

OrdersOf(os, u) == {o \in os : o.user = u}

LEMMA SpentIsTotal ==
    ASSUME NEW u
    PROVE  Spent(u) = Total(OrdersOf(orders, u)) /\ Spent(u)' = Total(OrdersOf(orders', u))
<1>1. Spent(u) = Total(OrdersOf(orders, u))
  BY DEF Spent, Total, OrdersOf
<1>2. Spent(u)' = Total(OrdersOf(orders', u))
  BY DEF Spent, Total, OrdersOf, MapThenSumSet, MapThenFoldSet
<1> QED
  BY <1>1, <1>2

LEMMA BoughtAreOrders ==
    ASSUME MoneyInv, OrdersAreIssued, NEW u \in Users
    PROVE  IsFiniteSet(OrdersOf(orders, u)) /\ \A o \in OrdersOf(orders, u) : o.amount \in Nat
<1>1. OrdersOf(orders, u) \in SUBSET orders /\ IsFiniteSet(orders)
  BY DEF OrdersOf, OrdersAreIssued
<1>2. IsFiniteSet(OrdersOf(orders, u))
  BY <1>1, FS_Subset
<1>3. orders \subseteq Order
  BY DEF MoneyInv, TypeOK
<1> QED
  BY <1>1, <1>2, <1>3 DEF Order

\* No step takes an instance away.
LEMMA RowsStay == ASSUME [Next]_vars PROVE instRows \subseteq instRows'
<1>1. CASE UNCHANGED vars
  BY <1>1 DEF vars
<1>2. CASE Tick
  BY <1>2 DEF Tick
<1>3. CASE AdminStep
  BY <1>3 DEF AdminStep, CreatePlan, UpdatePlan, DeletePlan, AssignToUser
<1>4. ASSUME NEW t \in Txns, TxnStep(t) PROVE instRows \subseteq instRows'
  BY <1>4 DEF TxnStep, PurchaseBegin, PurchaseLoadPlan, PurchaseCount, PurchaseCommit,
     BalanceBegin, AdjustCommit, SetCommit, Rollback
<1>5. ASSUME NEW r \in Requests, RequestStep(r) PROVE instRows \subseteq instRows'
  BY <1>5 DEF RequestStep, StartRequest, ConsumeScan, ConsumeApply,
     ConsumeDropout, ConsumeProbe, GatewayOutcome, RefundCall, Abandon
<1> QED
  BY <1>1, <1>2, <1>3, <1>4, <1>5 DEF Next

\* Without a new order, what a user spent stays.
LEMMA SpentStays == ASSUME UNCHANGED orders, NEW u PROVE Spent(u)' = Spent(u)
  BY SpentIsTotal

\* A commit moves one user's balance by what it credits or spends.
LEMMA TxnKeepsAudit ==
    ASSUME AuditInv, NEW t \in Txns, TxnStep(t), instRows \subseteq instRows'
    PROVE  OrdersAreIssued' /\ MoneyConserved'
<1>t. txn[t] \in TxnState
  BY DEF AuditInv, MoneyInv, TypeOK
<1>v. PICK v \in Users : v = txn[t].user
  BY <1>t DEF TxnState
<1>b. balance \in [Users -> Nat] /\ credited \in [Users -> Int]
  BY DEF AuditInv, MoneyInv, TypeOK
<1>r. txn[t].pc # "idle" => balance[v] = txn[t].read
  BY <1>v DEF AuditInv, MoneyInv, ReadStaysCurrent
<1>n. \A u \in Users : Spent(u) \in Nat /\ balance[u] + Spent(u) = credited[u]
  <2> SUFFICES ASSUME NEW u \in Users PROVE Spent(u) \in Nat /\ balance[u] + Spent(u) = credited[u]
    OBVIOUS
  <2>1. balance[u] + Spent(u) = credited[u]
    BY DEF AuditInv, MoneyConserved
  <2>2. Spent(u) \in Nat
    BY BoughtAreOrders, SpentIsTotal, TotalType DEF AuditInv
  <2> QED
    BY <2>1, <2>2
<1>k. UNCHANGED orders => OrdersAreIssued'
  BY DEF AuditInv, OrdersAreIssued
<1>1. CASE UNCHANGED <<orders, balance, credited>>
  <2>1. \A u \in Users : Spent(u)' = Spent(u)
    BY <1>1, SpentStays
  <2> QED
    BY <2>1, <1>1, <1>k DEF AuditInv, MoneyConserved
<1>2. ASSUME NEW i \in Instances, PurchaseCommit(t, i)
      PROVE  OrdersAreIssued' /\ MoneyConserved'
  <2> DEFINE price == txn[t].quote.price
             o == [id |-> i, user |-> v, plan |-> txn[t].plan, amount |-> price]
  <2>1. /\ txn[t].pc # "idle" /\ i \notin instRows /\ i \in instRows'
        /\ balance' = [balance EXCEPT ![v] = txn[t].read - price]
        /\ orders' = orders \cup {o} /\ credited' = credited
    BY <1>2, <1>v DEF PurchaseCommit
  <2>2. price \in Nat /\ o.amount = price /\ o.user = v /\ o.id = i
    BY <1>t DEF TxnState, PlanRow, Template, ValidTemplate
  <2> HIDE DEF o, price
  <2>3. OrdersAreIssued'
    <3>1. IsFiniteSet(orders')
      BY <2>1, FS_AddElement DEF AuditInv, OrdersAreIssued
    <3> QED
      BY <3>1, <2>1, <2>2 DEF AuditInv, OrdersAreIssued
  <2>4. o \notin OrdersOf(orders, v)
    BY <2>1, <2>2 DEF AuditInv, OrdersAreIssued, OrdersOf
  <2>5. /\ OrdersOf(orders', v) = OrdersOf(orders, v) \cup {o}
        /\ \A u \in Users : u # v => OrdersOf(orders', u) = OrdersOf(orders, u)
    BY <2>1, <2>2 DEF OrdersOf
  <2>6. Spent(v)' = Spent(v) + price
    <3>1. Spent(v)' = Total(OrdersOf(orders, v) \cup {o}) /\ Spent(v) = Total(OrdersOf(orders, v))
      BY <2>5, SpentIsTotal
    <3>2. IsFiniteSet(OrdersOf(orders, v)) /\ \A x \in OrdersOf(orders, v) : x.amount \in Nat
      BY <1>t, BoughtAreOrders DEF AuditInv
    <3>3. Total(OrdersOf(orders, v) \cup {o}) = Total(OrdersOf(orders, v)) + o.amount
      BY <2>2, <2>4, <3>2, TotalAdds
    <3> QED
      BY <3>1, <3>3, <2>2
  <2>7. \A u \in Users : u # v => Spent(u)' = Spent(u)
    BY <2>5, SpentIsTotal
  <2>8. \A u \in Users : balance'[u] + Spent(u)' = credited'[u]
    <3>1. balance'[v] = balance[v] - price /\ \A u \in Users : u # v => balance'[u] = balance[u]
      BY <2>1, <1>t, <1>b, <1>r
    <3>2. balance'[v] + Spent(v)' = credited'[v]
      BY <3>1, <2>1, <2>2, <2>6, <1>n, <1>t, <1>b
    <3> QED
      BY <3>1, <3>2, <2>1, <2>7, <1>n
  <2> QED
    BY <2>3, <2>8 DEF MoneyConserved
<1>3. ASSUME NEW b \in Int, NEW d \in Int, b = balance[v] + d, UNCHANGED orders,
             balance' = [balance EXCEPT ![v] = b], credited' = [credited EXCEPT ![v] = @ + d]
      PROVE  OrdersAreIssued' /\ MoneyConserved'
  <2>1. \A u \in Users : Spent(u)' = Spent(u)
    BY <1>3, SpentStays
  <2>2. /\ balance'[v] = balance[v] + d /\ credited'[v] = credited[v] + d
        /\ \A u \in Users : u # v => balance'[u] = balance[u] /\ credited'[u] = credited[u]
    BY <1>3, <1>t, <1>b
  <2>3. balance'[v] + Spent(v)' = credited'[v]
    BY <2>1, <2>2, <1>n, <1>t, <1>b, <1>3
  <2>4. \A u \in Users : balance'[u] + Spent(u)' = credited'[u]
    BY <2>1, <2>2, <2>3, <1>n
  <2> QED
    BY <2>4, <1>3, <1>k DEF MoneyConserved
<1>4. CASE AdjustCommit(t)
  <2>1. txn[t].amount \in Int /\ txn[t].read \in Nat /\ txn[t].pc # "idle"
    BY <1>4, <1>t DEF AdjustCommit, TxnState
  <2>2. /\ balance' = [balance EXCEPT ![v] = txn[t].read + txn[t].amount]
        /\ credited' = [credited EXCEPT ![v] = @ + txn[t].amount] /\ UNCHANGED orders
    BY <1>4, <1>v DEF AdjustCommit
  <2> DEFINE b == txn[t].read + txn[t].amount
  <2>3. b \in Int /\ b = balance[v] + txn[t].amount /\ balance' = [balance EXCEPT ![v] = b]
    BY <2>1, <2>2, <1>r
  <2> HIDE DEF b
  <2> QED
    BY <2>1, <2>2, <2>3, <1>3
<1>5. CASE SetCommit(t)
  <2>1. txn[t].amount \in Int /\ txn[t].read \in Nat /\ txn[t].pc # "idle"
    BY <1>5, <1>t DEF SetCommit, TxnState
  <2> DEFINE d == txn[t].amount - txn[t].read
  <2>2. d \in Int /\ txn[t].amount = balance[v] + d
    BY <2>1, <1>r
  <2>3. /\ balance' = [balance EXCEPT ![v] = txn[t].amount]
        /\ credited' = [credited EXCEPT ![v] = @ + d] /\ UNCHANGED orders
    BY <1>5, <1>v DEF SetCommit
  <2> HIDE DEF d
  <2> QED
    BY <2>1, <2>2, <2>3, <1>3
<1> QED
  BY <1>1, <1>2, <1>4, <1>5 DEF TxnStep, PurchaseBegin, PurchaseLoadPlan, PurchaseCount,
     BalanceBegin, Rollback

LEMMA AuditStep == AuditInv /\ [Next]_vars => AuditInv'
<1> SUFFICES ASSUME AuditInv, [Next]_vars PROVE AuditInv'
  OBVIOUS
<1>1. MoneyInv'
  BY MoneyStep DEF AuditInv
<1>2. instRows \subseteq instRows'
  BY RowsStay
<1>3. OrdersAreIssued' /\ MoneyConserved'
  <2>1. CASE UNCHANGED moneyVars
    <3>1. UNCHANGED <<orders, balance, credited>>
      BY <2>1 DEF moneyVars
    <3>2. \A u \in Users : Spent(u)' = Spent(u)
      BY <3>1, SpentStays
    <3> QED
      BY <3>1, <3>2, <1>2 DEF AuditInv, OrdersAreIssued, MoneyConserved
  <2>2. CASE UNCHANGED vars
    BY <2>1, <2>2 DEF vars, moneyVars
  <2>3. CASE Tick \/ AdminStep \/ (\E r \in Requests : RequestStep(r))
    BY <2>1, <2>3, OthersLeaveMoney
  <2>4. ASSUME NEW t \in Txns, TxnStep(t) PROVE OrdersAreIssued' /\ MoneyConserved'
    BY <2>4, <1>2, TxnKeepsAudit
  <2> QED
    BY <2>2, <2>3, <2>4 DEF Next
<1> QED
  BY <1>1, <1>3 DEF AuditInv

\* The balance is what admins credited minus what the paid orders add up to,
\* with any number of users, sessions and orders: no concurrent purchase,
\* adjustment or overwrite is lost or applied twice (purchase, set_balance,
\* adjust_balance).
THEOREM MoneyIsConserved == Spec => []MoneyConserved
<1>1. Init => AuditInv
  <2> SUFFICES ASSUME Init PROVE AuditInv
    OBVIOUS
  <2>1. \A t \in Txns : txn[t].pc = "idle"
    BY DEF Init, IdleTxn
  <2>2. MoneyInv
    BY <2>1, TypeInit DEF MoneyInv, LockHeld, ReadStaysCurrent
  <2>3. OrdersAreIssued
    BY FS_EmptySet DEF Init, OrdersAreIssued
  <2>4. \A u \in Users : OrdersOf(orders, u) = {}
    BY DEF Init, OrdersOf
  <2>5. \A u \in Users : Spent(u) = 0
    BY <2>4, SpentIsTotal, TotalOfNone
  <2>6. \A u \in Users : balance[u] = 0 /\ credited[u] = 0
    BY DEF Init
  <2> QED
    BY <2>2, <2>3, <2>5, <2>6 DEF AuditInv, MoneyConserved
<1>2. AuditInv => MoneyConserved
  BY DEF AuditInv
<1> QED
  BY <1>1, <1>2, AuditStep, PTL DEF Spec

-----------------------------------------------------------------------------
(* The purchase limit.                                                     *)

\* No template was ever unlimited, or more generous than L.
AtMost(L) == \A tpl \in Templates : tpl.limit \in 1..L

\* Then no plan on sale is, nor a quote that a session still holds, whatever
\* has become of the plan since.
QuotesWithin ==
    \A L \in Nat : AtMost(L) =>
        /\ \A p \in Plans : planState[p] = "live" => plan[p].limit \in 1..L
        /\ \A t \in Txns : txn[t].pc \in {"planned", "counted"} => txn[t].quote.limit \in 1..L

\* A count is still right when it is compared with the limit: the buyer's row
\* lock keeps every other purchase of the same user out.
CountsHold ==
    \A t \in Txns : txn[t].pc = "counted" =>
        txn[t].count = Cardinality(Purchases(txn[t].user, txn[t].plan))

LimitInv == MoneyInv /\ QuotesWithin /\ CountsHold /\ PurchaseLimitHolds

\* A step that sells nothing, as far as purchases go.
LEMMA NoSaleKeepsLimit ==
    ASSUME LimitInv, \A u \in Users, p \in Plans : Purchases(u, p)' = Purchases(u, p), UNCHANGED txn
    PROVE  CountsHold' /\ PurchaseLimitHolds'
<1>1. \A t \in Txns : txn[t].user \in Users /\ txn[t].plan \in Plans
  BY DEF LimitInv, MoneyInv, TypeOK, TxnState
<1>2. CountsHold'
  <2> SUFFICES ASSUME NEW t \in Txns, txn'[t].pc = "counted"
               PROVE  txn'[t].count = Cardinality(Purchases(txn[t].user, txn[t].plan)')
    BY DEF CountsHold, Purchases
  <2>1. PICK u \in Users, p \in Plans : u = txn[t].user /\ p = txn[t].plan
    BY <1>1
  <2>2. UNCHANGED <<u, p>> /\ Purchases(txn[t].user, txn[t].plan)' = Purchases(u, p)'
    BY <2>1 DEF Purchases
  <2> QED
    BY <2>1, <2>2 DEF LimitInv, CountsHold
<1>3. PurchaseLimitHolds'
  BY DEF LimitInv, PurchaseLimitHolds
<1> QED
  BY <1>2, <1>3

LEMMA AdminKeepsLimit ==
    ASSUME LimitInv, Tick \/ AdminStep
    PROVE  QuotesWithin' /\ CountsHold' /\ PurchaseLimitHolds'
<1>a. /\ userPlan \in [Instances -> Instance] /\ instRows \subseteq Instances
      /\ plan \in [Plans -> PlanRow] /\ planState \in [Plans -> {"none", "live", "deleted"}]
  BY DEF LimitInv, MoneyInv, TypeOK
<1>b. UNCHANGED txn
  BY OthersLeaveMoney DEF moneyVars
<1>1. \A u \in Users, p \in Plans : Purchases(u, p)' = Purchases(u, p)
  <2>1. ASSUME NEW v \in Users, NEW q \in Plans, NEW i \in Instances, AssignToUser(v, q, i)
        PROVE  \A u \in Users, p \in Plans : Purchases(u, p)' = Purchases(u, p)
    <3>1. /\ i \notin instRows /\ instRows' = instRows \cup {i}
          /\ userPlan'[i].source = "admin_grant"
          /\ \A j \in Instances : j # i => userPlan'[j] = userPlan[j]
      BY <2>1, <1>a DEF AssignToUser, NewInstance
    <3> QED
      BY <3>1, <1>a DEF Purchases
  <2> QED
    BY <2>1 DEF AdminStep, Tick, CreatePlan, UpdatePlan, DeletePlan, Purchases
<1>2. QuotesWithin'
  <2> SUFFICES ASSUME NEW L \in Nat, AtMost(L)
               PROVE  \A p \in Plans : planState'[p] = "live" => plan'[p].limit \in 1..L
    BY <1>b DEF LimitInv, QuotesWithin, AtMost
  <2>1. \A p \in Plans : planState[p] = "live" => plan[p].limit \in 1..L
    BY DEF LimitInv, QuotesWithin
  <2>2. ASSUME NEW q \in Plans, NEW new \in Updates(plan[q]), UpdatePlan(q, new)
        PROVE  \A p \in Plans : planState'[p] = "live" => plan'[p].limit \in 1..L
    <3>1. PICK tpl \in Templates, fields \in SUBSET Columns : new = Merge(plan[q], tpl, fields)
      BY DEF Updates
    <3>2. new.limit = tpl.limit \/ new.limit = plan[q].limit
      BY <3>1 DEF Merge
    <3>3. new.limit \in 1..L
      BY <2>1, <2>2, <3>2 DEF UpdatePlan, AtMost
    <3> QED
      BY <2>1, <2>2, <3>3, <1>a DEF UpdatePlan
  <2>3. ASSUME NEW q \in Plans, NEW tpl \in Templates, CreatePlan(q, tpl)
        PROVE  \A p \in Plans : planState'[p] = "live" => plan'[p].limit \in 1..L
    BY <2>1, <2>3, <1>a DEF CreatePlan, AtMost
  <2>4. ASSUME NEW q \in Plans, DeletePlan(q)
        PROVE  \A p \in Plans : planState'[p] = "live" => plan'[p].limit \in 1..L
    BY <2>1, <2>4, <1>a DEF DeletePlan
  <2> QED
    BY <2>1, <2>2, <2>3, <2>4 DEF AdminStep, Tick, AssignToUser, adminVars
<1> QED
  BY <1>1, <1>2, <1>b, NoSaleKeepsLimit

LEMMA RequestKeepsLimit ==
    ASSUME LimitInv, NEW r \in Requests, RequestStep(r)
    PROVE  QuotesWithin' /\ CountsHold' /\ PurchaseLimitHolds'
<1>a. userPlan \in [Instances -> Instance] /\ instRows \subseteq Instances
  BY DEF LimitInv, MoneyInv, TypeOK
<1>1. UNCHANGED <<txn, plan, planState, instRows>>
  BY DEF RequestStep, StartRequest, ConsumeScan, ConsumeApply, ConsumeDropout, ConsumeProbe,
     GatewayOutcome, RefundCall, Abandon, adminVars, moneyVars
<1>2. \A i \in Instances : /\ userPlan'[i].user = userPlan[i].user
                           /\ userPlan'[i].plan = userPlan[i].plan
                           /\ userPlan'[i].source = userPlan[i].source
  <2>1. CASE UNCHANGED userPlan
    BY <2>1
  <2>2. CASE ConsumeApply(r)
    BY <2>2, <1>a DEF ConsumeApply, Instance
  <2>3. CASE RefundCall(r)
    BY <2>3, <1>a DEF RefundCall, Instance
  <2> QED
    BY <2>1, <2>2, <2>3 DEF RequestStep, StartRequest, ConsumeScan, ConsumeDropout, ConsumeProbe,
       GatewayOutcome, Abandon
<1>3. \A u \in Users, p \in Plans : Purchases(u, p)' = Purchases(u, p)
  BY <1>a, <1>1, <1>2 DEF Purchases
<1>4. QuotesWithin'
  BY <1>1 DEF LimitInv, QuotesWithin, AtMost
<1> QED
  BY <1>1, <1>3, <1>4, NoSaleKeepsLimit

\* A step of a session that does not commit a purchase.
LEMMA SessionKeepsLimit ==
    ASSUME LimitInv, NEW t \in Txns, NEW new \in TxnState, txn' = [txn EXCEPT ![t] = new],
           UNCHANGED <<plan, planState, userPlan, instRows>>,
           \A L \in Nat : AtMost(L) /\ new.pc \in {"planned", "counted"} => new.quote.limit \in 1..L,
           new.pc = "counted" => new.count = Cardinality(Purchases(new.user, new.plan))
    PROVE  QuotesWithin' /\ CountsHold' /\ PurchaseLimitHolds'
<1>a. txn \in [Txns -> TxnState]
  BY DEF LimitInv, MoneyInv, TypeOK
<1>b. txn'[t] = new /\ \A s \in Txns : s # t => txn'[s] = txn[s]
  BY <1>a
<1>1. QuotesWithin'
  BY <1>b DEF LimitInv, QuotesWithin, AtMost
<1>2. CountsHold'
  <2> SUFFICES ASSUME NEW s \in Txns, txn'[s].pc = "counted"
               PROVE  txn'[s].count = Cardinality(Purchases(txn[s].user, txn[s].plan)')
    BY DEF CountsHold, Purchases
  <2>1. CASE s = t
    <3>1. Purchases(txn[s].user, txn[s].plan)' = Purchases(new.user, new.plan)
      BY <2>1, <1>b DEF Purchases
    <3> QED
      BY <2>1, <3>1, <1>b
  <2>2. CASE s # t
    <3>1. Purchases(txn[s].user, txn[s].plan)' = Purchases(txn[s].user, txn[s].plan)
      BY <2>2, <1>b DEF Purchases
    <3> QED
      BY <2>2, <3>1, <1>b DEF LimitInv, CountsHold
  <2> QED
    BY <2>1, <2>2
<1>3. PurchaseLimitHolds'
  BY DEF LimitInv, PurchaseLimitHolds, Purchases
<1> QED
  BY <1>1, <1>2, <1>3

LEMMA CommitKeepsLimit ==
    ASSUME LimitInv, NEW t \in Txns, NEW i \in Instances, PurchaseCommit(t, i)
    PROVE  QuotesWithin' /\ CountsHold' /\ PurchaseLimitHolds'
<1>a. /\ txn \in [Txns -> TxnState] /\ txn[t] \in TxnState
      /\ userPlan \in [Instances -> Instance] /\ instRows \subseteq Instances /\ IsFiniteSet(instRows)
  BY DEF LimitInv, MoneyInv, TypeOK
<1>u. PICK v \in Users, q \in Plans : v = txn[t].user /\ q = txn[t].plan
  BY <1>a DEF TxnState
<1>1. /\ txn[t].pc = "counted" /\ BelowLimit(txn[t].count, txn[t].quote.limit)
      /\ i \notin instRows /\ instRows' = instRows \cup {i}
      /\ userPlan' = [userPlan EXCEPT ![i] = NewInstance(v, q, txn[t].quote, "purchase")]
      /\ txn' = [txn EXCEPT ![t] = IdleTxn] /\ UNCHANGED <<plan, planState>>
  BY <1>u DEF PurchaseCommit, EndTxn, adminVars
<1>2. /\ txn'[t].pc = "idle" /\ \A s \in Txns : s # t => txn'[s] = txn[s]
  BY <1>1, <1>a DEF IdleTxn
<1>3. /\ userPlan'[i].user = v /\ userPlan'[i].plan = q /\ userPlan'[i].source = "purchase"
      /\ \A j \in Instances : j # i => userPlan'[j] = userPlan[j]
  BY <1>1, <1>a DEF NewInstance
<1>4. /\ Purchases(v, q)' = Purchases(v, q) \cup {i} /\ i \notin Purchases(v, q)
      /\ \A u \in Users, p \in Plans : u # v \/ p # q => Purchases(u, p)' = Purchases(u, p)
  BY <1>1, <1>3, <1>a DEF Purchases
<1>5. QuotesWithin'
  BY <1>1, <1>2 DEF LimitInv, QuotesWithin, AtMost
<1>6. CountsHold'
  <2> SUFFICES ASSUME NEW s \in Txns, txn'[s].pc = "counted"
               PROVE  txn'[s].count = Cardinality(Purchases(txn[s].user, txn[s].plan)')
    BY DEF CountsHold, Purchases
  <2>1. s # t /\ txn'[s] = txn[s] /\ txn[s].pc = "counted"
    BY <1>2
  <2>2. PICK u \in Users, p \in Plans : u = txn[s].user /\ p = txn[s].plan
    BY <1>a DEF TxnState
  <2>3. u # v
    BY <2>1, <2>2, <1>1, <1>u DEF LimitInv, MoneyInv, LockHeld
  <2>4. Purchases(u, p)' = Purchases(u, p)
    BY <2>3, <1>4
  <2>5. Purchases(txn[s].user, txn[s].plan)' = Purchases(u, p)'
    BY <2>1, <2>2 DEF Purchases
  <2> QED
    BY <2>1, <2>2, <2>4, <2>5 DEF LimitInv, CountsHold
<1>7. PurchaseLimitHolds'
  <2> SUFFICES ASSUME NEW L \in {tpl.limit : tpl \in Templates}, AtMost(L),
                      NEW u \in Users, NEW p \in Plans
               PROVE  Cardinality(Purchases(u, p)') <= L
    BY DEF PurchaseLimitHolds, AtMost
  <2>1. L \in Nat
    BY PlanAssumption DEF Template
  <2>2. Cardinality(Purchases(u, p)) <= L
    BY DEF LimitInv, PurchaseLimitHolds, AtMost
  <2>3. CASE u = v /\ p = q
    <3>1. IsFiniteSet(Purchases(v, q))
      BY <1>a, FS_Subset DEF Purchases
    <3>2. Cardinality(Purchases(v, q)') = Cardinality(Purchases(v, q)) + 1
          /\ Cardinality(Purchases(v, q)) \in Nat
      BY <3>1, <1>4, FS_AddElement, FS_CardinalityType
    <3>3. txn[t].count = Cardinality(Purchases(v, q))
      BY <1>1, <1>u DEF LimitInv, CountsHold
    <3>4. txn[t].quote.limit \in 1..L
      BY <1>1, <2>1 DEF LimitInv, QuotesWithin
    <3>5. txn[t].count < txn[t].quote.limit
      BY <1>1, <3>4, <2>1 DEF BelowLimit, NoLimit
    <3> QED
      BY <2>1, <2>3, <3>2, <3>3, <3>4, <3>5
  <2>4. CASE u # v \/ p # q
    BY <2>2, <2>4, <1>4
  <2> QED
    BY <2>3, <2>4
<1> QED
  BY <1>5, <1>6, <1>7

LEMMA TxnKeepsLimit ==
    ASSUME LimitInv, NEW t \in Txns, TxnStep(t)
    PROVE  QuotesWithin' /\ CountsHold' /\ PurchaseLimitHolds'
<1>a. /\ txn[t] \in TxnState /\ plan \in [Plans -> PlanRow] /\ balance \in [Users -> Nat]
      /\ txn[t].plan \in Plans /\ IsFiniteSet(instRows)
  BY DEF LimitInv, MoneyInv, TypeOK, TxnState
<1>1. ASSUME NEW u \in Users, NEW p \in Plans, PurchaseBegin(t, u, p)
      PROVE  QuotesWithin' /\ CountsHold' /\ PurchaseLimitHolds'
  <2> DEFINE new == [txn[t] EXCEPT !.pc = "locked", !.op = "purchase",
                                   !.user = u, !.plan = p, !.read = balance[u]]
  <2>1. new \in TxnState /\ new.pc = "locked"
    BY <1>a DEF TxnState
  <2>2. txn' = [txn EXCEPT ![t] = new] /\ UNCHANGED <<plan, planState, userPlan, instRows>>
    BY <1>1 DEF PurchaseBegin, adminVars
  <2> HIDE DEF new
  <2> QED
    BY <2>1, <2>2, SessionKeepsLimit
<1>2. CASE PurchaseLoadPlan(t)
  <2> DEFINE new == [txn[t] EXCEPT !.pc = "planned", !.quote = plan[txn[t].plan]]
  <2>1. new \in TxnState /\ new.pc = "planned" /\ new.quote = plan[txn[t].plan]
    BY <1>a DEF TxnState
  <2>2. txn' = [txn EXCEPT ![t] = new] /\ UNCHANGED <<plan, planState, userPlan, instRows>>
    BY <1>2 DEF PurchaseLoadPlan, adminVars
  <2>3. \A L \in Nat : AtMost(L) => new.quote.limit \in 1..L
    BY <2>1, <1>2, <1>a DEF PurchaseLoadPlan, LimitInv, QuotesWithin
  <2> HIDE DEF new
  <2> QED
    BY <2>1, <2>2, <2>3, SessionKeepsLimit
<1>3. CASE PurchaseCount(t)
  <2> DEFINE n == Cardinality(Purchases(txn[t].user, txn[t].plan))
             new == [txn[t] EXCEPT !.pc = "counted", !.count = n]
  <2>0. n \in Nat
    <3>1. IsFiniteSet(Purchases(txn[t].user, txn[t].plan))
      BY <1>a, FS_Subset DEF Purchases
    <3> QED
      BY <3>1, FS_CardinalityType
  <2>1. /\ new \in TxnState /\ new.pc = "counted" /\ new.quote = txn[t].quote
        /\ new.user = txn[t].user /\ new.plan = txn[t].plan /\ new.count = n
    <3> HIDE DEF n
    <3> QED
      BY <1>a, <2>0 DEF TxnState
  <2>2. txn' = [txn EXCEPT ![t] = new] /\ UNCHANGED <<plan, planState, userPlan, instRows>>
    BY <1>3 DEF PurchaseCount, adminVars
  <2>3. \A L \in Nat : AtMost(L) => new.quote.limit \in 1..L
    BY <2>1, <1>3 DEF PurchaseCount, LimitInv, QuotesWithin
  <2>4. new.count = Cardinality(Purchases(new.user, new.plan))
    BY <2>1
  <2> HIDE DEF new, n
  <2> QED
    BY <2>1, <2>2, <2>3, <2>4, SessionKeepsLimit
<1>4. ASSUME NEW i \in Instances, PurchaseCommit(t, i)
      PROVE  QuotesWithin' /\ CountsHold' /\ PurchaseLimitHolds'
  BY <1>4, CommitKeepsLimit
<1>5. ASSUME NEW op \in {"adjust", "set"}, NEW u \in Users,
             NEW amount \in Amounts, BalanceBegin(t, op, u, amount)
      PROVE  QuotesWithin' /\ CountsHold' /\ PurchaseLimitHolds'
  <2> DEFINE new == [txn[t] EXCEPT !.pc = "locked", !.op = op, !.user = u,
                                   !.amount = amount, !.read = balance[u]]
  <2>1. new \in TxnState /\ new.pc = "locked"
    BY <1>a, PlanAssumption DEF TxnState
  <2>2. txn' = [txn EXCEPT ![t] = new] /\ UNCHANGED <<plan, planState, userPlan, instRows>>
    BY <1>5 DEF BalanceBegin, adminVars
  <2> HIDE DEF new
  <2> QED
    BY <2>1, <2>2, SessionKeepsLimit
<1>6. CASE AdjustCommit(t) \/ SetCommit(t) \/ Rollback(t)
  <2>1. IdleTxn \in TxnState /\ IdleTxn.pc = "idle"
    BY AnyType DEF IdleTxn
  <2>2. txn' = [txn EXCEPT ![t] = IdleTxn] /\ UNCHANGED <<plan, planState, userPlan, instRows>>
    BY <1>6 DEF AdjustCommit, SetCommit, Rollback, EndTxn, adminVars
  <2> QED
    BY <2>1, <2>2, SessionKeepsLimit
<1> QED
  BY <1>1, <1>2, <1>3, <1>4, <1>5, <1>6 DEF TxnStep

LEMMA LimitStep == LimitInv /\ [Next]_vars => LimitInv'
<1> SUFFICES ASSUME LimitInv, [Next]_vars PROVE LimitInv'
  OBVIOUS
<1>1. MoneyInv'
  BY MoneyStep DEF LimitInv
<1>2. QuotesWithin' /\ CountsHold' /\ PurchaseLimitHolds'
  <2>1. CASE UNCHANGED vars
    BY <2>1 DEF vars, LimitInv, QuotesWithin, AtMost, CountsHold, PurchaseLimitHolds, Purchases
  <2> QED
    BY <2>1, AdminKeepsLimit, TxnKeepsLimit, RequestKeepsLimit DEF Next
<1> QED
  BY <1>1, <1>2 DEF LimitInv

\* However admins create, edit and delete plans while any number of sessions
\* buy them, nobody buys more instances of a plan than the most generous
\* purchase_limit it can have had (PlanService::purchase).
THEOREM PurchaseLimitIsKept == Spec => []PurchaseLimitHolds
<1>1. Init => LimitInv
  <2> SUFFICES ASSUME Init PROVE LimitInv
    OBVIOUS
  <2>1. \A t \in Txns : txn[t].pc = "idle"
    BY DEF Init, IdleTxn
  <2>2. MoneyInv
    BY <2>1, TypeInit DEF MoneyInv, LockHeld, ReadStaysCurrent
  <2>3. QuotesWithin /\ CountsHold
    BY <2>1 DEF Init, QuotesWithin, CountsHold
  <2>4. \A u \in Users, p \in Plans : Purchases(u, p) = {}
    BY DEF Init, Purchases
  <2>5. \A L \in {tpl.limit : tpl \in Templates} : L \in Nat
    BY PlanAssumption DEF Template
  <2>6. PurchaseLimitHolds
    BY <2>4, <2>5, FS_EmptySet DEF PurchaseLimitHolds
  <2> QED
    BY <2>2, <2>3, <2>6 DEF LimitInv
<1>2. LimitInv => PurchaseLimitHolds
  BY DEF LimitInv
<1> QED
  BY <1>1, <1>2, LimitStep, PTL DEF Spec

=============================================================================
