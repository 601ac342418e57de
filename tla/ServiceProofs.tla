---------------------------- MODULE ServiceProofs ----------------------------
(***************************************************************************)
(* Proofs about five services of the server, for any number of processes,  *)
(* requests and rows: the registry of worker ids (WorkerRegistry), payment *)
(* orders (PaymentOrders), the cache and its lock (CacheLock), the         *)
(* database router (DbRouter) and the AI gateway (Gateway).                *)
(***************************************************************************)
EXTENDS WorkerRegistry, PaymentOrders, CacheLock, DbRouter, Gateway, FiniteSetTheorems,
        WellFoundedInduction, TLAPS

-----------------------------------------------------------------------------
(* Worker ids.                                                             *)

LEMMA LeastElement ==
    ASSUME NEW T, T \subseteq Nat, T # {}
    PROVE  \E v \in T : \A u \in T : v <= u
<1> DEFINE R == {ss \in Nat \X Nat : ss[1] < ss[2]}
<1>1. IsWellFoundedOn(R, Nat)
  BY NatLessThanWellFounded DEF OpToRel
<1>2. \E v \in T : \A u \in T : ~(<<u, v>> \in R)
  <2> HIDE DEF R
  <2> QED
    BY <1>1, WFMin
<1>3. ASSUME NEW v \in T, NEW u \in T, ~(<<u, v>> \in R)
      PROVE  v <= u
  <2>1. u \in Nat /\ v \in Nat
    OBVIOUS
  <2>2. ~(u < v)
    BY <1>3, <2>1
  <2> QED
    BY <2>1, <2>2
<1> QED
  <2> HIDE DEF R
  <2> QED
    BY <1>2, <1>3

\* While nobody was late, the row of every running process is its own, holds
\* its last heartbeat, and is too young to be stale on any clock.
RowsAreOwned ==
    \A p \in IdServers : server[p].at = "up" =>
        /\ server[p].id \in WorkerIds
        /\ worker[server[p].id] = server[p].beat + skew[p]
        /\ now - server[p].beat <= StaleAfter - MaxSkew

RegistryInv ==
    /\ RegistryTypeOK
    /\ ~late => RowsAreOwned /\ WorkerIdsUnique

LEMMA RegistryInitInv == RegistryInit => RegistryInv
<1> SUFFICES ASSUME RegistryInit PROVE RegistryInv
  OBVIOUS
<1> USE RegistryAssumption DEF RegistryInit
<1>1. RegistryTypeOK
  <2>1. late \in BOOLEAN
    OBVIOUS
  <2>2. Down \in [at : {"down", "cleaned", "listed", "up"}, used : SUBSET WorkerIds,
                  id : WorkerIds \cup {NoWorker}, beat : 0 .. MaxTime]
    BY DEF Down
  <2>3. worker \in [WorkerIds -> NoBeat .. MaxTime + MaxSkew]
    BY DEF NoBeat
  <2> QED
    BY <2>1, <2>2, <2>3 DEF RegistryTypeOK
<1>2. \A p \in IdServers : server[p].at # "up"
  BY DEF Down
<1> QED
  BY <1>1, <1>2 DEF RegistryInv, RowsAreOwned, WorkerIdsUnique

LEMMA RegistryNextInv == RegistryInv /\ [RegistryNext]_registryVars => RegistryInv'
<1> SUFFICES ASSUME RegistryInv, [RegistryNext]_registryVars PROVE RegistryInv'
  OBVIOUS
<1> DEFINE Rec == [at : {"down", "cleaned", "listed", "up"}, used : SUBSET WorkerIds,
                   id : WorkerIds \cup {NoWorker}, beat : 0 .. MaxTime]
<1> USE RegistryAssumption
<1>a. /\ now \in Nat /\ now <= MaxTime
      /\ skew \in [IdServers -> 0 .. MaxSkew]
      /\ worker \in [WorkerIds -> NoBeat .. MaxTime + MaxSkew]
      /\ server \in [IdServers -> Rec]
      /\ late \in BOOLEAN
      /\ \A p \in IdServers : /\ LocalTime(p) \in Nat
                              /\ LocalTime(p) <= MaxTime + MaxSkew
                              /\ LocalTime(p) <= now + MaxSkew
                              /\ LocalTime(p) = now + skew[p]
  BY DEF RegistryInv, RegistryTypeOK, LocalTime
<1>b. Down \in Rec /\ Down.at = "down" /\ NoBeat = -1
  BY DEF Down, NoWorker, NoBeat
<1>c. ~late => RowsAreOwned
  BY DEF RegistryInv
<1>d. ~late => \A p, q \in IdServers :
                  server[p].at = "up" /\ server[q].at = "up"
                      /\ server[p].id = server[q].id => p = q
  BY DEF RegistryInv, WorkerIdsUnique
\* A process stops or goes on with its registration, and its row is not touched.
<1>e. ASSUME NEW p \in IdServers, NEW r \in Rec, r.at # "up",
             server' = [server EXCEPT ![p] = r],
             worker' \in [WorkerIds -> NoBeat .. MaxTime + MaxSkew],
             ~late => \A q \in IdServers : server[q].at = "up" /\ q # p
                         => worker'[server[q].id] = worker[server[q].id],
             UNCHANGED <<now, skew, late>>
      PROVE  RegistryInv'
  <2>1. RegistryTypeOK'
    <3>1. server' \in [IdServers -> Rec]
      BY <1>e, <1>a
    <3> QED
      BY <3>1, <1>e, <1>a DEF RegistryTypeOK
  <2>2. \A q \in IdServers : server'[q].at = "up" => q # p /\ server'[q] = server[q]
    BY <1>e, <1>a
  <2>3. ASSUME ~late' PROVE RowsAreOwned' /\ WorkerIdsUnique'
    <3>1. ~late
      BY <1>e, <2>3
    <3>2. RowsAreOwned'
      BY <1>c, <1>e, <2>2, <3>1 DEF RowsAreOwned
    <3>3. WorkerIdsUnique'
      BY <1>d, <1>e, <2>2, <3>1 DEF WorkerIdsUnique
    <3> QED
      BY <3>2, <3>3
  <2> QED
    BY <2>1, <2>3 DEF RegistryInv
<1>1. ASSUME NEW p \in IdServers, Clean(p) PROVE RegistryInv'
  <2>1. [Down EXCEPT !.at = "cleaned"] \in Rec /\ [Down EXCEPT !.at = "cleaned"].at # "up"
    BY DEF Down, NoWorker
  <2>2. worker' = clean_stale_workers(p)
    BY <1>1 DEF Clean
  <2>3. worker' \in [WorkerIds -> NoBeat .. MaxTime + MaxSkew]
    BY <2>2, <1>a, <1>b DEF clean_stale_workers
  <2>4. ASSUME ~late, NEW q \in IdServers, server[q].at = "up"
        PROVE  worker'[server[q].id] = worker[server[q].id]
    <3>1. /\ server[q].id \in WorkerIds
          /\ worker[server[q].id] = server[q].beat + skew[q]
          /\ now - server[q].beat <= StaleAfter - MaxSkew
          /\ server[q].beat \in Nat /\ skew[q] \in Nat
      BY <1>a, <1>c, <2>4 DEF RowsAreOwned
    <3>2. ~(worker[server[q].id] < LocalTime(p) - StaleAfter)
      BY <3>1, <1>a
    <3> QED
      BY <2>2, <3>1, <3>2 DEF clean_stale_workers
  <2> QED
    BY <1>1, <1>e, <2>1, <2>3, <2>4 DEF Clean
<1>2. ASSUME NEW p \in IdServers, List(p) PROVE RegistryInv'
  <2> DEFINE r == [server[p] EXCEPT !.at = "listed", !.used = Registered]
  <2>1. r \in Rec /\ r.at # "up"
    BY <1>a DEF Registered
  <2>2. server' = [server EXCEPT ![p] = r] /\ UNCHANGED <<now, skew, worker, late>>
    BY <1>2 DEF List
  <2> HIDE DEF r
  <2> QED
    BY <1>a, <1>e, <2>1, <2>2
<1>3. ASSUME NEW p \in IdServers, Insert(p) PROVE RegistryInv'
  <2> DEFINE free == WorkerIds \ server[p].used
             w == CHOOSE v \in free : \A u \in free : v <= u
  <2>1. CASE free # {} /\ worker[w] = NoBeat
             /\ worker' = [worker EXCEPT ![w] = LocalTime(p)]
             /\ server' = [server EXCEPT ![p] = [Down EXCEPT !.at = "up", !.id = w,
                                                             !.beat = now]]
    <3>1. w \in WorkerIds
      <4>1. \E v \in free : \A u \in free : v <= u
        BY <2>1, LeastElement
      <4> QED
        BY <4>1
    <3> HIDE DEF w
    <3>2. UNCHANGED <<now, skew, late>>
      BY <1>3 DEF Insert
    <3>3. [Down EXCEPT !.at = "up", !.id = w, !.beat = now] \in Rec
      <4>1. now \in 0 .. MaxTime
        BY <1>a
      <4>2. \A v \in WorkerIds, t \in 0 .. MaxTime :
                [Down EXCEPT !.at = "up", !.id = v, !.beat = t] \in Rec
        BY DEF Down
      <4> QED
        BY <3>1, <4>1, <4>2
    <3>4. RegistryTypeOK'
      <4>1. server' \in [IdServers -> Rec]
        BY <2>1, <3>3, <1>a
      <4>2. worker' \in [WorkerIds -> NoBeat .. MaxTime + MaxSkew]
        BY <2>1, <3>1, <1>a, <1>b
      <4> QED
        BY <3>2, <4>1, <4>2, <1>a DEF RegistryTypeOK
    <3>5. server'[p].at = "up" /\ server'[p].id = w /\ server'[p].beat = now
      BY <2>1, <1>a DEF Down
    <3>6. \A q \in IdServers : q # p => server'[q] = server[q]
      BY <2>1, <1>a
    <3>7. ASSUME ~late', NEW q \in IdServers, q # p, server[q].at = "up"
          PROVE  server[q].id # w
      <4>1. /\ worker[server[q].id] = server[q].beat + skew[q]
            /\ server[q].beat \in Nat /\ skew[q] \in Nat
        BY <1>a, <1>c, <3>2, <3>7 DEF RowsAreOwned
      <4> QED
        BY <2>1, <4>1, <1>b
    <3>8. ASSUME ~late' PROVE RowsAreOwned'
      <4>1. ASSUME NEW q \in IdServers, q # p, server'[q].at = "up"
            PROVE  /\ server'[q].id \in WorkerIds
                   /\ worker'[server'[q].id] = server'[q].beat + skew'[q]
                   /\ now' - server'[q].beat <= StaleAfter - MaxSkew
        BY <4>1, <1>a, <1>c, <2>1, <3>2, <3>6, <3>7, <3>8 DEF RowsAreOwned
      <4>2. /\ server'[p].id \in WorkerIds
            /\ worker'[server'[p].id] = server'[p].beat + skew'[p]
            /\ now' - server'[p].beat <= StaleAfter - MaxSkew
        BY <1>a, <2>1, <3>1, <3>2, <3>5
      <4> QED
        BY <4>1, <4>2 DEF RowsAreOwned
    <3>9. ASSUME ~late' PROVE WorkerIdsUnique'
      BY <1>d, <3>2, <3>5, <3>6, <3>7, <3>9 DEF WorkerIdsUnique
    <3> QED
      BY <3>4, <3>8, <3>9 DEF RegistryInv
  <2>2. CASE free # {} /\ worker[w] # NoBeat /\ UNCHANGED worker
             /\ server' = [server EXCEPT ![p].used = @ \cup {w}]
    <3>1. w \in WorkerIds
      <4>1. \E v \in free : \A u \in free : v <= u
        BY <2>2, LeastElement
      <4> QED
        BY <4>1
    <3> HIDE DEF w
    <3> DEFINE r == [server[p] EXCEPT !.used = @ \cup {w}]
    <3>2. r \in Rec /\ r.at # "up"
      BY <3>1, <1>3, <1>a DEF Insert
    <3>3. server' = [server EXCEPT ![p] = r]
      BY <2>2, <1>a
    <3> HIDE DEF r
    <3>4. UNCHANGED <<now, skew, late>>
      BY <1>3 DEF Insert
    <3> QED
      BY <1>a, <1>e, <2>2, <3>2, <3>3, <3>4
  <2>3. CASE server' = [server EXCEPT ![p] = Down] /\ UNCHANGED worker
    BY <1>3, <1>a, <1>b, <1>e, <2>3 DEF Insert
  <2> QED
    BY <1>3, <2>1, <2>2, <2>3 DEF Insert
<1>4. ASSUME NEW p \in IdServers, Heartbeat(p) PROVE RegistryInv'
  <2>1. /\ server[p].at = "up"
        /\ worker' = [v \in WorkerIds |->
                        IF v = server[p].id /\ worker[v] # NoBeat THEN LocalTime(p)
                        ELSE worker[v]]
        /\ server' = [server EXCEPT ![p].beat = now]
        /\ UNCHANGED <<now, skew, late>>
    BY <1>4 DEF Heartbeat
  <2>2. RegistryTypeOK'
    <3>1. server' \in [IdServers -> Rec]
      BY <2>1, <1>a
    <3>2. worker' \in [WorkerIds -> NoBeat .. MaxTime + MaxSkew]
      BY <2>1, <1>a, <1>b
    <3> QED
      BY <2>1, <3>1, <3>2, <1>a DEF RegistryTypeOK
  <2>3. \A q \in IdServers : /\ server'[q].at = server[q].at
                             /\ server'[q].id = server[q].id
                             /\ server'[q].beat = IF q = p THEN now ELSE server[q].beat
    BY <2>1, <1>a
  <2>4. ASSUME ~late', NEW q \in IdServers, server'[q].at = "up"
        PROVE  /\ server'[q].id \in WorkerIds
               /\ worker'[server'[q].id] = server'[q].beat + skew'[q]
               /\ now' - server'[q].beat <= StaleAfter - MaxSkew
    <3>1. /\ server[q].id \in WorkerIds
          /\ worker[server[q].id] = server[q].beat + skew[q]
          /\ now - server[q].beat <= StaleAfter - MaxSkew
          /\ server[q].beat \in Nat /\ skew[q] \in Nat
      BY <1>a, <1>c, <2>1, <2>3, <2>4 DEF RowsAreOwned
    <3>2. CASE q = p
      BY <2>1, <2>3, <3>1, <3>2, <1>a, <1>b
    <3>3. CASE q # p
      <4>1. server[q].id # server[p].id
        BY <1>d, <2>1, <2>3, <2>4, <3>3
      <4> QED
        BY <2>1, <2>3, <3>1, <3>3, <4>1
    <3> QED
      BY <3>2, <3>3
  <2>5. ~late' => WorkerIdsUnique'
    BY <1>d, <2>1, <2>3 DEF WorkerIdsUnique
  <2> QED
    BY <2>2, <2>4, <2>5 DEF RegistryInv, RowsAreOwned
<1>5. ASSUME NEW p \in IdServers, Shutdown(p) PROVE RegistryInv'
  <2>1. /\ server[p].at = "up"
        /\ worker' = [worker EXCEPT ![server[p].id] = NoBeat]
        /\ server' = [server EXCEPT ![p] = Down]
        /\ UNCHANGED <<now, skew, late>>
    BY <1>5 DEF Shutdown
  <2>2. worker' \in [WorkerIds -> NoBeat .. MaxTime + MaxSkew]
    <3>1. NoBeat \in NoBeat .. MaxTime + MaxSkew
      BY <1>b
    <3> HIDE DEF NoBeat
    <3> QED
      BY <2>1, <3>1, <1>a
  <2>3. ASSUME ~late, NEW q \in IdServers, server[q].at = "up", q # p
        PROVE  worker'[server[q].id] = worker[server[q].id]
    BY <1>a, <1>c, <1>d, <2>1, <2>3 DEF RowsAreOwned
  <2> QED
    BY <1>b, <1>e, <2>1, <2>2, <2>3
<1>6. ASSUME NEW p \in IdServers, Die(p) PROVE RegistryInv'
  BY <1>6, <1>a, <1>b, <1>e DEF Die
<1>7. ASSUME Pass PROVE RegistryInv'
  <2>1. /\ now < MaxTime /\ now' = now + 1 /\ UNCHANGED <<skew, worker, server>>
        /\ late' = (late \/ \E p \in IdServers :
                       server[p].at = "up" /\ now' - server[p].beat > StaleAfter - MaxSkew)
    BY <1>7 DEF Pass
  <2>2. RegistryTypeOK'
    BY <2>1, <1>a DEF RegistryTypeOK
  <2>3. ASSUME ~late' PROVE RowsAreOwned' /\ WorkerIdsUnique'
    <3>1. ~late
      BY <2>1, <2>3
    <3>2. \A p \in IdServers :
              server[p].at = "up" => ~(now' - server[p].beat > StaleAfter - MaxSkew)
      BY <2>1, <2>3
    <3>3. \A p \in IdServers : server[p].beat \in Nat
      BY <1>a
    <3>4. RowsAreOwned'
      BY <1>a, <1>c, <2>1, <3>1, <3>2, <3>3 DEF RowsAreOwned
    <3>5. WorkerIdsUnique'
      BY <1>d, <2>1, <3>1 DEF WorkerIdsUnique
    <3> QED
      BY <3>4, <3>5
  <2> QED
    BY <2>2, <2>3 DEF RegistryInv
<1>8. ASSUME UNCHANGED registryVars PROVE RegistryInv'
  BY <1>8 DEF registryVars, RegistryInv, RegistryTypeOK, RowsAreOwned, WorkerIdsUnique
<1> QED
  BY <1>1, <1>2, <1>3, <1>4, <1>5, <1>6, <1>7, <1>8 DEF RegistryNext

\* As long as every process renews its heartbeat in time, no two running
\* processes ever hold one worker id: registrations, crashes, shutdowns and the
\* cleaning of stale rows by a clock that is ahead included.
THEOREM WorkersNeverShareAnId == RegistrySpec => []WorkerIdsUnique
<1>1. RegistrySpec => []RegistryInv
  BY RegistryInitInv, RegistryNextInv, PTL DEF RegistrySpec
<1>2. RegistryInv => WorkerIdsUnique
  BY DEF RegistryInv, WorkerIdsUnique
<1> QED
  BY <1>1, <1>2, PTL

-----------------------------------------------------------------------------
(* Payment orders.                                                         *)

Order == [status : OrderStatuses, txn : {Unset, "txn"}, tenant : OrderTenants,
          paidAt : {Unset, "first", "later"}]
EditRequest == [at : {"update", "delete"}, order : OrderIds, seen : Order,
                status : OrderStatuses \cup {Unset}, txn : {Unset, "txn"}]

OrdersTyped ==
    /\ orderRow \in [OrderIds -> Order \cup {NoOrder}]
    /\ orderCopy \in [OrderIds -> Order \cup {NoOrder}]
    /\ edit \in [Editors -> EditRequest \cup {IdleEdit, [at |-> "done"]}]
    /\ stamped \subseteq OrderIds

\* What was ever read with a time of payment is an order whose time was set.
TimesAreStamped ==
    /\ \A o \in OrderIds : orderRow[o] # NoOrder /\ orderRow[o].paidAt # Unset => o \in stamped
    /\ \A o \in OrderIds : orderCopy[o] # NoOrder /\ orderCopy[o].paidAt # Unset => o \in stamped
    /\ \A e \in Editors : edit[e] \in EditRequest /\ edit[e].seen.paidAt # Unset
                              => edit[e].order \in stamped

OrdersInv == OrdersTyped /\ TimesAreStamped /\ PaidOrdersHaveATime

LEMMA OrderShape == NoOrder \notin Order
  BY DEF NoOrder, Order

LEMMA EditShape ==
    /\ IdleEdit \notin EditRequest /\ [at |-> "done"] \notin EditRequest
    /\ IdleEdit # [at |-> "done"]
  BY DEF IdleEdit, EditRequest

LEMMA OrdersInitInv == OrdersInit => OrdersInv
  BY EditShape DEF OrdersInit, OrdersInv, OrdersTyped, TimesAreStamped,
                   PaidOrdersHaveATime

LEMMA OrdersNextInv == OrdersInv /\ [OrdersNext]_orderVars => OrdersInv'
<1> SUFFICES ASSUME OrdersInv, [OrdersNext]_orderVars PROVE OrdersInv'
  OBVIOUS
<1>a. /\ orderRow \in [OrderIds -> Order \cup {NoOrder}]
      /\ orderCopy \in [OrderIds -> Order \cup {NoOrder}]
      /\ edit \in [Editors -> EditRequest \cup {IdleEdit, [at |-> "done"]}]
      /\ stamped \subseteq OrderIds
  BY DEF OrdersInv, OrdersTyped
<1>b. TimesAreStamped /\ PaidOrdersHaveATime
  BY DEF OrdersInv
\* A request ends, or nothing happens to it; rows are as before.
<1>c. ASSUME NEW e \in Editors, NEW r \in {IdleEdit, [at |-> "done"]},
             edit' = [edit EXCEPT ![e] = r]
      PROVE  /\ edit' \in [Editors -> EditRequest \cup {IdleEdit, [at |-> "done"]}]
             /\ \A d \in Editors : edit'[d] \in EditRequest => edit'[d] = edit[d]
  BY <1>c, <1>a, EditShape
<1>1. ASSUME NEW o \in OrderIds, NEW t \in OrderTenants, NEW s \in OrderStatuses,
             InsertOrder(o, t, s),
             edit' \in [Editors -> EditRequest \cup {IdleEdit, [at |-> "done"]}],
             \A d \in Editors : edit'[d] \in EditRequest => edit'[d] = edit[d]
      PROVE  OrdersInv'
  <2> DEFINE new == [status |-> s, txn |-> Unset, tenant |-> t,
                     paidAt |-> IF s = "paid" THEN PaidNow(o) ELSE Unset]
  <2>1. new \in Order /\ new # NoOrder /\ new.status = s /\ (new.paidAt # Unset <=> s = "paid")
    <3>1. PaidNow(o) \in {"first", "later"} /\ PaidNow(o) # Unset
      BY DEF PaidNow, Unset
    <3>2. new.status = s /\ (new.paidAt # Unset <=> s = "paid")
      BY <3>1
    <3>3. new \in Order
      BY <3>1 DEF Order
    <3> QED
      BY <3>2, <3>3, OrderShape
  <2>2. /\ orderRow[o] = NoOrder /\ o \notin stamped
        /\ orderRow' = [orderRow EXCEPT ![o] = new]
        /\ stamped' = IF s = "paid" THEN stamped \cup {o} ELSE stamped
        /\ UNCHANGED orderCopy
    BY <1>1 DEF InsertOrder
  <2> HIDE DEF new
  <2>3. OrdersTyped'
    BY <1>1, <1>a, <2>1, <2>2 DEF OrdersTyped
  <2>4. TimesAreStamped'
    BY <1>1, <1>a, <1>b, <2>1, <2>2 DEF TimesAreStamped
  <2>5. PaidOrdersHaveATime'
    BY <1>a, <1>b, <2>1, <2>2 DEF PaidOrdersHaveATime
  <2> QED
    BY <2>3, <2>4, <2>5 DEF OrdersInv
<1>2. ASSUME NEW e \in Editors, NEW o \in OrderIds, NEW t \in OrderTenants,
             NEW s \in OrderStatuses, CreateOrder(e, o, t, s)
      PROVE  OrdersInv'
  BY <1>1, <1>2, <1>c DEF CreateOrder
<1>3. ASSUME NEW o \in OrderIds, NEW t \in OrderTenants, PurchaseOrder(o, t)
      PROVE  OrdersInv'
  BY <1>1, <1>3, <1>a, OrdersAssumption DEF PurchaseOrder
<1>4. ASSUME NEW e \in Editors, NEW o \in OrderIds, NEW act \in {"update", "delete"},
             NEW s \in OrderStatuses \cup {Unset}, NEW x \in {Unset, "txn"},
             LoadOrder(e, o, act, s, x)
      PROVE  OrdersInv'
  <2>1. PICK seen \in {orderRow[o], orderCopy[o]} :
          edit' = [edit EXCEPT ![e] =
            IF InScope(e, seen)
            THEN [at |-> act, order |-> o, seen |-> seen, status |-> s, txn |-> x]
            ELSE [at |-> "done"]]
    BY <1>4 DEF LoadOrder
  <2>2. UNCHANGED <<orderRow, orderCopy, stamped>>
    BY <1>4 DEF LoadOrder
  <2> DEFINE r == [at |-> act, order |-> o, seen |-> seen, status |-> s, txn |-> x]
  <2>3. CASE InScope(e, seen)
    <3>1. seen \in Order
      BY <1>a, <2>3 DEF InScope
    <3>2. r \in EditRequest /\ r.seen = seen /\ r.order = o
      BY <3>1 DEF EditRequest
    <3>3. edit' = [edit EXCEPT ![e] = r]
      BY <2>1, <2>3
    <3> HIDE DEF r
    <3>4. seen.paidAt # Unset => o \in stamped
      BY <1>b, <3>1, OrderShape DEF TimesAreStamped
    <3>5. OrdersTyped'
      BY <1>a, <2>2, <3>2, <3>3 DEF OrdersTyped
    <3>6. TimesAreStamped'
      BY <1>a, <1>b, <2>2, <3>2, <3>3, <3>4 DEF TimesAreStamped
    <3> QED
      BY <1>b, <2>2, <3>5, <3>6 DEF OrdersInv, PaidOrdersHaveATime
  <2>4. CASE ~InScope(e, seen)
    <3>1. edit' = [edit EXCEPT ![e] = [at |-> "done"]]
      BY <2>1, <2>4
    <3>2. OrdersTyped' /\ TimesAreStamped'
      BY <1>a, <1>b, <1>c, <2>2, <3>1 DEF OrdersTyped, TimesAreStamped
    <3> QED
      BY <1>b, <2>2, <3>2 DEF OrdersInv, PaidOrdersHaveATime
  <2> QED
    BY <2>3, <2>4
<1>5. ASSUME NEW e \in Editors, UpdateOrder(e) PROVE OrdersInv'
  <2>1. edit[e] \in EditRequest
    BY <1>5, <1>a DEF UpdateOrder, IdleEdit
  <2>2. PICK r \in EditRequest : r = edit[e]
    BY <2>1
  <2>3. edit' = [edit EXCEPT ![e] = [at |-> "done"]] /\ UNCHANGED orderCopy
    BY <1>5 DEF UpdateOrder
  <2>4. CASE orderRow[r.order] = NoOrder
    <3>1. UNCHANGED <<orderRow, stamped>>
      BY <1>5, <2>2, <2>4 DEF UpdateOrder
    <3>2. OrdersTyped' /\ TimesAreStamped'
      BY <1>a, <1>b, <1>c, <2>3, <3>1 DEF OrdersTyped, TimesAreStamped
    <3> QED
      BY <1>b, <3>1, <3>2 DEF OrdersInv, PaidOrdersHaveATime
  <2>5. CASE orderRow[r.order] # NoOrder
    <3>1. PICK o \in OrderIds : o = r.order
      BY DEF EditRequest
    <3>2. PICK was \in Order : was = orderRow[o]
      BY <1>a, <2>5, <3>1
    <3>3. PICK new : new = RowWritten(was, r)
      OBVIOUS
    <3>4. r.seen \in Order /\ r.status \in OrderStatuses \cup {Unset} /\ r.txn \in {Unset, "txn"}
      BY DEF EditRequest
    <3>5. /\ new \in Order
          /\ new.status = IF r.status = Unset THEN was.status ELSE r.status
          /\ new.paidAt # Unset
                 <=> (was.paidAt # Unset \/ (r.status = "paid" /\ r.seen.paidAt = Unset))
      <4>1. PaidNow(r.order) \in {"first", "later"} /\ PaidNow(r.order) # Unset
        BY DEF PaidNow, Unset
      <4> QED
        BY <3>3, <3>4, <4>1 DEF RowWritten, Order
    <3>6. /\ orderRow' = [orderRow EXCEPT ![o] = new]
          /\ stamped' = IF new.paidAt # Unset THEN stamped \cup {o} ELSE stamped
      BY <1>5, <1>a, <2>2, <2>5, <3>1, <3>2, <3>3 DEF UpdateOrder
    <3>7. was.status = "paid" \/ o \in stamped => was.paidAt # Unset
      BY <1>b, <3>1, <3>2, <2>5 DEF PaidOrdersHaveATime
    <3>8. r.seen.paidAt # Unset => o \in stamped
      BY <1>b, <2>2, <3>1 DEF TimesAreStamped
    <3>9. new.status = "paid" \/ o \in stamped => new.paidAt # Unset
      BY <3>5, <3>7, <3>8 DEF Unset
    <3>10. OrdersTyped'
      BY <1>a, <1>c, <2>3, <3>5, <3>6 DEF OrdersTyped
    <3>11. TimesAreStamped'
      BY <1>a, <1>b, <1>c, <2>3, <3>6 DEF TimesAreStamped
    <3>12. PaidOrdersHaveATime'
      <4> SUFFICES ASSUME NEW q \in OrderIds, orderRow'[q] # NoOrder,
                          orderRow'[q].status = "paid" \/ q \in stamped'
                   PROVE  orderRow'[q].paidAt # Unset
        BY DEF PaidOrdersHaveATime
      <4>1. CASE q = o
        BY <1>a, <3>6, <3>9, <4>1
      <4>2. CASE q # o
        BY <1>a, <1>b, <3>6, <4>2 DEF PaidOrdersHaveATime
      <4> QED
        BY <4>1, <4>2
    <3> QED
      BY <3>10, <3>11, <3>12 DEF OrdersInv
  <2> QED
    BY <2>4, <2>5
<1>6. ASSUME NEW e \in Editors, DeleteOrder(e) PROVE OrdersInv'
  <2>1. edit[e] \in EditRequest
    BY <1>6, <1>a DEF DeleteOrder, IdleEdit
  <2>2. PICK o \in OrderIds : o = edit[e].order
    BY <2>1 DEF EditRequest
  <2>3. /\ orderRow' = [orderRow EXCEPT ![o] = NoOrder]
        /\ stamped' = stamped \cup {o}
        /\ edit' = [edit EXCEPT ![e] = [at |-> "done"]]
        /\ UNCHANGED orderCopy
    BY <1>6, <2>2 DEF DeleteOrder
  <2>4. OrdersTyped' /\ TimesAreStamped'
    BY <1>a, <1>b, <1>c, <2>3 DEF OrdersTyped, TimesAreStamped
  <2>5. PaidOrdersHaveATime'
    BY <1>a, <1>b, <2>3 DEF PaidOrdersHaveATime
  <2> QED
    BY <2>4, <2>5 DEF OrdersInv
<1>7. ASSUME NEW e \in Editors, NextEdit(e) PROVE OrdersInv'
  <2>1. UNCHANGED <<orderRow, orderCopy, stamped>> /\ edit' = [edit EXCEPT ![e] = IdleEdit]
    BY <1>7 DEF NextEdit
  <2>2. OrdersTyped' /\ TimesAreStamped'
    BY <1>a, <1>b, <1>c, <2>1 DEF OrdersTyped, TimesAreStamped
  <2> QED
    BY <1>b, <2>1, <2>2 DEF OrdersInv, PaidOrdersHaveATime
<1>8. ASSUME ReplicateOrders PROVE OrdersInv'
  BY <1>8, <1>a, <1>b DEF ReplicateOrders, OrdersInv, OrdersTyped, TimesAreStamped,
                         PaidOrdersHaveATime
<1>9. ASSUME UNCHANGED orderVars PROVE OrdersInv'
  BY <1>9, <1>a, <1>b DEF orderVars, OrdersInv, OrdersTyped, TimesAreStamped,
                         PaidOrdersHaveATime
<1> QED
  BY <1>2, <1>3, <1>4, <1>5, <1>6, <1>7, <1>8, <1>9 DEF OrdersNext

\* The row of an order is written by updates, which go by the row they read,
\* and by deletions; an insertion finds none.
LEMMA OrdersStepKeeps == OrdersInv /\ [OrdersNext]_orderVars => [FirstTimeStays]_orderVars
<1> SUFFICES ASSUME OrdersInv, OrdersNext, NEW o \in OrderIds,
                    orderRow[o] # NoOrder, orderRow'[o] # NoOrder, orderRow[o].paidAt = "first"
             PROVE  orderRow'[o].paidAt = "first" \/ ReadUnpaid(o)
  BY DEF FirstTimeStays
<1>a. /\ orderRow \in [OrderIds -> Order \cup {NoOrder}]
      /\ edit \in [Editors -> EditRequest \cup {IdleEdit, [at |-> "done"]}]
  BY DEF OrdersInv, OrdersTyped
<1>1. CASE \E q \in OrderIds, t \in OrderTenants, s \in OrderStatuses : InsertOrder(q, t, s)
  BY <1>1, <1>a DEF InsertOrder
<1>2. CASE UNCHANGED orderRow
  BY <1>2
<1>3. CASE \E e \in Editors : DeleteOrder(e)
  BY <1>3, <1>a DEF DeleteOrder
<1>4. ASSUME NEW e \in Editors, UpdateOrder(e)
      PROVE  orderRow'[o].paidAt = "first" \/ ReadUnpaid(o)
  <2>1. edit[e] \in EditRequest /\ edit[e].at = "update"
    BY <1>4, <1>a DEF UpdateOrder, IdleEdit
  <2>2. PICK r \in EditRequest : r = edit[e]
    BY <2>1
  <2>3. CASE r.order # o \/ orderRow[r.order] = NoOrder
    BY <1>4, <1>a, <2>2, <2>3 DEF UpdateOrder
  <2>4. CASE r.order = o /\ orderRow[o] # NoOrder
    <3>1. PICK was \in Order : was = orderRow[o]
      BY <1>a
    <3>2. orderRow'[o] = RowWritten(was, r)
      BY <1>4, <1>a, <2>2, <2>4, <3>1 DEF UpdateOrder
    <3>3. r.seen.paidAt # Unset => RowWritten(was, r).paidAt = was.paidAt
      BY <3>1 DEF RowWritten, Order
    <3>4. CASE r.seen.paidAt = Unset
      BY <2>1, <2>2, <2>4, <3>4 DEF ReadUnpaid
    <3> QED
      BY <3>1, <3>2, <3>3, <3>4
  <2> QED
    BY <2>3, <2>4
<1> QED
  BY <1>1, <1>2, <1>3, <1>4, OrdersAssumption
     DEF OrdersNext, CreateOrder, PurchaseOrder, LoadOrder, NextEdit, ReplicateOrders

\* An order that is or ever was paid keeps a time of payment, however edits that
\* read an old row from a replica, purchases and deletions interleave, and keeps
\* the first one through every edit that read the order after its payment.
THEOREM PaidOrdersAreDated == OrdersSpec => PaidOrdersKeepTheirTime
<1>1. OrdersSpec => []OrdersInv
  BY OrdersInitInv, OrdersNextInv, PTL DEF OrdersSpec
<1>2. OrdersInv /\ [OrdersNext]_orderVars => [PaidOrdersHaveATime' /\ FirstTimeStays]_orderVars
  <2>1. OrdersInv /\ [OrdersNext]_orderVars => PaidOrdersHaveATime'
    BY OrdersNextInv DEF OrdersInv
  <2> QED
    BY <2>1, OrdersStepKeeps
<1> QED
  BY <1>1, <1>2, PTL DEF OrdersSpec, PaidOrdersKeepTheirTime

-----------------------------------------------------------------------------
(* The cache and its lock.                                                 *)

CallPcs == {"idle", "get", "null", "acquire", "double", "poll", "compute",
            "fill", "release", "drop", "done"}
AnyCall == [way : Ways, pc : CallPcs, tries : Nat, guard : BOOLEAN,
            found : BOOLEAN, val : Nat]

CacheTyped ==
    /\ db \in [ver : Nat, exists : BOOLEAN]
    /\ cached \in Nat /\ null \in BOOLEAN
    /\ call \in [Callers -> AnyCall]
    /\ write \in [Writers -> {"idle", "written", "done"}]

\* A guard is taken with the lock, and as long as its holder may still work
\* under it the lock is the holder's or expired meanwhile.
GuardHoldsLock ==
    \A p \in Callers :
        /\ call[p].pc \in {"idle", "null", "acquire", "poll"} => ~call[p].guard
        /\ Guarded(p) => p \in lapsed \/ lock = p

\* A row that was read as absent stays absent.
AbsenceIsFinal ==
    \A p \in Callers : call[p].pc = "fill" /\ ~call[p].found => ~db.exists

CacheInv == CacheTyped /\ GuardHoldsLock /\ AbsenceIsFinal /\ StaleOnlyByLateFill

LEMMA CacheInitInv == CacheInit => CacheInv
<1> SUFFICES ASSUME CacheInit PROVE CacheInv
  OBVIOUS
<1>1. PICK ways \in Mixes :
         call = [p \in Callers |-> [way |-> ways[p], pc |-> "idle", tries |-> 0,
                                    guard |-> FALSE, found |-> FALSE, val |-> 0]]
  BY DEF CacheInit
<1>2. \A p \in Callers : ways[p] \in Ways
  BY <1>1, CacheAssumption DEF Ways
<1>3. call \in [Callers -> AnyCall]
  BY <1>1, <1>2 DEF AnyCall, CallPcs
<1>4. \A p \in Callers : call[p].pc = "idle" /\ call[p].guard = FALSE
  BY <1>1
<1>5. /\ db = [ver |-> 0, exists |-> TRUE] /\ cached = 0 /\ null = FALSE
  BY DEF CacheInit
<1>6. CacheTyped
  <2>1. write \in [Writers -> {"idle", "written", "done"}]
    BY DEF CacheInit
  <2>2. db \in [ver : Nat, exists : BOOLEAN] /\ null \in BOOLEAN
    BY <1>5
  <2> QED
    BY <1>3, <1>5, <2>1, <2>2 DEF CacheTyped
<1>7. GuardHoldsLock /\ AbsenceIsFinal
  BY <1>4 DEF GuardHoldsLock, AbsenceIsFinal, Guarded
<1>8. StaleOnlyByLateFill
  BY <1>5 DEF StaleOnlyByLateFill
<1> QED
  BY <1>6, <1>7, <1>8 DEF CacheInv

LEMMA CacheNextInv == CacheInv /\ [CacheNext]_cacheVars => CacheInv'
<1> SUFFICES ASSUME CacheInv, [CacheNext]_cacheVars PROVE CacheInv'
  OBVIOUS
<1>0. "" \notin Callers
  BY CacheAssumption
<1>a. /\ db \in [ver : Nat, exists : BOOLEAN] /\ cached \in Nat /\ null \in BOOLEAN
      /\ call \in [Callers -> AnyCall]
      /\ write \in [Writers -> {"idle", "written", "done"}]
      /\ db.ver \in Nat
  BY DEF CacheInv, CacheTyped
<1>b. GuardHoldsLock /\ AbsenceIsFinal /\ StaleOnlyByLateFill
  BY DEF CacheInv
\* A step of one caller that touches nothing but its own record.
<1>c. ASSUME NEW p \in Callers, NEW r \in AnyCall, call' = [call EXCEPT ![p] = r],
             r.pc \in {"idle", "null", "acquire", "poll"} => ~r.guard,
             r.guard /\ r.pc \in {"double", "compute", "fill", "release"}
                 => p \in lapsed \/ lock = p,
             r.pc = "fill" /\ ~r.found => ~db.exists,
             UNCHANGED <<db, cached, null, lock, write, lapsed, excuse>>
      PROVE  CacheInv'
  <2>1. CacheTyped'
    BY <1>c, <1>a DEF CacheTyped
  <2>2. \A q \in Callers : call'[q] = IF q = p THEN r ELSE call[q]
    BY <1>c, <1>a
  <2>3. GuardHoldsLock' /\ AbsenceIsFinal'
    BY <1>b, <1>c, <2>2 DEF GuardHoldsLock, AbsenceIsFinal, Guarded
  <2>4. StaleOnlyByLateFill'
    BY <1>b, <1>c DEF StaleOnlyByLateFill, Pending
  <2> QED
    BY <2>1, <2>3, <2>4 DEF CacheInv
\* The same for a step that only moves the caller on.
<1>d. ASSUME NEW p \in Callers, NEW pc \in CallPcs, CallTo(p, pc),
             pc \in {"idle", "null", "acquire", "poll"} => ~call[p].guard,
             call[p].guard /\ pc \in {"double", "compute", "fill", "release"}
                 => call[p].pc \in {"double", "compute", "fill", "release"},
             pc # "fill",
             UNCHANGED <<db, cached, null, lock, write, lapsed, excuse>>
      PROVE  CacheInv'
  <2> DEFINE r == [call[p] EXCEPT !.pc = pc]
  <2>1. r \in AnyCall /\ r.pc = pc /\ r.guard = call[p].guard
    BY <1>a DEF AnyCall
  <2>2. call' = [call EXCEPT ![p] = r]
    BY <1>a, <1>d DEF CallTo
  <2>3. call[p].guard /\ pc \in {"double", "compute", "fill", "release"}
            => p \in lapsed \/ lock = p
    BY <1>b, <1>d DEF GuardHoldsLock, Guarded
  <2> HIDE DEF r
  <2> QED
    BY <1>c, <1>d, <2>1, <2>2, <2>3
<1>1. ASSUME NEW p \in Callers, GetFast(p) PROVE CacheInv'
  <2>1. ~call[p].guard
    BY <1>1, <1>b DEF GetFast, GuardHoldsLock
  <2>2. \E pc \in {"done", "null", "acquire"} : CallTo(p, pc)
    BY <1>1 DEF GetFast
  <2> QED
    BY <1>1, <1>d, <2>1, <2>2 DEF GetFast, CallPcs
<1>2. ASSUME NEW p \in Callers, GetNull(p) PROVE CacheInv'
  <2>1. ~call[p].guard
    BY <1>2, <1>b DEF GetNull, GuardHoldsLock
  <2>2. \E pc \in {"done", "compute", "acquire"} : CallTo(p, pc)
    BY <1>2 DEF GetNull
  <2> QED
    BY <1>2, <1>d, <2>1, <2>2 DEF GetNull, CallPcs
<1>3. ASSUME NEW p \in Callers, Acquire(p) PROVE CacheInv'
  <2>1. call[p].pc = "acquire" /\ ~call[p].guard /\ call[p] \in AnyCall
    BY <1>3, <1>a, <1>b DEF Acquire, GuardHoldsLock
  <2>2. UNCHANGED <<db, cached, null, write, lapsed, excuse>>
    BY <1>3 DEF Acquire
  <2>3. CASE /\ lock = "" /\ lock' = p
             /\ call' = [call EXCEPT ![p] =
                          [@ EXCEPT !.guard = TRUE, !.tries = 0,
                                    !.pc = IF call[p].way = "locked"
                                           THEN "double" ELSE "compute"]]
    <3> DEFINE r == [call[p] EXCEPT !.guard = TRUE, !.tries = 0,
                                    !.pc = IF call[p].way = "locked"
                                           THEN "double" ELSE "compute"]
    <3>1. r \in AnyCall /\ r.pc \in {"double", "compute"}
      BY <2>1 DEF AnyCall, CallPcs
    <3>2. call' = [call EXCEPT ![p] = r]
      BY <1>a, <2>3
    <3> HIDE DEF r
    <3>3. \A q \in Callers : call'[q] = IF q = p THEN r ELSE call[q]
      BY <1>a, <3>2
    <3>4. CacheTyped'
      BY <1>a, <2>2, <3>1, <3>2 DEF CacheTyped
    <3>5. GuardHoldsLock'
      <4> SUFFICES ASSUME NEW q \in Callers
                   PROVE  /\ call'[q].pc \in {"idle", "null", "acquire", "poll"}
                                => ~call'[q].guard
                          /\ Guarded(q)' => q \in lapsed' \/ lock' = q
        BY DEF GuardHoldsLock
      <4>1. CASE q = p
        BY <2>3, <3>1, <3>3, <4>1
      <4>2. CASE q # p
        BY <1>0, <1>b, <2>2, <2>3, <3>3, <4>2 DEF GuardHoldsLock, Guarded
      <4> QED
        BY <4>1, <4>2
    <3>6. AbsenceIsFinal' /\ StaleOnlyByLateFill'
      BY <1>b, <2>2, <3>1, <3>3 DEF AbsenceIsFinal, StaleOnlyByLateFill, Pending
    <3> QED
      BY <3>4, <3>5, <3>6 DEF CacheInv
  <2>4. CASE /\ UNCHANGED lock
             /\ call' = [call EXCEPT ![p] =
                          IF @.tries + 1 < Attempts(p)
                            THEN [call[p] EXCEPT !.tries = @ + 1]
                            ELSE [@ EXCEPT !.tries = 0,
                                    !.pc = IF call[p].way = "buy" THEN "done"
                                           ELSE "poll"]]
    <3>1. CASE call[p].tries + 1 < Attempts(p)
      <4> DEFINE r == [call[p] EXCEPT !.tries = @ + 1]
      <4>1. r \in AnyCall /\ r.pc = "acquire" /\ ~r.guard
        BY <2>1 DEF AnyCall
      <4>2. call' = [call EXCEPT ![p] = r]
        BY <2>4, <3>1
      <4> HIDE DEF r
      <4> QED
        BY <1>c, <2>2, <2>4, <4>1, <4>2
    <3>2. CASE ~(call[p].tries + 1 < Attempts(p))
      <4> DEFINE r == [call[p] EXCEPT !.tries = 0,
                                      !.pc = IF call[p].way = "buy" THEN "done" ELSE "poll"]
      <4>1. r \in AnyCall /\ r.pc \in {"done", "poll"} /\ ~r.guard
        BY <2>1 DEF AnyCall, CallPcs
      <4>2. call' = [call EXCEPT ![p] = r]
        BY <1>a, <2>4, <3>2
      <4> HIDE DEF r
      <4> QED
        BY <1>c, <2>2, <2>4, <4>1, <4>2
    <3> QED
      BY <3>1, <3>2
  <2>5. CASE /\ UNCHANGED lock
             /\ call' = [call EXCEPT ![p].pc = "compute", ![p].tries = 0]
    <3> DEFINE r == [call[p] EXCEPT !.pc = "compute", !.tries = 0]
    <3>1. r \in AnyCall /\ r.pc = "compute" /\ ~r.guard
      BY <2>1 DEF AnyCall, CallPcs
    <3>2. call' = [call EXCEPT ![p] = r]
      BY <1>a, <2>5
    <3> HIDE DEF r
    <3> QED
      BY <1>c, <2>2, <2>5, <3>1, <3>2
  <2> QED
    BY <1>3, <2>3, <2>4, <2>5 DEF Acquire
<1>4. ASSUME NEW p \in Callers, DoubleCheck(p) PROVE CacheInv'
  <2>1. \E pc \in {"drop", "compute"} : CallTo(p, pc)
    BY <1>4 DEF DoubleCheck
  <2> QED
    BY <1>4, <1>d, <2>1 DEF DoubleCheck, CallPcs
<1>5. ASSUME NEW p \in Callers, Poll(p) PROVE CacheInv'
  <2>1. call[p].pc = "poll" /\ ~call[p].guard /\ call[p] \in AnyCall
    BY <1>5, <1>a, <1>b DEF Poll, GuardHoldsLock
  <2>2. UNCHANGED <<db, cached, null, lock, write, lapsed, excuse>>
    BY <1>5 DEF Poll
  <2>3. CASE CallTo(p, "done")
    BY <1>d, <2>1, <2>2, <2>3 DEF CallPcs
  <2>4. CASE call' = [call EXCEPT ![p] =
                        IF @.tries + 1 < MaxRetries THEN [call[p] EXCEPT !.tries = @ + 1]
                        ELSE [@ EXCEPT !.tries = 0, !.pc = "compute"]]
    <3>1. CASE call[p].tries + 1 < MaxRetries
      <4> DEFINE r == [call[p] EXCEPT !.tries = @ + 1]
      <4>1. r \in AnyCall /\ r.pc = "poll" /\ ~r.guard
        BY <2>1 DEF AnyCall
      <4>2. call' = [call EXCEPT ![p] = r]
        BY <2>4, <3>1
      <4> HIDE DEF r
      <4> QED
        BY <1>c, <2>2, <4>1, <4>2
    <3>2. CASE ~(call[p].tries + 1 < MaxRetries)
      <4> DEFINE r == [call[p] EXCEPT !.tries = 0, !.pc = "compute"]
      <4>1. r \in AnyCall /\ r.pc = "compute" /\ ~r.guard
        BY <2>1 DEF AnyCall, CallPcs
      <4>2. call' = [call EXCEPT ![p] = r]
        BY <1>a, <2>4, <3>2
      <4> HIDE DEF r
      <4> QED
        BY <1>c, <2>2, <4>1, <4>2
    <3> QED
      BY <3>1, <3>2
  <2> QED
    BY <1>5, <2>3, <2>4 DEF Poll
<1>6. ASSUME NEW p \in Callers, Compute(p) PROVE CacheInv'
  <2>1. call[p].pc = "compute" /\ call[p] \in AnyCall
        /\ UNCHANGED <<db, cached, null, lock, write, lapsed, excuse>>
    BY <1>6, <1>a DEF Compute
  <2>2. CASE call' = [call EXCEPT ![p].pc = "fill",
                                  ![p].val = db.ver, ![p].found = db.exists]
    <3> DEFINE r == [call[p] EXCEPT !.pc = "fill", !.val = db.ver, !.found = db.exists]
    <3>1. r \in AnyCall /\ r.pc = "fill" /\ r.guard = call[p].guard /\ r.found = db.exists
      BY <1>a, <2>1 DEF AnyCall, CallPcs
    <3>2. call' = [call EXCEPT ![p] = r]
      BY <1>a, <2>2
    <3>3. call[p].guard => p \in lapsed \/ lock = p
      BY <1>b, <2>1 DEF GuardHoldsLock, Guarded
    <3> HIDE DEF r
    <3> QED
      BY <1>c, <2>1, <3>1, <3>2, <3>3
  <2>3. CASE \E pc \in {"drop", "done", "release"} : CallTo(p, pc)
    BY <1>d, <2>1, <2>3 DEF CallPcs
  <2> QED
    BY <1>6, <2>2, <2>3 DEF Compute, Leave
<1>7. ASSUME NEW p \in Callers, Fill(p) PROVE CacheInv'
  <2>1. call[p].pc = "fill" /\ call[p] \in AnyCall /\ UNCHANGED <<db, lock, write, lapsed>>
    BY <1>7, <1>a DEF Fill
  <2>2. PICK pc \in {"drop", "done"} : CallTo(p, pc)
    BY <1>7 DEF Fill, Leave
  <2> DEFINE r == [call[p] EXCEPT !.pc = pc]
  <2>3. r \in AnyCall /\ r.pc = pc
    BY <2>1 DEF AnyCall, CallPcs
  <2>4. call' = [call EXCEPT ![p] = r]
    BY <1>a, <2>2 DEF CallTo
  <2> HIDE DEF r
  <2>5. \A q \in Callers : call'[q] = IF q = p THEN r ELSE call[q]
    BY <1>a, <2>4
  <2>6. call[p].val \in Nat /\ db.ver \in Nat
    BY <1>a, <2>1 DEF AnyCall
  <2>7. cached' \in Nat /\ null' \in BOOLEAN
    <3>1. cached' \in {cached, call[p].val + 1}
      BY <1>7 DEF Fill
    <3>2. null' = null \/ null' = TRUE
      BY <1>7, Zenon DEF Fill
    <3>3. null' \in BOOLEAN
      BY <1>a, <3>2
    <3> QED
      BY <1>a, <2>6, <3>1, <3>3
  <2>8. CacheTyped'
    BY <1>a, <2>1, <2>3, <2>4, <2>7 DEF CacheTyped
  <2>9. GuardHoldsLock' /\ AbsenceIsFinal'
    BY <1>b, <2>1, <2>3, <2>5 DEF GuardHoldsLock, AbsenceIsFinal, Guarded
  <2>10. null' => ~db'.exists
    BY <1>7, <1>b, <2>1 DEF Fill, AbsenceIsFinal, StaleOnlyByLateFill
  <2>11. cached' > 0 /\ cached' <= db'.ver => Pending' \/ excuse' # "none"
    <3>1. CASE cached' = call[p].val + 1
               /\ excuse' = IF call[p].val < db.ver THEN "late" ELSE "none"
      <4>1. db' = db
        BY <2>1
      <4>2. CASE call[p].val < db.ver
        BY <3>1, <4>2
      <4>3. CASE ~(call[p].val < db.ver)
        BY <2>6, <3>1, <4>1, <4>3
      <4> QED
        BY <4>2, <4>3
    <3>2. CASE UNCHANGED <<cached, excuse>>
      BY <1>b, <2>1, <3>2 DEF StaleOnlyByLateFill, Pending
    <3> QED
      BY <1>7, <3>1, <3>2 DEF Fill
  <2>12. StaleOnlyByLateFill'
    BY <2>10, <2>11 DEF StaleOnlyByLateFill
  <2> QED
    BY <2>8, <2>9, <2>12 DEF CacheInv
\* A release frees no lock but the caller's own, and the caller works no more.
<1>8. ASSUME NEW p \in Callers, ReleaseNow(p) \/ ReleaseLater(p) PROVE CacheInv'
  <2>1. call[p] \in AnyCall /\ UNCHANGED <<db, cached, null, write, lapsed, excuse>>
    BY <1>8, <1>a DEF ReleaseNow, ReleaseLater
  <2>2. lock' \in {lock, release_lock(p)}
    BY <1>8 DEF ReleaseNow, ReleaseLater
  <2>3. PICK pc \in {"drop", "done"} : CallTo(p, pc)
    BY <1>8 DEF ReleaseNow, ReleaseLater
  <2> DEFINE r == [call[p] EXCEPT !.pc = pc]
  <2>4. r \in AnyCall /\ r.pc = pc
    BY <2>1 DEF AnyCall, CallPcs
  <2>5. call' = [call EXCEPT ![p] = r]
    BY <1>a, <2>3 DEF CallTo
  <2> HIDE DEF r
  <2>6. \A q \in Callers : call'[q] = IF q = p THEN r ELSE call[q]
    BY <1>a, <2>5
  <2>7. CacheTyped'
    BY <1>a, <2>1, <2>4, <2>5 DEF CacheTyped
  <2>8. \A q \in Callers : q # p /\ lock = q => lock' = q
    BY <2>2 DEF release_lock
  <2>9. GuardHoldsLock' /\ AbsenceIsFinal'
    BY <1>b, <2>1, <2>4, <2>6, <2>8 DEF GuardHoldsLock, AbsenceIsFinal, Guarded
  <2>10. StaleOnlyByLateFill'
    BY <1>b, <2>1 DEF StaleOnlyByLateFill, Pending
  <2> QED
    BY <2>7, <2>9, <2>10 DEF CacheInv
<1>9. ASSUME NEW w \in Writers, Write(w) PROVE CacheInv'
  <2>1. /\ db.exists /\ \E e \in BOOLEAN : db' = [ver |-> db.ver + 1, exists |-> e]
        /\ write' = [write EXCEPT ![w] = "written"]
        /\ UNCHANGED <<cached, null, lock, call, lapsed, excuse>>
    BY <1>9 DEF Write
  <2>2. db' \in [ver : Nat, exists : BOOLEAN]
    <3>1. PICK e \in BOOLEAN : db' = [ver |-> db.ver + 1, exists |-> e]
      BY <2>1
    <3> QED
      BY <1>a, <3>1
  <2>3. CacheTyped'
    BY <1>a, <2>1, <2>2 DEF CacheTyped
  <2>4. GuardHoldsLock' /\ AbsenceIsFinal'
    BY <1>b, <2>1 DEF GuardHoldsLock, AbsenceIsFinal, Guarded
  <2>5. ~null'
    BY <1>a, <1>b, <2>1 DEF StaleOnlyByLateFill
  <2>6. Pending'
    BY <1>a, <2>1 DEF Pending
  <2>7. StaleOnlyByLateFill'
    BY <2>5, <2>6 DEF StaleOnlyByLateFill
  <2> QED
    BY <2>3, <2>4, <2>7 DEF CacheInv
<1>10. ASSUME NEW w \in Writers, Invalidate(w) PROVE CacheInv'
  <2>1. write' = [write EXCEPT ![w] = "done"] /\ UNCHANGED <<db, lock, call, lapsed>>
    BY <1>10 DEF Invalidate
  <2>2. GuardHoldsLock' /\ AbsenceIsFinal'
    BY <1>b, <2>1 DEF GuardHoldsLock, AbsenceIsFinal, Guarded
  <2>3. \/ cached' = 0 /\ ~null'
        \/ excuse' = "lost" /\ UNCHANGED <<cached, null>>
    BY <1>10, Zenon DEF Invalidate
  <2>4. null' = FALSE \/ null' = null
    BY <1>10, Zenon DEF Invalidate
  <2>5. null' \in BOOLEAN /\ cached' \in Nat
    <3>1. null' \in BOOLEAN
      BY <1>a, <2>4
    <3>2. cached' = 0 \/ cached' = cached
      BY <2>3
    <3> QED
      BY <1>a, <3>1, <3>2
  <2>6. CacheTyped'
    BY <1>a, <2>1, <2>5 DEF CacheTyped
  <2>7. StaleOnlyByLateFill'
    BY <1>b, <2>1, <2>3 DEF StaleOnlyByLateFill
  <2> QED
    BY <2>2, <2>6, <2>7 DEF CacheInv
<1>11. ASSUME ExpireKey PROVE CacheInv'
  <2>1. UNCHANGED <<db, call, write>>
    BY <1>11 DEF ExpireKey
  <2>2. null' = FALSE \/ null' = null
    BY <1>11, Zenon DEF ExpireKey
  <2>3. cached' = 0 \/ UNCHANGED <<cached, excuse>>
    BY <1>11, Zenon DEF ExpireKey
  <2>4. \/ UNCHANGED <<lock, lapsed>>
        \/ lock # "" /\ lock' = "" /\ lapsed' = lapsed \cup {lock}
    BY <1>11, Zenon DEF ExpireKey
  <2>5. null' \in BOOLEAN /\ cached' \in Nat
    <3>1. null' \in BOOLEAN
      BY <1>a, <2>2
    <3>2. cached' = 0 \/ cached' = cached
      BY <2>3
    <3> QED
      BY <1>a, <3>1, <3>2
  <2>6. CacheTyped'
    BY <1>a, <2>1, <2>5 DEF CacheTyped
  <2>7. AbsenceIsFinal' /\ GuardHoldsLock'
    BY <1>b, <2>1, <2>4 DEF AbsenceIsFinal, GuardHoldsLock, Guarded
  <2>8. null' => null
    BY <2>2
  <2>9. StaleOnlyByLateFill'
    BY <1>b, <2>1, <2>3, <2>8 DEF StaleOnlyByLateFill, Pending
  <2> QED
    BY <2>6, <2>7, <2>9 DEF CacheInv
<1>12. ASSUME UNCHANGED cacheVars PROVE CacheInv'
  BY <1>12, <1>a, <1>b DEF cacheVars, CacheInv, CacheTyped, GuardHoldsLock, AbsenceIsFinal,
                         StaleOnlyByLateFill, Pending, Guarded
<1> QED
  BY <1>1, <1>2, <1>3, <1>4, <1>5, <1>6, <1>7, <1>8, <1>9, <1>10, <1>11, <1>12
     DEF CacheNext, CallStep

\* The lock keeps recomputations and purchases apart unless it expires, no
\* release frees another caller's lock, and the cache is stale only through a
\* failed invalidation or a fill that had read the row before the write.
THEOREM CacheAndLockHold == CacheSpec => []CacheHolds
<1>1. CacheSpec => []CacheInv
  BY CacheInitInv, CacheNextInv, PTL DEF CacheSpec
<1>2. CacheInv => CacheHolds
  BY DEF CacheInv, GuardHoldsLock, CacheHolds, RecomputeAlone
<1> QED
  BY <1>1, <1>2, PTL

-----------------------------------------------------------------------------
(* The database router.                                                    *)

QueryPcs == {"idle", "pick", "ask", "retry", "fall", "ok", "refused", "lost"}
AnyQuery == [kind : Kinds, pc : QueryPcs, at : Int, tried : SUBSET Replicas,
             round : Nat, last_err : BOOLEAN, asked : SUBSET Int,
             shut : SUBSET Replicas]

\* What statement q has reached: only reads look for a replica; each round of
\* the first phase tries one more; when the first phase is over every replica
\* was asked or shut out, and stays so.
QueryOK(q) ==
    /\ ~Reading(q) => /\ query[q].pc \in {"idle", "fall", "ok", "refused", "lost"}
                      /\ query[q].asked \subseteq {Writer}
    /\ query[q].pc = "idle" => query[q].tried = {} /\ query[q].round = 0
    /\ query[q].pc = "pick" => query[q].tried \subseteq query[q].asked
    /\ query[q].pc = "ask" => query[q].tried \subseteq query[q].asked \cup {query[q].at}
    /\ query[q].pc \in {"pick", "ask"} => Cardinality(query[q].tried) = query[q].round
    /\ query[q].pc \in {"retry", "fall", "lost"} /\ Reading(q)
           => Replicas \subseteq query[q].asked \cup query[q].shut
    /\ query[q].pc = "lost" /\ fallback => Writer \in query[q].asked

RouterInv ==
    /\ query \in [Queries -> AnyQuery]
    /\ \A q \in Queries : QueryOK(q)

LEMMA ReplicasFinite == IsFiniteSet(Replicas) /\ Cardinality(Replicas) = N
<1>1. 0 \in Int /\ N - 1 \in Int
  BY RouterAssumption
<1>2. IsFiniteSet(0 .. N - 1)
      /\ Cardinality(0 .. N - 1) = IF 0 > N - 1 THEN 0 ELSE N - 1 - 0 + 1
  BY <1>1, FS_Interval
<1> QED
  BY <1>2, RouterAssumption DEF Replicas

LEMMA RouterInitInv == RouterInit => RouterInv
<1> SUFFICES ASSUME RouterInit PROVE RouterInv
  OBVIOUS
<1>1. PICK kinds \in Statements :
         query = [q \in Queries |->
                    [kind |-> kinds[q], pc |-> "idle", at |-> Writer, tried |-> {},
                     round |-> 0, last_err |-> FALSE, asked |-> {}, shut |-> {}]]
  BY DEF RouterInit
<1>2. \A q \in Queries : kinds[q] \in Kinds
  BY <1>1, RouterAssumption
<1>3. Writer \in Int
  BY RouterAssumption DEF Writer
<1>4. query \in [Queries -> AnyQuery]
  BY <1>1, <1>2, <1>3 DEF AnyQuery, QueryPcs
<1>5. \A q \in Queries : /\ query[q].pc = "idle" /\ query[q].tried = {}
                         /\ query[q].round = 0 /\ query[q].asked = {}
  BY <1>1
<1> QED
  BY <1>4, <1>5 DEF RouterInv, QueryOK

LEMMA RouterNextInv == RouterInv /\ [RouterNext]_routerVars => RouterInv'
<1> SUFFICES ASSUME RouterInv, [RouterNext]_routerVars PROVE RouterInv'
  OBVIOUS
<1>a. query \in [Queries -> AnyQuery] /\ N \in Nat
  BY RouterAssumption DEF RouterInv
<1>b. \A q \in Queries : QueryOK(q)
  BY DEF RouterInv
\* One statement moves to a record that is right for it.
<1>c. ASSUME NEW q \in Queries, NEW r \in AnyQuery, fallback' = fallback,
             query' = [query EXCEPT ![q] = r], r.kind = query[q].kind,
             ~Reading(q) => /\ r.pc \in {"idle", "fall", "ok", "refused", "lost"}
                            /\ r.asked \subseteq {Writer},
             r.pc # "idle",
             r.pc = "pick" => r.tried \subseteq r.asked,
             r.pc = "ask" => r.tried \subseteq r.asked \cup {r.at},
             r.pc \in {"pick", "ask"} => Cardinality(r.tried) = r.round,
             r.pc \in {"retry", "fall", "lost"} /\ Reading(q)
                 => Replicas \subseteq r.asked \cup r.shut,
             r.pc = "lost" /\ fallback => Writer \in r.asked
      PROVE  RouterInv'
  <2>1. query' \in [Queries -> AnyQuery]
    BY <1>a, <1>c
  <2>2. \A p \in Queries : query'[p] = IF p = q THEN r ELSE query[p]
    BY <1>a, <1>c
  <2>3. \A p \in Queries : Reading(p)' <=> Reading(p)
    BY <1>c, <2>2 DEF Reading
  <2>4. ASSUME NEW p \in Queries PROVE QueryOK(p)'
    <3>1. CASE p = q
      BY <1>c, <2>2, <2>3, <3>1 DEF QueryOK
    <3>2. CASE p # q
      <4>1. query'[p] = query[p] /\ (Reading(p)' <=> Reading(p)) /\ QueryOK(p)
        BY <1>b, <2>2, <2>3, <3>2
      <4> QED
        BY <1>c, <4>1 DEF QueryOK
    <3> QED
      BY <3>1, <3>2
  <2> QED
    BY <2>1, <2>4 DEF RouterInv
<1>1. ASSUME NEW q \in Queries, Route(q) PROVE RouterInv'
  <2> DEFINE pc == IF is_write_statement(query[q].kind)
                        \/ is_locking_select(query[q].kind) \/ N = 0
                   THEN "fall" ELSE "pick"
             r == [query[q] EXCEPT !.pc = pc]
  <2>1. (pc = "fall" /\ ~Reading(q)) \/ (pc = "pick" /\ Reading(q))
    BY <1>a DEF Reading
  <2>2. query[q].pc = "idle" /\ fallback' = fallback /\ query' = [query EXCEPT ![q].pc = pc]
    BY <1>1 DEF Route, ElsewhereQuery
  <2> HIDE DEF pc
  <2>3. pc \in QueryPcs
    BY <2>1 DEF QueryPcs
  <2>4. /\ r \in AnyQuery /\ r.pc = pc /\ r.kind = query[q].kind
        /\ r.tried = query[q].tried /\ r.asked = query[q].asked /\ r.round = query[q].round
    BY <1>a, <2>3 DEF AnyQuery
  <2>5. query' = [query EXCEPT ![q] = r]
    BY <1>a, <2>2
  <2> HIDE DEF r
  <2>6. r.tried = {} /\ Cardinality(r.tried) = r.round
    BY <1>b, <2>2, <2>4, FS_EmptySet DEF QueryOK
  <2>7. ~Reading(q) => r.asked \subseteq {Writer}
    BY <1>b, <2>4 DEF QueryOK
  <2> QED
    BY <1>c, <2>1, <2>2, <2>4, <2>5, <2>6, <2>7
<1>2. ASSUME NEW q \in Queries, PickNextRead(q) PROVE RouterInv'
  <2>1. /\ query[q].pc = "pick" /\ Reading(q) /\ fallback' = fallback /\ query[q] \in AnyQuery
        /\ query[q].tried \subseteq query[q].asked
        /\ Cardinality(query[q].tried) = query[q].round
    BY <1>2, <1>a, <1>b DEF PickNextRead, ElsewhereQuery, QueryOK
  <2>2. query[q].tried \subseteq Replicas /\ IsFiniteSet(query[q].tried)
    BY <2>1, ReplicasFinite, FS_Subset DEF AnyQuery
  <2>3. ASSUME NEW i \in Healthy(q),
               query' = [query EXCEPT ![q] =
                           [query[q] EXCEPT !.pc = "ask", !.at = i, !.round = @ + 1,
                                            !.tried = @ \cup {i}]]
        PROVE  RouterInv'
    <3>1. i \in Replicas /\ i \notin query[q].tried /\ i \in Int
      BY <1>a DEF Healthy, Replicas
    <3>2. PICK n \in Nat : n = query[q].round + 1
      BY <2>1 DEF AnyQuery
    <3>3. PICK T \in SUBSET Replicas : T = query[q].tried \cup {i}
      BY <2>2, <3>1
    <3> DEFINE r == [query[q] EXCEPT !.pc = "ask", !.at = i, !.round = n, !.tried = T]
    <3>4. query' = [query EXCEPT ![q] = r]
      BY <2>3, <3>2, <3>3
    <3>5. /\ r \in AnyQuery /\ r.pc = "ask" /\ r.kind = query[q].kind /\ r.at = i
          /\ r.tried = T /\ r.round = n /\ r.asked = query[q].asked
      BY <2>1, <3>1 DEF AnyQuery, QueryPcs
    <3> HIDE DEF r
    <3>6. Cardinality(T) = n
      <4>1. Cardinality(query[q].tried \cup {i}) = Cardinality(query[q].tried) + 1
        BY <2>2, <3>1, FS_AddElement
      <4> QED
        BY <2>1, <3>2, <3>3, <4>1
    <3> QED
      BY <1>c, <2>1, <3>3, <3>4, <3>5, <3>6
  <2>4. ASSUME Healthy(q) = {} \/ query[q].round = N,
               query' = [query EXCEPT ![q] =
                         [@ EXCEPT !.pc = IF query[q].last_err /\ RetryAttempts > 0
                                            THEN "retry" ELSE "fall",
                                   !.round = 0,
                                   !.shut = {i \in Replicas : mark[i] = "down"}]]
        PROVE  RouterInv'
    <3> DEFINE pc == IF query[q].last_err /\ RetryAttempts > 0 THEN "retry" ELSE "fall"
               r == [query[q] EXCEPT !.pc = pc, !.round = 0,
                                     !.shut = {i \in Replicas : mark[i] = "down"}]
    <3>1. pc \in {"retry", "fall"}
      OBVIOUS
    <3>2. query' = [query EXCEPT ![q] = r]
      BY <2>4
    <3> HIDE DEF pc
    <3>3. /\ r \in AnyQuery /\ r.pc = pc /\ r.kind = query[q].kind
          /\ r.asked = query[q].asked
          /\ r.shut = {i \in Replicas : mark[i] = "down"}
      BY <2>1, <3>1 DEF AnyQuery, QueryPcs
    <3> HIDE DEF r
    <3>4. Replicas \subseteq r.asked \cup r.shut
      <4>1. CASE Healthy(q) = {}
        BY <2>1, <3>3, <4>1 DEF Healthy
      <4>2. CASE query[q].round = N
        <5>1. query[q].tried = Replicas
          BY <2>1, <2>2, <4>2, ReplicasFinite, FS_Subset
        <5> QED
          BY <2>1, <3>3, <5>1
      <4> QED
        BY <2>4, <4>1, <4>2
    <3> QED
      BY <1>c, <2>1, <3>1, <3>2, <3>3, <3>4
  <2> QED
    BY <1>2, <2>3, <2>4 DEF PickNextRead
<1>3. ASSUME NEW q \in Queries, Ask(q) PROVE RouterInv'
  <2>1. /\ query[q].pc = "ask" /\ Reading(q) /\ fallback' = fallback /\ query[q] \in AnyQuery
        /\ query[q].tried \subseteq query[q].asked \cup {query[q].at}
        /\ Cardinality(query[q].tried) = query[q].round
    BY <1>3, <1>a, <1>b DEF Ask, ElsewhereQuery, QueryOK
  <2>2. PICK o \in Outcomes(query[q].at) :
          query' = [query EXCEPT ![q] =
                      [query[q] EXCEPT !.asked = @ \cup {query[q].at},
                                !.last_err = @ \/ o \in {"connection", "conflict"},
                                !.pc = PcAfter(o, "pick")]]
    BY <1>3 DEF Ask
  <2> DEFINE pc == PcAfter(o, "pick")
  <2>3. pc \in {"ok", "refused", "pick"}
    BY DEF PcAfter
  <2> HIDE DEF pc
  <2>4. PICK e \in BOOLEAN : e = (query[q].last_err \/ o \in {"connection", "conflict"})
    OBVIOUS
  <2> DEFINE r == [query[q] EXCEPT !.asked = @ \cup {query[q].at}, !.last_err = e, !.pc = pc]
  <2>5. query' = [query EXCEPT ![q] = r]
    BY <2>2, <2>4 DEF pc
  <2>6. /\ r \in AnyQuery /\ r.pc = pc /\ r.kind = query[q].kind
        /\ r.asked = query[q].asked \cup {query[q].at}
        /\ r.tried = query[q].tried /\ r.round = query[q].round
    BY <2>1, <2>3 DEF AnyQuery, QueryPcs
  <2> HIDE DEF r
  <2> QED
    BY <1>c, <2>1, <2>3, <2>5, <2>6
<1>4. ASSUME NEW q \in Queries, Retry(q) PROVE RouterInv'
  <2>1. /\ query[q].pc = "retry" /\ Reading(q) /\ fallback' = fallback /\ query[q] \in AnyQuery
        /\ Replicas \subseteq query[q].asked \cup query[q].shut
    BY <1>4, <1>a, <1>b DEF Retry, ElsewhereQuery, QueryOK
  <2>2. Cardinality(query[q].tried) \in Nat /\ query[q].round \in Nat /\ N > 0
    BY <2>1, ReplicasFinite, FS_Subset, FS_CardinalityType DEF AnyQuery, Reading
  <2>3. PICK i \in Int : i = (Cardinality(query[q].tried) + query[q].round) % N
    BY <1>a, <2>2
  <2>n. PICK n \in Nat : n = query[q].round + 1
    BY <2>2
  <2>4. PICK o \in Outcomes(i) :
          query' = [query EXCEPT ![q] =
                      [query[q] EXCEPT !.asked = @ \cup {i}, !.at = i, !.round = n,
                                !.pc = PcAfter(o, IF n < RetryAttempts
                                                  THEN "retry" ELSE "fall")]]
    BY <1>4, <2>3, <2>n DEF Retry
  <2> DEFINE pc == PcAfter(o, IF n < RetryAttempts THEN "retry" ELSE "fall")
  <2>5. pc \in {"ok", "refused", "retry", "fall"}
    BY DEF PcAfter
  <2> HIDE DEF pc
  <2> DEFINE r == [query[q] EXCEPT !.asked = @ \cup {i}, !.at = i, !.round = n, !.pc = pc]
  <2>6. query' = [query EXCEPT ![q] = r]
    BY <2>4 DEF pc
  <2>7. /\ r \in AnyQuery /\ r.pc = pc /\ r.kind = query[q].kind
        /\ r.asked = query[q].asked \cup {i} /\ r.shut = query[q].shut
    BY <2>1, <2>5 DEF AnyQuery, QueryPcs
  <2> HIDE DEF r
  <2> QED
    BY <1>c, <2>1, <2>5, <2>6, <2>7
<1>5. ASSUME NEW q \in Queries, AskWriter(q) PROVE RouterInv'
  <2>1. /\ query[q].pc = "fall" /\ fallback' = fallback /\ query[q] \in AnyQuery
        /\ Reading(q) => Replicas \subseteq query[q].asked \cup query[q].shut
        /\ ~Reading(q) => query[q].asked \subseteq {Writer}
    BY <1>5, <1>a, <1>b DEF AskWriter, ElsewhereQuery, QueryOK
  <2>2. CASE Reading(q) /\ ~fallback /\ query' = [query EXCEPT ![q].pc = "lost"]
    <3> DEFINE r == [query[q] EXCEPT !.pc = "lost"]
    <3>1. query' = [query EXCEPT ![q] = r]
      BY <1>a, <2>2
    <3>2. /\ r \in AnyQuery /\ r.pc = "lost" /\ r.kind = query[q].kind
          /\ r.asked = query[q].asked /\ r.shut = query[q].shut
      BY <2>1 DEF AnyQuery, QueryPcs
    <3> HIDE DEF r
    <3> QED
      BY <1>c, <2>1, <2>2, <3>1, <3>2
  <2>3. ASSUME NEW o \in Outcomes(Writer),
               query' = [query EXCEPT ![q] =
                           [query[q] EXCEPT !.asked = @ \cup {Writer}, !.at = Writer,
                                            !.pc = PcAfter(o, "lost")]]
        PROVE  RouterInv'
    <3> DEFINE pc == PcAfter(o, "lost")
    <3>1. pc \in {"ok", "refused", "lost"}
      BY DEF PcAfter
    <3> HIDE DEF pc
    <3> DEFINE r == [query[q] EXCEPT !.asked = @ \cup {Writer}, !.at = Writer, !.pc = pc]
    <3>2. query' = [query EXCEPT ![q] = r]
      BY <2>3 DEF pc
    <3>3. Writer \in Int
      BY <1>a DEF Writer
    <3>4. /\ r \in AnyQuery /\ r.pc = pc /\ r.kind = query[q].kind
          /\ r.asked = query[q].asked \cup {Writer} /\ r.shut = query[q].shut
      BY <2>1, <3>1, <3>3 DEF AnyQuery, QueryPcs
    <3> HIDE DEF r
    <3> QED
      BY <1>c, <2>1, <3>1, <3>2, <3>4
  <2> QED
    BY <1>5, <2>2, <2>3 DEF AskWriter
<1>6. ASSUME ProbeCollect \/ ProbePing \/ Lapse \/ UNCHANGED routerVars PROVE RouterInv'
  <2>1. UNCHANGED <<query, fallback>>
    BY <1>6 DEF ProbeCollect, ProbePing, Lapse, routerVars
  <2>2. \A q \in Queries : Reading(q)' <=> Reading(q)
    BY <2>1 DEF Reading
  <2> QED
    BY <1>a, <1>b, <2>1, <2>2 DEF RouterInv, QueryOK
<1> QED
  BY <1>1, <1>2, <1>3, <1>4, <1>5, <1>6 DEF RouterNext

LEMMA RouterInvImplies == RouterInv => ReadsSurviveReplicaLoss
<1> SUFFICES ASSUME RouterInv, NEW q \in Queries
             PROVE  /\ query[q].kind \in {"locking", "write", "with_write"} =>
                           query[q].asked \subseteq {Writer}
                    /\ query[q].pc = "lost" =>
                           /\ fallback => Writer \in query[q].asked
                           /\ Reading(q) => Replicas \subseteq query[q].asked \cup query[q].shut
  BY DEF ReadsSurviveReplicaLoss
<1>1. QueryOK(q)
  BY DEF RouterInv
<1>2. query[q].kind \in {"locking", "write", "with_write"} => ~Reading(q)
  BY DEF Reading, is_write_statement, is_locking_select
<1> QED
  BY <1>1, <1>2 DEF QueryOK

\* A read is lost only after every replica was asked or was shut out, and with
\* the fallback after the writer too; writes and locking reads never reach a
\* replica (AutoRouter::execute_read_retry), for any number of replicas.
THEOREM RouterLosesNoReads == RouterSpec => []ReadsSurviveReplicaLoss
<1>1. RouterSpec => []RouterInv
  BY RouterInitInv, RouterNextInv, PTL DEF RouterSpec
<1> QED
  BY <1>1, RouterInvImplies, PTL

-----------------------------------------------------------------------------
(* The circuit breaker.                                                    *)

\* The requests that met a failure of channel c and did not count it yet.
Counting(c) == {r \in GwRequests : rq[r].pc = "count" /\ rq[r].ch = c}

\* The places of a request that has no channel yet.
Unselected == {"idle", "probe", "refused"}

BreakerTyped ==
    /\ rq \in [GwRequests -> Request]
    /\ failures \in [Channels -> Nat] /\ blame \in [Channels -> Nat]
    /\ tripped \subseteq Channels
    /\ \A r \in GwRequests : rq[r].pc \notin Unselected => rq[r].ch \in Channels

\* The counter in the cache may forget failures but never invents one.
FailuresWereMet ==
    \A c \in Channels : failures[c] + Cardinality(Counting(c)) <= blame[c]

\* A request about to set the flag has seen enough of them.
TripsAreDue ==
    \A r \in GwRequests : rq[r].pc = "trip" => blame[rq[r].ch] >= Threshold

BreakerInv == BreakerTyped /\ FailuresWereMet /\ TripsAreDue /\ OnlyHealthFailuresTrip

LEMMA CountingFinite ==
    ASSUME NEW c
    PROVE  IsFiniteSet(Counting(c)) /\ Cardinality(Counting(c)) \in Nat
<1>1. Counting(c) \subseteq GwRequests
  BY DEF Counting
<1> QED
  BY <1>1, GatewayAssumption, FS_Subset, FS_CardinalityType

LEMMA BreakerInit == GatewayInit => BreakerInv
<1> SUFFICES ASSUME GatewayInit PROVE BreakerInv
  OBVIOUS
<1>1. Idle \in Request /\ Idle.pc = "idle"
  BY DEF Idle, Request
<1>2. BreakerTyped
  BY <1>1 DEF GatewayInit, BreakerTyped, Unselected
<1>3. \A r \in GwRequests : rq[r].pc = "idle"
  BY <1>1 DEF GatewayInit
<1>4. \A c : Counting(c) = {}
  BY <1>3 DEF Counting
<1>5. FailuresWereMet
  <2>1. \A c : Cardinality(Counting(c)) = 0
    BY <1>4, FS_EmptySet
  <2> QED
    BY <2>1 DEF GatewayInit, FailuresWereMet
<1> QED
  BY <1>2, <1>3, <1>5 DEF BreakerInv, TripsAreDue, OnlyHealthFailuresTrip, GatewayInit

\* A step of a request that neither meets, counts nor reports a failure: the
\* counters and flags of the cache may only go down.
LEMMA QuietStep ==
    ASSUME BreakerInv, NEW r \in GwRequests, NEW n \in Request,
           rq' = [rq EXCEPT ![r] = n],
           rq[r].pc # "count", n.pc \notin {"count", "trip"},
           n.pc \notin Unselected => n.ch \in Channels,
           failures' \in [Channels -> Nat],
           \A c \in Channels : failures'[c] <= failures[c],
           tripped' \subseteq tripped, blame' = blame
    PROVE  BreakerInv'
<1>1. BreakerTyped'
  BY DEF BreakerInv, BreakerTyped
<1>2. \A q \in GwRequests : rq'[q] = IF q = r THEN n ELSE rq[q]
  BY DEF BreakerInv, BreakerTyped
<1>3. \A c \in Channels : Counting(c)' = Counting(c)
  BY <1>2 DEF Counting
<1>4. FailuresWereMet'
  <2> SUFFICES ASSUME NEW c \in Channels
               PROVE  failures'[c] + Cardinality(Counting(c)') <= blame'[c]
    BY DEF FailuresWereMet
  <2>1. /\ failures[c] + Cardinality(Counting(c)) <= blame[c]
        /\ failures[c] \in Nat /\ blame[c] \in Nat /\ failures'[c] \in Nat
        /\ failures'[c] <= failures[c]
    BY DEF BreakerInv, BreakerTyped, FailuresWereMet
  <2>2. Cardinality(Counting(c)) \in Nat
    BY CountingFinite
  <2> QED
    BY <2>1, <2>2, <1>3
<1>5. TripsAreDue'
  BY <1>2 DEF BreakerInv, TripsAreDue
<1>6. OnlyHealthFailuresTrip'
  BY DEF BreakerInv, OnlyHealthFailuresTrip
<1> QED
  BY <1>1, <1>4, <1>5, <1>6 DEF BreakerInv

\* The same for a step that leaves the cache alone and moves the request on.
LEMMA QuietMove ==
    ASSUME BreakerInv, NEW r \in GwRequests,
           NEW pc \in {"breaker", "rpm", "tpm", "tenant", "sent", "clear", "untrip",
                       "refused", "ended"},
           GwTo(r, pc), rq[r].pc \notin Unselected \cup {"count"},
           failures' \in [Channels -> Nat],
           \A c \in Channels : failures'[c] <= failures[c],
           tripped' \subseteq tripped, blame' = blame
    PROVE  BreakerInv'
<1> DEFINE n == [rq[r] EXCEPT !.pc = pc]
<1>1. rq[r] \in Request /\ rq[r].ch \in Channels
  BY DEF BreakerInv, BreakerTyped
<1>2. n \in Request /\ n.pc = pc /\ n.ch = rq[r].ch
  BY <1>1 DEF Request
<1>3. rq' = [rq EXCEPT ![r] = n]
  BY DEF GwTo, BreakerInv, BreakerTyped
<1> HIDE DEF n
<1> QED
  BY <1>1, <1>2, <1>3, QuietStep

\* A request meets an outcome: a failure of the provider is blamed on the
\* channel at the moment the request begins to count it.
LEMMA OutcomeStep ==
    ASSUME BreakerInv, NEW r \in GwRequests,
           NEW o \in {"ok", "upstream", "client", "neutral", "cancelled"},
           NEW n \in Request, rq[r].pc = "sent",
           n.pc = CircuitOutcome(o), n.ch = rq[r].ch,
           rq' = [rq EXCEPT ![r] = n], Blame(r, o), UNCHANGED <<failures, tripped>>
    PROVE  BreakerInv'
<1>1. rq[r].ch \in Channels /\ failures \in [Channels -> Nat] /\ blame \in [Channels -> Nat]
  BY DEF BreakerInv, BreakerTyped, Unselected
<1>2. CASE o # "upstream"
  <2>1. n.pc \in {"clear", "ended"} /\ blame' = blame
    BY <1>2 DEF CircuitOutcome, is_channel_health_failure, Blame
  <2>2. n.ch \in Channels /\ n.pc \notin {"count", "trip"} /\ rq[r].pc # "count"
    BY <1>1, <2>1
  <2>3. failures' \in [Channels -> Nat] /\ (\A c \in Channels : failures'[c] <= failures[c])
    BY <1>1
  <2> QED
    BY <2>1, <2>2, <2>3, QuietStep
<1>3. CASE o = "upstream"
  <2>1. n.pc = "count"
    BY <1>3 DEF CircuitOutcome, is_channel_health_failure
  <2>2. PICK d \in Channels : d = rq[r].ch
    BY <1>1
  <2>3. blame' = [blame EXCEPT ![d] = @ + 1]
    BY <1>3, <2>2 DEF Blame
  <2>4. \A q \in GwRequests : rq'[q] = IF q = r THEN n ELSE rq[q]
    BY DEF BreakerInv, BreakerTyped
  <2>5. \A c \in Channels : blame'[c] = IF c = d THEN blame[c] + 1 ELSE blame[c]
    BY <1>1, <2>3
  <2>6. BreakerTyped'
    BY <1>1, <2>2, <2>3, <2>4 DEF BreakerInv, BreakerTyped
  <2>7. FailuresWereMet'
    <3> SUFFICES ASSUME NEW c \in Channels
                 PROVE  failures'[c] + Cardinality(Counting(c)') <= blame'[c]
      BY DEF FailuresWereMet
    <3>1. /\ failures[c] + Cardinality(Counting(c)) <= blame[c]
          /\ failures[c] \in Nat /\ blame[c] \in Nat
      BY <1>1 DEF BreakerInv, FailuresWereMet
    <3>2. IsFiniteSet(Counting(c)) /\ Cardinality(Counting(c)) \in Nat
      BY CountingFinite
    <3>3. CASE c = d
      <4>1. Counting(c)' = Counting(c) \cup {r} /\ r \notin Counting(c)
        BY <2>1, <2>2, <2>4, <3>3 DEF Counting
      <4>2. Cardinality(Counting(c)') = Cardinality(Counting(c)) + 1
        BY <3>2, <4>1, FS_AddElement
      <4> QED
        BY <2>5, <3>1, <3>2, <3>3, <4>2
    <3>4. CASE c # d
      <4>1. Counting(c)' = Counting(c)
        BY <2>2, <2>4, <3>4 DEF Counting
      <4> QED
        BY <2>5, <3>1, <3>2, <3>4, <4>1
    <3> QED
      BY <3>3, <3>4
  <2>8. \A c \in Channels : blame[c] >= Threshold => blame'[c] >= Threshold
    BY <1>1, <2>5, GatewayAssumption
  <2>9. TripsAreDue'
    BY <2>1, <2>4, <2>8 DEF BreakerInv, BreakerTyped, Unselected, TripsAreDue
  <2>10. OnlyHealthFailuresTrip'
    BY <2>8 DEF BreakerInv, BreakerTyped, OnlyHealthFailuresTrip
  <2> QED
    BY <2>6, <2>7, <2>9, <2>10 DEF BreakerInv
<1> QED
  BY <1>2, <1>3

\* record_failure: a failure that was met moves into the counter, or is lost.
LEMMA CountStep ==
    ASSUME BreakerInv, NEW r \in GwRequests, CountFailure(r)
    PROVE  BreakerInv'
<1>1. PICK d \in Channels : d = rq[r].ch
  BY DEF BreakerInv, BreakerTyped, Unselected, CountFailure
<1>2. /\ rq[r].pc = "count" /\ rq[r] \in Request /\ UNCHANGED <<tripped, blame>>
      /\ failures \in [Channels -> Nat] /\ blame \in [Channels -> Nat]
  BY DEF BreakerInv, BreakerTyped, CountFailure
<1>3. PICK k \in {0, 1}, pc \in {"trip", "ended"} :
        /\ failures' = [failures EXCEPT ![d] = @ + k]
        /\ rq' = [rq EXCEPT ![r].pc = pc]
        /\ pc = "trip" => failures[d] + 1 >= Threshold
  <2>1. CASE /\ failures' = [failures EXCEPT ![d] = @ + 1]
             /\ GwTo(r, IF failures[d] + 1 >= Threshold THEN "trip" ELSE "ended")
    BY <2>1 DEF GwTo
  <2>2. CASE GwTo(r, IF 1 >= Threshold THEN "trip" ELSE "ended") /\ UNCHANGED failures
    <3>1. failures' = [failures EXCEPT ![d] = @ + 0]
      BY <1>2, <2>2
    <3>2. 1 >= Threshold => failures[d] + 1 >= Threshold
      BY <1>2, GatewayAssumption
    <3> QED
      BY <2>2, <3>1, <3>2 DEF GwTo
  <2> QED
    BY <1>1, <2>1, <2>2 DEF CountFailure
<1> DEFINE n == [rq[r] EXCEPT !.pc = pc]
<1>4. n \in Request /\ n.pc = pc /\ n.ch = d
  BY <1>1, <1>2 DEF Request
<1>5. rq' = [rq EXCEPT ![r] = n]
  BY <1>3 DEF BreakerInv, BreakerTyped
<1> HIDE DEF n
<1>6. \A q \in GwRequests : rq'[q] = IF q = r THEN n ELSE rq[q]
  BY <1>5 DEF BreakerInv, BreakerTyped
<1>7. \A c \in Channels : failures'[c] = IF c = d THEN failures[c] + k ELSE failures[c]
  BY <1>2, <1>3
<1>8. BreakerTyped'
  <2>1. failures' \in [Channels -> Nat]
    BY <1>2, <1>3
  <2> QED
    BY <2>1, <1>1, <1>2, <1>4, <1>5, <1>6 DEF BreakerInv, BreakerTyped
<1>9. /\ failures[d] + Cardinality(Counting(d)) <= blame[d]
      /\ Cardinality(Counting(d)) >= 1 /\ Cardinality(Counting(d)) \in Nat
      /\ Cardinality(Counting(d) \ {r}) = Cardinality(Counting(d)) - 1
  <2>1. r \in Counting(d)
    BY <1>1, <1>2 DEF Counting
  <2>2. IsFiniteSet(Counting(d)) /\ Cardinality(Counting(d)) \in Nat
    BY CountingFinite
  <2>3. Cardinality(Counting(d) \ {r}) = Cardinality(Counting(d)) - 1
    BY <2>1, <2>2, FS_RemoveElement
  <2>4. Cardinality(Counting(d)) # 0
    BY <2>1, <2>2, FS_EmptySet
  <2> QED
    BY <2>2, <2>3, <2>4 DEF BreakerInv, FailuresWereMet
<1>10. FailuresWereMet'
  <2> SUFFICES ASSUME NEW c \in Channels
               PROVE  failures'[c] + Cardinality(Counting(c)') <= blame'[c]
    BY DEF FailuresWereMet
  <2>1. CASE c = d
    <3>1. Counting(c)' = Counting(d) \ {r}
      BY <1>3, <1>4, <1>6, <2>1 DEF Counting
    <3> QED
      BY <1>2, <1>3, <1>7, <1>9, <2>1, <3>1
  <2>2. CASE c # d
    <3>1. Counting(c)' = Counting(c)
      BY <1>1, <1>3, <1>4, <1>6, <2>2 DEF Counting
    <3> QED
      BY <1>2, <1>7, <2>2, <3>1 DEF BreakerInv, FailuresWereMet
  <2> QED
    BY <2>1, <2>2
<1>11. TripsAreDue'
  <2>1. pc = "trip" => blame[d] >= Threshold
    BY <1>2, <1>3, <1>9, GatewayAssumption
  <2> QED
    BY <1>2, <1>4, <1>6, <2>1 DEF BreakerInv, TripsAreDue
<1>12. OnlyHealthFailuresTrip'
  BY <1>2 DEF BreakerInv, OnlyHealthFailuresTrip
<1> QED
  BY <1>8, <1>10, <1>11, <1>12 DEF BreakerInv

\* The flag is set by a request that has seen enough failures.
LEMMA TripStep ==
    ASSUME BreakerInv, NEW r \in GwRequests, Trip(r)
    PROVE  BreakerInv'
<1> DEFINE n == [rq[r] EXCEPT !.pc = "ended"]
<1>1. /\ rq[r].pc = "trip" /\ rq[r] \in Request /\ rq[r].ch \in Channels
      /\ UNCHANGED <<failures, blame>>
      /\ blame[rq[r].ch] >= Threshold
  BY DEF Trip, BreakerInv, BreakerTyped, Unselected, TripsAreDue
<1>2. n \in Request /\ n.pc = "ended" /\ n.ch = rq[r].ch
  BY <1>1 DEF Request
<1>3. rq' = [rq EXCEPT ![r] = n]
  BY DEF Trip, GwTo, BreakerInv, BreakerTyped
<1> HIDE DEF n
<1>4. \A q \in GwRequests : rq'[q] = IF q = r THEN n ELSE rq[q]
  BY <1>3 DEF BreakerInv, BreakerTyped
<1>5. tripped' \subseteq tripped \cup {rq[r].ch}
  BY DEF Trip
<1>6. BreakerTyped'
  BY <1>1, <1>2, <1>3, <1>4, <1>5 DEF BreakerInv, BreakerTyped
<1>7. \A c : Counting(c)' = Counting(c)
  BY <1>1, <1>2, <1>4 DEF Counting
<1>8. FailuresWereMet'
  BY <1>1, <1>7 DEF BreakerInv, FailuresWereMet
<1>9. TripsAreDue'
  BY <1>1, <1>2, <1>4 DEF BreakerInv, TripsAreDue
<1>10. OnlyHealthFailuresTrip'
  BY <1>1, <1>5 DEF BreakerInv, OnlyHealthFailuresTrip
<1> QED
  BY <1>6, <1>8, <1>9, <1>10 DEF BreakerInv

\* Keys that expire, and steps that leave the requests and the breaker alone.
LEMMA CacheForgets ==
    ASSUME BreakerInv, UNCHANGED <<rq, blame>>,
           failures' \in [Channels -> Nat],
           \A c \in Channels : failures'[c] <= failures[c],
           tripped' \subseteq tripped
    PROVE  BreakerInv'
<1>1. BreakerTyped'
  BY DEF BreakerInv, BreakerTyped
<1>2. FailuresWereMet'
  <2> SUFFICES ASSUME NEW c \in Channels
               PROVE  failures'[c] + Cardinality(Counting(c)') <= blame'[c]
    BY DEF FailuresWereMet
  <2>1. /\ failures[c] + Cardinality(Counting(c)) <= blame[c]
        /\ failures[c] \in Nat /\ blame[c] \in Nat /\ failures'[c] \in Nat
        /\ failures'[c] <= failures[c]
    BY DEF BreakerInv, BreakerTyped, FailuresWereMet
  <2>2. Cardinality(Counting(c)) \in Nat /\ Counting(c)' = Counting(c)
    BY CountingFinite DEF Counting
  <2> QED
    BY <2>1, <2>2
<1>3. TripsAreDue' /\ OnlyHealthFailuresTrip'
  BY DEF BreakerInv, TripsAreDue, OnlyHealthFailuresTrip
<1> QED
  BY <1>1, <1>2, <1>3 DEF BreakerInv

\* Every step of a request keeps the breaker's invariant.
LEMMA RequestKeepsBreaker ==
    ASSUME BreakerInv, NEW r \in GwRequests, RequestStep(r)
    PROVE  BreakerInv'
<1>0. /\ rq \in [GwRequests -> Request] /\ rq[r] \in Request
      /\ failures \in [Channels -> Nat]
      /\ rq[r].pc \notin Unselected => rq[r].ch \in Channels
  BY DEF BreakerInv, BreakerTyped
<1>a. UNCHANGED failures => /\ failures' \in [Channels -> Nat]
                            /\ \A c \in Channels : failures'[c] <= failures[c]
  BY <1>0
<1>1. CASE SelectLoad(r)
  <2>1. PICK s \in BOOLEAN, cs \in SUBSET Channels, pc \in {"refused", "probe"} :
          rq' = [rq EXCEPT ![r] = [rq[r] EXCEPT !.pc = pc, !.todo = cs, !.stream = s]]
    <3>1. PICK s \in BOOLEAN :
            LET cs == {c \in Channels : replica[c] = "active"} IN
            rq' = [rq EXCEPT ![r] =
                     [rq[r] EXCEPT !.pc = IF cs = {} THEN "refused" ELSE "probe",
                                   !.todo = cs, !.stream = s]]
      BY <1>0, <1>1 DEF SelectLoad
    <3>2. PICK cs \in SUBSET Channels : cs = {c \in Channels : replica[c] = "active"}
      OBVIOUS
    <3> QED
      BY <3>1, <3>2
  <2> DEFINE n == [rq[r] EXCEPT !.pc = pc, !.todo = cs, !.stream = s]
  <2>2. n \in Request /\ n.pc = pc
    BY <1>0 DEF Request
  <2>3. rq' = [rq EXCEPT ![r] = n]
    BY <2>1
  <2> HIDE DEF n
  <2>4. rq[r].pc # "count" /\ tripped' \subseteq tripped /\ blame' = blame
        /\ UNCHANGED failures
    BY <1>1 DEF SelectLoad
  <2> QED
    BY <1>a, <2>1, <2>2, <2>3, <2>4, QuietStep DEF Unselected
<1>2. CASE RetainHealthy(r)
  <2>1. PICK c \in rq[r].todo, h \in SUBSET Channels :
          rq' = [rq EXCEPT ![r] = [rq[r] EXCEPT !.todo = rq[r].todo \ {c}, !.healthy = h]]
    <3>1. PICK c \in rq[r].todo, b \in BOOLEAN :
            rq' = [rq EXCEPT ![r].todo = @ \ {c},
                             ![r].healthy = IF b THEN @ ELSE @ \cup {c}]
      BY <1>2 DEF RetainHealthy
    <3>2. c \in Channels /\ rq[r].healthy \subseteq Channels
      BY <1>0 DEF Request
    <3>3. PICK h \in SUBSET Channels :
            h = IF b THEN rq[r].healthy ELSE rq[r].healthy \cup {c}
      BY <3>2
    <3> QED
      BY <1>0, <3>1, <3>3 DEF Request
  <2> DEFINE n == [rq[r] EXCEPT !.todo = rq[r].todo \ {c}, !.healthy = h]
  <2>2. n \in Request /\ n.pc = rq[r].pc
    BY <1>0, <2>1 DEF Request
  <2>3. rq' = [rq EXCEPT ![r] = n]
    BY <2>1
  <2> HIDE DEF n
  <2>4. rq[r].pc = "probe" /\ tripped' \subseteq tripped /\ blame' = blame
        /\ UNCHANGED failures
    BY <1>2 DEF RetainHealthy
  <2> QED
    BY <1>a, <2>2, <2>3, <2>4, QuietStep DEF Unselected
<1>3. CASE WeightedSelect(r)
  <2>0. rq[r].pc = "probe" /\ tripped' \subseteq tripped /\ blame' = blame
        /\ UNCHANGED failures
    BY <1>3 DEF WeightedSelect
  <2>1. CASE GwTo(r, "refused")
    <3> DEFINE n == [rq[r] EXCEPT !.pc = "refused"]
    <3>1. n \in Request /\ n.pc = "refused"
      BY <1>0 DEF Request
    <3>2. rq' = [rq EXCEPT ![r] = n]
      BY <1>0, <2>1 DEF GwTo
    <3> HIDE DEF n
    <3> QED
      BY <1>a, <2>0, <3>1, <3>2, QuietStep DEF Unselected
  <2>2. CASE \E c \in rq[r].healthy :
               rq' = [rq EXCEPT ![r] = [rq[r] EXCEPT !.pc = "breaker", !.ch = c,
                                                     !.healthy = {}]]
    <3>1. PICK c \in Channels :
            rq' = [rq EXCEPT ![r] = [rq[r] EXCEPT !.pc = "breaker", !.ch = c,
                                                  !.healthy = {}]]
      BY <1>0, <2>2 DEF Request
    <3> DEFINE n == [rq[r] EXCEPT !.pc = "breaker", !.ch = c, !.healthy = {}]
    <3>2. n \in Request /\ n.pc = "breaker" /\ n.ch \in Channels
      BY <1>0 DEF Request
    <3>3. rq' = [rq EXCEPT ![r] = n]
      BY <3>1
    <3> HIDE DEF n
    <3> QED
      BY <1>a, <2>0, <3>2, <3>3, QuietStep
  <2> QED
    BY <1>0, <1>3, <2>1, <2>2 DEF WeightedSelect
<1>4. CASE CheckBreaker(r)
  <2>1. PICK pc \in {"refused", "rpm"} : GwTo(r, pc)
    BY <1>4 DEF CheckBreaker
  <2>2. rq[r].pc = "breaker" /\ tripped' \subseteq tripped /\ blame' = blame
        /\ UNCHANGED failures
    BY <1>4 DEF CheckBreaker
  <2> QED
    BY <1>a, <2>1, <2>2, QuietMove DEF Unselected
<1>5. CASE \E w \in Windows : CheckWindow(r, w)
  <2>1. PICK w \in Windows : CheckWindow(r, w)
    BY <1>5
  <2>2. rq[r].pc \in Windows /\ tripped' \subseteq tripped /\ blame' = blame
        /\ UNCHANGED failures
    BY <2>1 DEF CheckWindow
  <2>3. PICK a \in {"tpm", "tenant", "sent"} : a = After(w)
    BY DEF After
  <2>4. \E pc \in {"refused", a} : GwTo(r, pc)
    <3> DEFINE fits == window[KeyOf(w, rq[r].ch)] + UnitsOf(r, w) <= Limit[w]
    <3>1. \/ GwTo(r, IF fits THEN a ELSE "refused")
          \/ GwTo(r, a)
          \/ GwTo(r, IF FailOpen THEN a ELSE "refused")
      BY <2>1, <2>3 DEF CheckWindow
    <3> HIDE DEF fits
    <3> QED
      BY <3>1
  <2> QED
    BY <1>a, <2>2, <2>4, QuietMove DEF Unselected, Windows
<1>6. CASE \E o \in {"ok", "upstream", "client", "neutral"} : AnswerDirect(r, o)
  <2>1. PICK o \in {"ok", "upstream", "client", "neutral"} : AnswerDirect(r, o)
    BY <1>6
  <2>2. PICK pc \in {"clear", "count", "ended"} : pc = CircuitOutcome(o)
    BY DEF CircuitOutcome
  <2> DEFINE n == [rq[r] EXCEPT !.pc = pc]
  <2>3. n \in Request /\ n.pc = pc /\ n.ch = rq[r].ch
    BY <1>0 DEF Request
  <2>4. rq' = [rq EXCEPT ![r] = n]
    BY <1>0, <2>1, <2>2 DEF AnswerDirect, GwTo
  <2> HIDE DEF n
  <2>5. rq[r].pc = "sent" /\ Blame(r, o) /\ UNCHANGED <<failures, tripped>>
    BY <2>1 DEF AnswerDirect
  <2> QED
    BY <2>2, <2>3, <2>4, <2>5, OutcomeStep
<1>7. CASE \E o \in {"ok", "upstream", "client", "cancelled", "neutral"} : AnswerStream(r, o)
  <2>1. PICK o \in {"ok", "upstream", "client", "cancelled", "neutral"} : AnswerStream(r, o)
    BY <1>7
  <2>2. PICK pc \in {"clear", "count", "ended"} : pc = CircuitOutcome(o)
    BY DEF CircuitOutcome
  <2>3. PICK b \in BOOLEAN :
          rq' = [rq EXCEPT ![r].pc = CircuitOutcome(o), ![r].owes = b]
    BY <2>1 DEF AnswerStream
  <2> DEFINE n == [rq[r] EXCEPT !.pc = pc, !.owes = b]
  <2>4. n \in Request /\ n.pc = pc /\ n.ch = rq[r].ch
    BY <1>0 DEF Request
  <2>5. rq' = [rq EXCEPT ![r] = n]
    BY <1>0, <2>2, <2>3
  <2> HIDE DEF n
  <2>6. rq[r].pc = "sent" /\ Blame(r, o) /\ UNCHANGED <<failures, tripped>>
    BY <2>1 DEF AnswerStream
  <2> QED
    BY <2>2, <2>4, <2>5, <2>6, OutcomeStep
<1>8. CASE ClearFailures(r)
  <2>1. rq[r].pc = "clear" /\ tripped' \subseteq tripped /\ blame' = blame
        /\ GwTo(r, "untrip") /\ rq[r].ch \in Channels
    BY <1>0, <1>8 DEF ClearFailures, Unselected
  <2>2. failures' \in [Channels -> Nat] /\ \A c \in Channels : failures'[c] <= failures[c]
    BY <1>0, <1>8, <2>1 DEF ClearFailures
  <2> QED
    BY <2>1, <2>2, QuietMove DEF Unselected
<1>9. CASE ClearTripped(r)
  <2>1. PICK b \in BOOLEAN : b = (rq[r].owes \/ ~rq[r].stream)
    BY Zenon
  <2> DEFINE n == [rq[r] EXCEPT !.pc = "ended", !.owes = b]
  <2>2. rq[r].pc = "untrip" /\ tripped' \subseteq tripped /\ blame' = blame
        /\ rq[r].ch \in Channels /\ UNCHANGED failures
    BY <1>0, <1>9 DEF ClearTripped, Unselected
  <2>3. n \in Request /\ n.pc = "ended"
    BY <1>0 DEF Request
  <2>4. rq' = [rq EXCEPT ![r] = n]
    BY <1>0, <1>9, <2>1 DEF ClearTripped
  <2>5. n.ch = rq[r].ch
    BY <1>0 DEF Request
  <2> HIDE DEF n
  <2> QED
    BY <1>a, <2>2, <2>3, <2>4, <2>5, QuietStep
<1>10. CASE CountFailure(r)
  BY <1>10, CountStep
<1>11. CASE Trip(r)
  BY <1>11, TripStep
<1>12. CASE RecordUsage(r)
  <2> DEFINE n == [rq[r] EXCEPT !.owes = FALSE]
  <2>1. n \in Request /\ n.pc = rq[r].pc /\ n.ch = rq[r].ch
    BY <1>0 DEF Request
  <2>2. rq' = [rq EXCEPT ![r] = n] /\ UNCHANGED <<failures, tripped, blame>>
    BY <1>0, <1>12 DEF RecordUsage
  <2> HIDE DEF n
  <2>3. \A q \in GwRequests : rq'[q].pc = rq[q].pc /\ rq'[q].ch = rq[q].ch
    BY <1>0, <2>1, <2>2
  <2>4. BreakerTyped'
    BY <1>0, <2>1, <2>2, <2>3 DEF BreakerInv, BreakerTyped
  <2>5. \A c : Counting(c)' = Counting(c)
    BY <2>3 DEF Counting
  <2>6. FailuresWereMet' /\ TripsAreDue' /\ OnlyHealthFailuresTrip'
    BY <2>2, <2>3, <2>5 DEF BreakerInv, FailuresWereMet, TripsAreDue, OnlyHealthFailuresTrip
  <2> QED
    BY <2>4, <2>6 DEF BreakerInv
<1> QED
  BY <1>1, <1>2, <1>3, <1>4, <1>5, <1>6, <1>7, <1>8, <1>9, <1>10, <1>11, <1>12
     DEF RequestStep

LEMMA BreakerNext == BreakerInv /\ [GatewayNext]_gwVars => BreakerInv'
<1> SUFFICES ASSUME BreakerInv, [GatewayNext]_gwVars PROVE BreakerInv'
  OBVIOUS
<1>0. failures \in [Channels -> Nat]
  BY DEF BreakerInv, BreakerTyped
<1>1. CASE \E r \in GwRequests : RequestStep(r)
  BY <1>1, RequestKeepsBreaker
<1>2. CASE Expire
  <2>1. UNCHANGED <<rq, blame>> /\ tripped' \subseteq tripped
    BY <1>2 DEF Expire
  <2>2. failures' \in [Channels -> Nat] /\ \A c \in Channels : failures'[c] <= failures[c]
    BY <1>0, <1>2 DEF Expire
  <2> QED
    BY <2>1, <2>2, CacheForgets
<1>3. CASE AdminStep \/ Replicate \/ UNCHANGED gwVars
  <2>1. UNCHANGED <<failures, tripped, rq, blame>>
    BY <1>3 DEF AdminStep, CreateChannel, UpdateLoad, UpdateWrite, DeleteLoad, DeleteCount,
                DeleteRow, ElsewhereAdmin, Replicate, gwVars
  <2> QED
    BY <1>0, <2>1, CacheForgets
<1> QED
  BY <1>1, <1>2, <1>3 DEF GatewayNext

-----------------------------------------------------------------------------
(* The administration of channels.                                         *)

\* The administrator works on a channel that is there, and a deletion goes on
\* only when it counted nothing.
AdminIsConsistent ==
    /\ row \in [Channels -> {"none", "active", "inactive", "deleted"}]
    /\ counted \in [Channels -> SUBSET GwRequests]
    /\ admin \in [op : {"none", "update", "count", "delete"},
                  ch : Channels \cup {NoChannel}]
    /\ admin.op # "none" => admin.ch \in Channels /\ Exists(admin.ch)
    /\ admin.op = "delete" => counted[admin.ch] = {}

AdminInv == AdminIsConsistent /\ DeletionSparesCountedUsage

LEMMA AdminInit == GatewayInit => AdminInv
BY DEF GatewayInit, AdminInv, AdminIsConsistent, DeletionSparesCountedUsage, NoAdmin

LEMMA AdminNext == AdminInv /\ [GatewayNext]_gwVars => AdminInv'
<1> SUFFICES ASSUME AdminInv, [GatewayNext]_gwVars PROVE AdminInv'
  OBVIOUS
<1> USE DEF AdminInv, AdminIsConsistent, DeletionSparesCountedUsage, Exists
<1>1. CASE \E c \in Channels : CreateChannel(c)
  BY <1>1 DEF CreateChannel
<1>2. CASE \E c \in Channels : UpdateLoad(c)
  BY <1>2 DEF UpdateLoad, NoAdmin
<1>3. CASE \E c \in Channels : DeleteLoad(c)
  BY <1>3 DEF DeleteLoad, NoAdmin
<1>4. CASE UpdateWrite
  BY <1>4 DEF UpdateWrite, NoAdmin
<1>5. CASE DeleteCount
  BY <1>5 DEF DeleteCount, UsageOf, NoAdmin
<1>6. CASE DeleteRow
  BY <1>6 DEF DeleteRow, NoAdmin
<1>7. CASE UNCHANGED <<row, admin, counted>>
  BY <1>7
<1>8. (\E r \in GwRequests : RequestStep(r)) => UNCHANGED <<row, admin, counted>>
  BY DEF RequestStep, SelectLoad, RetainHealthy, WeightedSelect, CheckBreaker, CheckWindow,
         AnswerDirect, AnswerStream, ClearFailures, ClearTripped, CountFailure, Trip,
         RecordUsage, dbVars
<1>9. Replicate \/ Expire \/ UNCHANGED gwVars => UNCHANGED <<row, admin, counted>>
  BY DEF Replicate, Expire, dbVars, gwVars
<1> QED
  BY <1>1, <1>2, <1>3, <1>4, <1>5, <1>6, <1>7, <1>8, <1>9 DEF GatewayNext, AdminStep

\* For any number of channels and requests, any threshold and any budget: the
\* breaker of a channel opens only after Threshold failures of the provider
\* itself, and a deleted channel leaves behind no usage row that its deletion
\* had seen (record_failure and delete_channel).
THEOREM GatewayIsSound == GatewaySpec => []GatewayHolds
<1>1. GatewayInit => BreakerInv /\ AdminInv
  BY BreakerInit, AdminInit
<1>2. BreakerInv /\ AdminInv /\ [GatewayNext]_gwVars => (BreakerInv /\ AdminInv)'
  BY BreakerNext, AdminNext
<1>3. BreakerInv /\ AdminInv => GatewayHolds
  BY DEF BreakerInv, AdminInv, GatewayHolds
<1> QED
  BY <1>1, <1>2, <1>3, PTL DEF GatewaySpec

=============================================================================
