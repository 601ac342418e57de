CONSTANTS
    alice = alice
    p1 = p1
    i1 = i1
    i2 = i2
    i3 = i3
    r1 = r1
    r2 = r2
    r3 = r3
    t1 = t1
    t2 = t2
    Users = {alice}
    Plans = {p1}
    Instances = {i1, i2, i3}
    Requests = {r1, r2, r3}
    Txns = {t1, t2}
    UserTenant <- MCUserTenant
    PlanTenant <- MCPlanTenant
    Templates <- MCTemplates
    Amounts <- MCAmounts
    MaxBalance = 3
    MaxAttempts = 3
    MaxClock = 1
SPECIFICATION MCSpec
INVARIANTS TypeOK ReadStaysCurrent MoneyConserved PurchaseLimitHolds QuotaAccounting
SYMMETRY MCSymmetry
CHECK_DEADLOCK FALSE
