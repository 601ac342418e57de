------------------------------ MODULE Sessions ------------------------------
(***************************************************************************)
(* Login sessions of one account: the token_version column, the refresh    *)
(* tokens, the JWTs handed out and the Redis copy of token_version that    *)
(* the auth middleware looks at (server/src/services/auth.rs, the          *)
(* operations of services/user.rs, services/password_reset.rs,             *)
(* handlers/tenant.rs and handlers/api.rs that end sessions, and           *)
(* verify_token_version of lib.rs), and the tenants' status                *)
(* (services/tenant.rs).                                                   *)
(*                                                                         *)
(* The database runs READ COMMITTED: a DELETE works on the rows committed  *)
(* when it starts, waits for a row another transaction has locked and      *)
(* skips it when that transaction removed it.  Requests of several         *)
(* replicas interleave between any two statements.                         *)
(***************************************************************************)
EXTENDS Integers, FiniteSets

CONSTANTS
    Procs,          \* requests being served at one time
    Tenants,        \* tenants.id
    Default,        \* DEFAULT_TENANT_ID
    Home,           \* the tenant the account is in at first
    Workloads,      \* the sets of endpoints called together
    MaxRequests     \* bound: requests other than authenticated reads

None == "none"
NoVersion == 0
Roles == {"user", "admin"}
AllOps == {"login", "rotate", "logout", "logout_all", "change", "reset",
           "role", "move", "delete", "verify", "tenant"}

ASSUME SessionAssumption ==
    /\ IsFiniteSet(Procs) /\ IsFiniteSet(Tenants)
    /\ Default \in Tenants /\ Home \in Tenants /\ None \notin Tenants
    /\ Workloads \subseteq SUBSET AllOps
    /\ MaxRequests \in Nat

VARIABLES
    ops,        \* the endpoints called in this behaviour
    user,       \* the users row
    tenant,     \* tenants.status, "gone" once the row is deleted
    tokens,     \* rows of refresh_tokens
    used,       \* token hashes generated so far
    jwts,       \* the claims of every JWT handed out
    tvCache,    \* user:token_version:{id} in Redis, NoVersion when absent
    active,     \* tenants with tenant:active:{id} in Redis
    req,        \* what each request is doing
    served,     \* requests started so far
    ended,      \* history: families whose token was deleted, not exchanged
    staleRole   \* history: a role was written without a version increment

sessionVars == <<ops, user, tenant, tokens, used, jwts, tvCache, active, req,
                 served, ended, staleRole>>
dataVars == <<tenant, tvCache, active>>

\* A request increments the version once and inserts one token at most.
Versions == 1 .. MaxRequests + 1
Token == [id : Versions, fam : Versions]
Claims == [tv : Versions, role : Roles, tenant : Tenants]
UserRow == [live : BOOLEAN, tv : Versions, role : Roles, tenant : Tenants]
Pcs == {"idle", "read", "scan", "row", "commit", "requery", "invalidate",
        "fill"}

\* What a request keeps between two awaits: the row it read, the rows its
\* DELETE saw, the rows it has locked, and whether it holds the users row.
Request == [op : AllOps, pc : Pcs, arg : Roles \cup Tenants \cup {None},
            row : UserRow, snap : SUBSET Token, held : SUBSET Token,
            rowLock : BOOLEAN]

ClaimsOf(row) == [tv |-> row.tv, role |-> row.role, tenant |-> row.tenant]

FirstRow == [live |-> TRUE, tv |-> 1, role |-> "user", tenant |-> Home]
FirstToken == [id |-> 1, fam |-> 1]
Idle == [op |-> "verify", pc |-> "idle", arg |-> None, row |-> FirstRow,
         snap |-> {}, held |-> {}, rowLock |-> FALSE]

\* The account is logged in on one device.
SessionsInit ==
    /\ ops \in Workloads
    /\ user = FirstRow
    /\ tenant = [t \in Tenants |-> "active"]
    /\ tokens = {FirstToken} /\ used = 1 /\ jwts = {ClaimsOf(FirstRow)}
    /\ tvCache = NoVersion /\ active = {}
    /\ req = [p \in Procs |-> Idle]
    /\ served = 0 /\ ended = {} /\ staleRole = FALSE

-----------------------------------------------------------------------------
(* Requests and row locks *)

\* Mutant: the token is read without FOR UPDATE.
NeverLocked(p, t) == FALSE

Locked(p, t) == \E q \in Procs \ {p} : t \in req[q].held
RowLocked(p) == \E q \in Procs \ {p} : req[q].rowLock

\* The request takes its next step, with the named fields changed.
Goto(p, to) == req' = [req EXCEPT ![p].pc = to]

\* The transaction ends and its locks go; the request is answered when nothing
\* follows.
Finish(p, to) ==
    req' = [req EXCEPT ![p] = IF to = "idle" THEN Idle
                              ELSE [Idle EXCEPT !.op = req[p].op, !.pc = to]]

\* A request arrives.  Authenticated reads are not counted: they leave nothing
\* behind but the cached version.
Start(p, op, arg) ==
    /\ req[p].pc = "idle"
    /\ op \in ops
    /\ served < MaxRequests
    /\ served' = served + 1
    /\ req' = [req EXCEPT ![p] = [@ EXCEPT !.op = op, !.pc = "read",
                                           !.arg = arg, !.row = user]]
    /\ UNCHANGED <<user, tenant, tokens, used, jwts, tvCache, active, ended,
                   staleRole>>

Running(p, op, pc) == req[p].op \in op /\ req[p].pc = pc

\* DELETE FROM refresh_tokens WHERE user_id = $1.  The statement sees the rows
\* committed now, and locks them one after the other: when it meets a row that
\* is locked it waits there, having locked some of the others.
ScanTokens(p, then, waiting) ==
    LET free == {t \in tokens : ~Locked(p, t)} IN
    \E got \in SUBSET free :
        /\ free = tokens => got = tokens
        /\ req' = [req EXCEPT ![p] =
                     [req[p] EXCEPT !.pc = IF free = tokens THEN then ELSE waiting,
                                    !.snap = tokens, !.held = @ \cup got]]

\* The rows it waited for are free, or gone; rows inserted since are not seen.
FinishScan(p, then) ==
    /\ \A t \in req[p].snap \cap tokens : ~Locked(p, t)
    /\ req' = [req EXCEPT ![p].pc = then,
                          ![p].held = req[p].snap \cap tokens]

DeleteTokens(gone) ==
    /\ tokens' = tokens \ gone
    /\ ended' = ended \cup {t.fam : t \in gone}

\* PostgreSQL finds a cycle of lock waits and aborts one of its members:
\* revoke_all_sessions locks tokens and then the users row, change_password
\* and reset_password the other way round.
Stuck(p) ==
    \/ req[p].pc = "scan" /\ \E t \in req[p].snap \cap tokens : Locked(p, t)
    \/ req[p].pc = "row" /\ RowLocked(p)

AbortDeadlock(p) ==
    /\ Stuck(p)
    /\ \E q \in Procs \ {p} :
         /\ Stuck(q)
         /\ req[p].held \cap req[q].snap # {} \/ req[p].rowLock
         /\ req[q].held \cap req[p].snap # {} \/ req[q].rowLock
    /\ Finish(p, "idle")
    /\ UNCHANGED <<user, tenant, tokens, used, jwts, tvCache, active, served,
                   ended, staleRole>>

\* A statement fails or the connection is lost: the transaction rolls back, and
\* what was to follow a commit (the invalidation, the answer) does not happen.
Fail(p) ==
    /\ req[p].pc # "idle"
    /\ Finish(p, "idle")
    /\ UNCHANGED <<user, tenant, tokens, used, jwts, tvCache, active, served,
                   ended, staleRole>>

-----------------------------------------------------------------------------
(* AuthService::login *)

StartLogin(p) == \E remember \in {"user", None} :
    user.live /\ Start(p, "login", remember)

\* The tenant is looked up after the user; a disabled one ends the request.
\* Without "remember" the JWT alone is handed out.
LoginCheck(p) ==
    /\ Running(p, {"login"}, "read")
    /\ IF tenant[req[p].row.tenant] = "active" /\ req[p].arg # None
       THEN /\ ScanTokens(p, "commit", "scan")
            /\ UNCHANGED jwts
       ELSE /\ Finish(p, "idle")
            /\ jwts' = IF tenant[req[p].row.tenant] = "active"
                       THEN jwts \cup {ClaimsOf(req[p].row)} ELSE jwts
    /\ UNCHANGED <<user, tokens, used, served, ended, staleRole, dataVars>>

\* delete_all_refresh_tokens and store_refresh_token in one transaction.  The
\* foreign key refuses the token of a deleted user.
LoginCommit(p) ==
    /\ Running(p, {"login"}, "commit")
    /\ IF user.live
       THEN LET new == [id |-> used + 1, fam |-> used + 1] IN
            /\ tokens' = (tokens \ req[p].held) \cup {new}
            /\ ended' = ended \cup {t.fam : t \in req[p].held}
            /\ used' = used + 1
            /\ jwts' = jwts \cup {ClaimsOf(req[p].row)}
       ELSE UNCHANGED <<tokens, ended, used, jwts>>
    /\ Finish(p, "idle")
    /\ UNCHANGED <<user, served, staleRole, dataVars>>

-----------------------------------------------------------------------------
(* AuthService::rotate_refresh_token and the logout endpoint *)

\* SELECT ... FOR UPDATE on the token, then the user, without a lock.
RotateLock(p) ==
    /\ req[p].pc = "idle" /\ "rotate" \in ops
    /\ served < MaxRequests /\ served' = served + 1
    /\ user.live
    /\ \E t \in tokens :
         /\ ~Locked(p, t)
         /\ req' = [req EXCEPT ![p] = [@ EXCEPT !.op = "rotate",
                        !.pc = "commit", !.row = user, !.held = {t}]]
    /\ UNCHANGED <<user, tokens, used, jwts, ended, staleRole, dataVars>>

\* Mutant: the early return for a disabled tenant leaves the transaction open.
RotateLeavesLock(p) ==
    /\ Running(p, {"rotate"}, "commit")
    /\ IF tenant[req[p].row.tenant] = "active"
       THEN /\ tokens' = (tokens \ req[p].held)
                        \cup {[id |-> used + 1, fam |-> t.fam] : t \in req[p].held}
            /\ used' = used + 1
            /\ jwts' = jwts \cup {ClaimsOf(req[p].row)}
            /\ Finish(p, "idle")
       ELSE Goto(p, "idle") /\ UNCHANGED <<tokens, used, jwts>>
    /\ UNCHANGED <<user, served, ended, staleRole, dataVars>>

\* The token is replaced by its successor; a disabled tenant rolls back.
RotateCommit(p) ==
    /\ Running(p, {"rotate"}, "commit")
    /\ IF tenant[req[p].row.tenant] = "active"
       THEN /\ tokens' = (tokens \ req[p].held)
                        \cup {[id |-> used + 1, fam |-> t.fam] : t \in req[p].held}
            /\ used' = used + 1
            /\ jwts' = jwts \cup {ClaimsOf(req[p].row)}
       ELSE UNCHANGED <<tokens, used, jwts>>
    /\ Finish(p, "idle")
    /\ UNCHANGED <<user, served, ended, staleRole, dataVars>>

\* delete_refresh_token: one statement, which waits while the row is locked.
\* cleanup_expired_refresh_tokens removes a row the same way.
Logout(p) ==
    /\ "logout" \in ops
    /\ served < MaxRequests /\ served' = served + 1
    /\ req[p].pc = "idle" /\ UNCHANGED req
    /\ \E t \in tokens : ~Locked(p, t) /\ DeleteTokens({t})
    /\ UNCHANGED <<user, used, jwts, staleRole, dataVars>>

-----------------------------------------------------------------------------
(* revoke_all_sessions, change_password, reset_password *)

\* A reset is refused to users of a disabled tenant.
StartRevoke(p) == \E op \in {"logout_all", "change", "reset"} :
    /\ user.live
    /\ op = "reset" => tenant[user.tenant] = "active"
    /\ Start(p, op, None)

\* logout_all deletes the tokens first.
RevokeScan(p) ==
    /\ Running(p, {"logout_all"}, "read")
    /\ ScanTokens(p, "row", "scan")
    /\ UNCHANGED <<user, tokens, used, jwts, served, ended, staleRole, dataVars>>

\* The other two increment token_version first, and hold the users row.
PasswordUpdate(p) ==
    /\ Running(p, {"change", "reset"}, "read")
    /\ ~RowLocked(p)
    /\ IF user.live
       THEN req' = [req EXCEPT ![p].pc = "row", ![p].rowLock = TRUE]
       ELSE Finish(p, "idle")
    /\ UNCHANGED <<user, tokens, used, jwts, served, ended, staleRole, dataVars>>

PasswordScan(p) ==
    /\ Running(p, {"change", "reset"}, "row")
    /\ ScanTokens(p, "commit", "scan")
    /\ UNCHANGED <<user, tokens, used, jwts, served, ended, staleRole, dataVars>>

\* A DELETE that waited goes on.
ScanDone(p) ==
    /\ req[p].pc = "scan"
    /\ FinishScan(p, IF req[p].op = "logout_all" THEN "row" ELSE "commit")
    /\ UNCHANGED <<user, tokens, used, jwts, served, ended, staleRole, dataVars>>

\* token_version + 1 and COMMIT.
RevokeCommit(p) ==
    /\ Running(p, {"logout_all"}, "row")
    /\ ~RowLocked(p)
    /\ user' = IF user.live THEN [user EXCEPT !.tv = @ + 1] ELSE user
    /\ DeleteTokens(req[p].held)
    /\ Finish(p, "invalidate")
    /\ UNCHANGED <<used, jwts, served, staleRole, dataVars>>

\* reset_password reads the new version inside the transaction.
PasswordCommit(p) ==
    /\ Running(p, {"change", "reset"}, "commit")
    /\ user' = [user EXCEPT !.tv = @ + 1]
    /\ DeleteTokens(req[p].held)
    /\ Finish(p, IF req[p].op = "change" THEN "requery" ELSE "invalidate")
    /\ jwts' = IF req[p].op = "reset" THEN jwts \cup {ClaimsOf(user')} ELSE jwts
    /\ UNCHANGED <<used, served, staleRole, dataVars>>

\* change_password reads it again after the commit.
ChangeRequery(p) ==
    /\ Running(p, {"change"}, "requery")
    /\ jwts' = IF user.live THEN jwts \cup {ClaimsOf(user)} ELSE jwts
    /\ Finish(p, IF user.live THEN "invalidate" ELSE "idle")
    /\ UNCHANGED <<user, tokens, used, served, ended, staleRole, dataVars>>

-----------------------------------------------------------------------------
(* update_user, move_user_tenant, delete_user *)

StartRoleEdit(p) == \E r \in Roles : user.live /\ Start(p, "role", r)

\* The target tenant is looked up in the cache first.
StartMove(p) == \E t \in Tenants :
    user.live /\ (t \in active \/ tenant[t] = "active") /\ Start(p, "move", t)

\* The role or the tenant differs from the one read earlier.
EndsSessions(p) ==
    req[p].arg # IF req[p].op = "role" THEN req[p].row.role
                                       ELSE req[p].row.tenant

Bump(p) == IF EndsSessions(p) THEN 1 ELSE 0
AfterEdit(p) == IF EndsSessions(p) THEN "invalidate" ELSE "idle"

\* The increment and the fields in one transaction.  Whether the role changes is
\* decided on the row read earlier; the role is written anyway.
RoleCommit(p) ==
    /\ Running(p, {"role"}, "read") /\ ~RowLocked(p)
    /\ IF user.live
       THEN /\ user' = [user EXCEPT !.role = req[p].arg, !.tv = @ + Bump(p)]
            /\ staleRole' = (staleRole \/ (Bump(p) = 0 /\ user.role # req[p].arg))
            /\ Finish(p, AfterEdit(p))
       ELSE Finish(p, "idle") /\ UNCHANGED <<user, staleRole>>
    /\ UNCHANGED <<tokens, used, jwts, served, ended, dataVars>>

\* One statement.  A move to the tenant the user was read in writes nothing; the
\* foreign key refuses a tenant deleted since.
MoveCommit(p) ==
    /\ Running(p, {"move"}, "read") /\ ~RowLocked(p)
    /\ IF /\ user.live
          /\ req[p].arg # req[p].row.tenant /\ tenant[req[p].arg] # "gone"
       THEN /\ user' = [user EXCEPT !.tenant = req[p].arg, !.tv = @ + Bump(p)]
            /\ Finish(p, AfterEdit(p))
       ELSE Finish(p, "idle") /\ UNCHANGED user
    /\ UNCHANGED <<tokens, used, jwts, served, ended, staleRole, dataVars>>

\* An admin may delete accounts of role "user" only, a system actor any.
StartDelete(p) == \E actor \in {"admin", None} :
    /\ user.live
    /\ actor = "admin" => user.role = "user"
    /\ Start(p, "delete", actor)

\* The tokens go first, in a statement of their own that may fail.
DeleteUserTokens(p) ==
    /\ Running(p, {"delete"}, "read")
    /\ \A t \in tokens : ~Locked(p, t)
    /\ \E gone \in {{}, tokens} : DeleteTokens(gone)
    /\ Goto(p, "row")
    /\ UNCHANGED <<user, used, jwts, served, staleRole, dataVars>>

\* The role is part of an admin's DELETE; ON DELETE CASCADE takes the tokens.
DeleteMatches(p) == req[p].arg = "admin" => user.role = "user"

DeleteUser(p) ==
    /\ Running(p, {"delete"}, "row")
    /\ ~RowLocked(p) /\ \A t \in tokens : ~Locked(p, t)
    /\ IF user.live /\ DeleteMatches(p)
       THEN /\ user' = [user EXCEPT !.live = FALSE]
            /\ DeleteTokens(tokens)
            /\ Finish(p, "invalidate")
       ELSE Finish(p, "idle") /\ UNCHANGED <<user, tokens, ended>>
    /\ UNCHANGED <<used, jwts, served, staleRole, dataVars>>

-----------------------------------------------------------------------------
(* The cached token_version: verify_token_version and the invalidations *)

\* Best effort: Redis may be away.
Invalidate(p) ==
    /\ req[p].op # "tenant" /\ req[p].pc = "invalidate"
    /\ tvCache' \in {tvCache, NoVersion}
    /\ Finish(p, "idle")
    /\ UNCHANGED <<user, tenant, tokens, used, jwts, active, served, ended,
                   staleRole>>

\* A hit answers from the cache and changes nothing.  On a miss the row is read
\* and written to the cache in a later call.
VerifyMiss(p) ==
    /\ req[p].pc = "idle" /\ "verify" \in ops
    /\ tvCache = NoVersion /\ user.live
    /\ req' = [req EXCEPT ![p] = [@ EXCEPT !.op = "verify", !.pc = "fill",
                                           !.row = user]]
    /\ UNCHANGED <<user, tokens, used, jwts, served, ended, staleRole, dataVars>>

\* Mutant: the cache is given the version of the token that was presented.
FillFromToken(p) ==
    /\ Running(p, {"verify"}, "fill")
    /\ \E j \in jwts : tvCache' = j.tv
    /\ Finish(p, "idle")
    /\ UNCHANGED <<user, tenant, tokens, used, jwts, active, served, ended,
                   staleRole>>

VerifyFill(p) ==
    /\ Running(p, {"verify"}, "fill")
    /\ tvCache' = req[p].row.tv
    /\ Finish(p, "idle")
    /\ UNCHANGED <<user, tenant, tokens, used, jwts, active, served, ended,
                   staleRole>>

\* The 30 s TTL ends.
ExpireVersion ==
    /\ tvCache # NoVersion /\ tvCache' = NoVersion
    /\ UNCHANGED <<user, tenant, tokens, used, jwts, active, req, served,
                   ended, staleRole>>

-----------------------------------------------------------------------------
(* TenantService *)

StartTenant(p) == \E t \in Tenants :
    tenant[t] # "gone" /\ Start(p, "tenant", t)

\* update writes a status; delete counts the users first, and the foreign key
\* refuses the row of a tenant that has one.  The row may be gone by now.
TenantWrite(p) ==
    /\ Running(p, {"tenant"}, "read")
    /\ LET t == req[p].arg IN
       \/ tenant[t] = "gone" /\ Finish(p, "idle") /\ UNCHANGED tenant
       \/ /\ tenant[t] # "gone"
          /\ \E s \in {"active", "disabled", "gone"} :
               /\ t = Default => s = "active"
               /\ s = "gone" => ~(user.live /\ user.tenant = t)
               /\ tenant' = [tenant EXCEPT ![t] = s]
          /\ Goto(p, "invalidate")
    /\ UNCHANGED <<user, tokens, used, jwts, tvCache, active, served, ended,
                   staleRole>>

TenantInvalidate(p) ==
    /\ Running(p, {"tenant"}, "invalidate")
    /\ active' \in {active, active \ {req[p].arg}}
    /\ Finish(p, "idle")
    /\ UNCHANGED <<user, tenant, tokens, used, jwts, tvCache, served, ended,
                   staleRole>>

\* is_active caches active tenants only, in a call after the read; the TTL ends.
TenantMiss(p) ==
    /\ req[p].pc = "idle" /\ "tenant" \in ops
    /\ \E t \in Tenants :
         /\ t \notin active /\ tenant[t] = "active"
         /\ req' = [req EXCEPT ![p] = [@ EXCEPT !.op = "tenant", !.pc = "fill",
                                                !.arg = t]]
    /\ UNCHANGED <<user, tokens, used, jwts, served, ended, staleRole, dataVars>>

TenantFill(p) ==
    /\ Running(p, {"tenant"}, "fill")
    /\ active' = active \cup {req[p].arg}
    /\ Finish(p, "idle")
    /\ UNCHANGED <<user, tenant, tokens, used, jwts, tvCache, served, ended,
                   staleRole>>

ExpireActive ==
    /\ \E t \in active : active' = active \ {t}
    /\ UNCHANGED <<user, tenant, tokens, used, jwts, tvCache, req, served,
                   ended, staleRole>>

-----------------------------------------------------------------------------
Step(p) ==
    \/ LoginCheck(p) \/ LoginCommit(p)
    \/ RotateCommit(p)
    \/ RevokeScan(p) \/ PasswordUpdate(p) \/ PasswordScan(p) \/ ScanDone(p)
    \/ RevokeCommit(p) \/ PasswordCommit(p) \/ ChangeRequery(p)
    \/ RoleCommit(p) \/ MoveCommit(p) \/ DeleteUserTokens(p) \/ DeleteUser(p)
    \/ Invalidate(p) \/ VerifyFill(p)
    \/ TenantWrite(p) \/ TenantInvalidate(p) \/ TenantFill(p)
    \/ AbortDeadlock(p)

Arrive(p) ==
    \/ StartLogin(p) \/ RotateLock(p) \/ Logout(p) \/ StartRevoke(p)
    \/ StartRoleEdit(p) \/ StartMove(p) \/ StartDelete(p) \/ VerifyMiss(p)
    \/ StartTenant(p) \/ TenantMiss(p)

SessionsNext ==
    /\ UNCHANGED ops
    /\ \/ \E p \in Procs : Arrive(p) \/ Step(p) \/ Fail(p)
       \/ ExpireVersion
       \/ ExpireActive

\* A request that was started is served, PostgreSQL grants a free lock, and a
\* TTL ends.
SessionsFairness ==
    /\ \A p \in Procs : WF_sessionVars(Step(p) /\ UNCHANGED ops)
    /\ WF_sessionVars(ExpireVersion /\ UNCHANGED ops)

SessionsSpec == SessionsInit /\ [][SessionsNext]_sessionVars /\ SessionsFairness

-----------------------------------------------------------------------------
SessionsTypeOK ==
    /\ ops \in Workloads
    /\ user \in UserRow
    /\ tenant \in [Tenants -> {"active", "disabled", "gone"}]
    /\ tokens \subseteq Token
    /\ used \in Versions
    /\ jwts \subseteq Claims
    /\ tvCache \in Versions \cup {NoVersion}
    /\ active \subseteq Tenants
    /\ req \in [Procs -> Request]
    /\ served \in 0 .. MaxRequests
    /\ ended \subseteq Versions
    /\ staleRole \in BOOLEAN

\* A refresh token is exchanged for at most one successor, however many
\* requests present it at once: of each login's chain one token is live.
FamilyNeverForks ==
    \A t1, t2 \in tokens : t1.fam = t2.fam => t1 = t2

\* Once logout, logout-all, a password change or reset, a new login or the
\* deletion of the user has deleted the token of a chain, no request already
\* under way brings the chain back.
RevokedFamilyStaysDead == \A t \in tokens : t.fam \notin ended

\* Both, of the chains of refresh tokens that logins begin and rotations go on
\* with, for every interleaving of two requests at any of their statements.
TokenChainsHold == FamilyNeverForks /\ RevokedFamilyStaysDead

\* The middleware trusts the role and the tenant in a JWT whose version is the
\* current one: they are those of the row, as the comment on the increment in
\* update_user promises.  The one way around it is recorded in staleRole: an
\* edit that read the role before another edit changed it writes the old role
\* back and, seeing no change, increments nothing.
ClaimsAreCurrent ==
    \A j \in jwts : user.live /\ j.tv = user.tv =>
        j.tenant = user.tenant /\ (j.role = user.role \/ staleRole)

\* What a session may rely on and what may rely on it: its chain of refresh
\* tokens and the claims of its access token (auth.rs, user.rs).
SessionsHold == TokenChainsHold /\ ClaimsAreCurrent

\* A version read before an increment may reach the cache after the
\* invalidation, but once versions stop changing the middleware's copy is the
\* row's for good, or absent.
VersionCacheConverges ==
    <>[](tvCache = NoVersion \/ (user.live /\ tvCache = user.tv))

\* Nobody waits for a lock for ever, although logout-all and a password change
\* take the same locks in opposite orders.
RequestsEnd == \A p \in Procs : req[p].pc # "idle" ~> req[p].pc = "idle"

=============================================================================
