---------------------------- MODULE AccountProofs ----------------------------
(***************************************************************************)
(* Proofs about accounts and answers: the login sessions of module         *)
(* Sessions, for any number of concurrent requests, tenants and logins;    *)
(* the mailed codes of OneTimeCodes and the captchas of WechatCaptcha, for *)
(* any number of requests, followers, codes and attempts, which implement  *)
(* OneTimeGrant and keep the limits on guesses and on mails; the relay of  *)
(* a stream in StreamRelay, for any capacities of its queues; and what     *)
(* Translation makes of any answer, request and batch of embeddings.       *)
(***************************************************************************)
EXTENDS Sessions, OneTimeCodes, WechatCaptcha, Translation, FiniteSetTheorems,
        FunctionTheorems, WellFoundedInduction, TLAPS

-----------------------------------------------------------------------------
(* Login sessions.                                                         *)

Words == Roles \cup Tenants \cup {None}
SessRow == [live : BOOLEAN, tv : Nat, role : Words, tenant : Words]
SessToken == [id : Nat, fam : Nat]
SessClaims == [tv : Nat, role : Words, tenant : Words]
SessRequest == [op : AllOps, pc : Pcs, arg : Words, row : SessRow,
                snap : SUBSET SessToken, held : SUBSET SessToken, rowLock : BOOLEAN]

SessionsTyped ==
    /\ user \in SessRow /\ tokens \subseteq SessToken /\ used \in Nat
    /\ ended \subseteq Nat /\ jwts \subseteq SessClaims
    /\ req \in [Procs -> SessRequest]

\* A row lock is on a row that is there, and one transaction has it; a request
\* that has not begun its transaction has none.
LocksHold ==
    /\ \A p \in Procs : /\ req[p].held \subseteq tokens
                        /\ req[p].pc \in {"idle", "read"} => req[p].held = {}
    /\ \A p, q \in Procs : p # q => req[p].held \cap req[q].held = {}

\* A hash that was never generated belongs to no chain.
HashesAreFresh ==
    /\ \A t \in tokens : t.fam <= used
    /\ \A f \in ended : f <= used

\* What was read from the users row, or stands in a JWT, is not ahead of the
\* row, and agrees with it while the version is the same.
Current(x) ==
    /\ x.tv <= user.tv
    /\ user.live /\ x.tv = user.tv =>
         x.tenant = user.tenant /\ (x.role = user.role \/ staleRole)

ReadsAreCurrent ==
    /\ Current(FirstRow)
    /\ \A j \in jwts : Current(j)
    /\ \A p \in Procs : Current(req[p].row)

SessionsInv ==
    /\ SessionsTyped /\ LocksHold /\ HashesAreFresh /\ TokenChainsHold
    /\ ReadsAreCurrent

LEMMA FirstShape ==
    /\ FirstRow \in SessRow /\ FirstRow.tv = 1
    /\ Idle \in SessRequest /\ Idle.pc = "idle" /\ Idle.held = {}
    /\ Idle.row = FirstRow /\ Idle.op = "verify"
BY SessionAssumption
   DEF FirstRow, SessRow, Idle, SessRequest, Words, Roles, AllOps, Pcs, None

LEMMA ClaimsShape ==
    ASSUME NEW r \in SessRow
    PROVE  /\ ClaimsOf(r) \in SessClaims /\ ClaimsOf(r).tv = r.tv
           /\ ClaimsOf(r).role = r.role /\ ClaimsOf(r).tenant = r.tenant
BY DEF ClaimsOf, SessClaims, SessRow

LEMMA SessionsInitInv == SessionsInit => SessionsInv
<1> SUFFICES ASSUME SessionsInit PROVE SessionsInv
  OBVIOUS
<1>1. SessionsTyped
  <2>1. FirstToken \in SessToken
    BY DEF FirstToken, SessToken
  <2> QED
    BY <2>1, FirstShape, ClaimsShape DEF SessionsInit, SessionsTyped
<1>2. LocksHold
  BY FirstShape DEF SessionsInit, LocksHold
<1>3. HashesAreFresh /\ TokenChainsHold
  BY DEF SessionsInit, HashesAreFresh, TokenChainsHold, FamilyNeverForks,
         RevokedFamilyStaysDead, FirstToken
<1>4. Current(FirstRow) /\ Current(ClaimsOf(FirstRow))
  BY FirstShape, ClaimsShape DEF SessionsInit, Current
<1>5. ReadsAreCurrent
  BY <1>4, FirstShape DEF SessionsInit, ReadsAreCurrent
<1> QED
  BY <1>1, <1>2, <1>3, <1>5 DEF SessionsInv

-----------------------------------------------------------------------------
(* The three kinds of steps.                                               *)

LEMMA OneRequestMoves ==
    ASSUME SessionsInv, NEW p \in Procs, NEW n \in SessRequest,
           req' = [req EXCEPT ![p] = n]
    PROVE  /\ req' \in [Procs -> SessRequest] /\ req'[p] = n
           /\ \A q \in Procs : q # p => req'[q] = req[q]
BY DEF SessionsInv, SessionsTyped

\* A request takes locks or gives them up; nothing else changes.
LEMMA LockStep ==
    ASSUME SessionsInv, NEW p \in Procs, NEW n \in SessRequest,
           req' = [req EXCEPT ![p] = n],
           n.held \subseteq tokens, \A t \in n.held : ~Locked(p, t),
           n.pc \in {"idle", "read"} => n.held = {}, Current(n.row),
           UNCHANGED <<user, tokens, used, jwts, ended, staleRole>>
    PROVE  SessionsInv'
<1>1. /\ req' \in [Procs -> SessRequest] /\ req'[p] = n
      /\ \A q \in Procs : q # p => req'[q] = req[q]
  BY OneRequestMoves
<1>2. SessionsTyped'
  BY <1>1 DEF SessionsInv, SessionsTyped
<1>3. LocksHold'
  BY <1>1 DEF SessionsInv, LocksHold, Locked
<1>4. HashesAreFresh' /\ TokenChainsHold'
  BY DEF SessionsInv, HashesAreFresh, TokenChainsHold, FamilyNeverForks,
         RevokedFamilyStaysDead
<1>5. \A x : Current(x)' <=> Current(x)
  BY DEF Current
<1>6. ReadsAreCurrent'
  BY <1>1, <1>5 DEF SessionsInv, ReadsAreCurrent, FirstRow
<1> QED
  BY <1>2, <1>3, <1>4, <1>6 DEF SessionsInv

\* A request whose transaction ends: the tokens it deletes are locked by nobody
\* else, the users row moves on, and what is handed out was read from it.
LEMMA EndStep ==
    ASSUME SessionsInv, NEW p \in Procs, NEW n \in SessRequest,
           req' = [req EXCEPT ![p] = n], n.held = {}, Current(n.row),
           NEW dead \in SUBSET tokens, \A t \in dead : ~Locked(p, t),
           tokens' = tokens \ dead, ended' = ended \cup {t.fam : t \in dead},
           used' = used, user' \in SessRow,
           \A x : x.tv \in Nat /\ Current(x) => Current(x)',
           jwts' \subseteq SessClaims, \A j \in jwts' \ jwts : Current(j)'
    PROVE  SessionsInv'
<1>1. /\ req' \in [Procs -> SessRequest] /\ req'[p] = n
      /\ \A q \in Procs : q # p => req'[q] = req[q]
  BY OneRequestMoves
<1>2. SessionsTyped'
  BY <1>1 DEF SessionsInv, SessionsTyped, SessToken
<1>3. \A q \in Procs : q # p => req[q].held \subseteq tokens'
  BY DEF SessionsInv, LocksHold, Locked
<1>4. LocksHold'
  BY <1>1, <1>3 DEF SessionsInv, LocksHold
<1>5. HashesAreFresh'
  BY DEF SessionsInv, HashesAreFresh
<1>6. TokenChainsHold'
  BY DEF SessionsInv, TokenChainsHold, FamilyNeverForks, RevokedFamilyStaysDead
<1>7. Current(FirstRow)'
  BY FirstShape DEF SessionsInv, ReadsAreCurrent
<1>8. \A j \in jwts' : Current(j)'
  <2> SUFFICES ASSUME NEW j \in jwts, j \in jwts' PROVE Current(j)'
    OBVIOUS
  <2>1. j.tv \in Nat /\ Current(j)
    BY DEF SessionsInv, SessionsTyped, ReadsAreCurrent, SessClaims
  <2> QED
    BY <2>1
<1>9. \A q \in Procs : Current(req[q].row)'
  <2> SUFFICES ASSUME NEW q \in Procs PROVE Current(req[q].row)'
    OBVIOUS
  <2>1. PICK x \in SessRow : x = req'[q].row
    BY <1>1 DEF SessRequest
  <2>2. Current(x) /\ x.tv \in Nat
    BY <1>1, <2>1 DEF SessionsInv, ReadsAreCurrent, SessRow
  <2> QED
    BY <2>1, <2>2 DEF Current
<1>10. ReadsAreCurrent'
  BY <1>7, <1>8, <1>9 DEF ReadsAreCurrent, Current
<1> QED
  BY <1>2, <1>4, <1>5, <1>6, <1>10 DEF SessionsInv

\* What Finish leaves of a request.
LEMMA FinishShape ==
    ASSUME SessionsInv, NEW p \in Procs, NEW to \in Pcs, Finish(p, to)
    PROVE  \E n \in SessRequest :
             /\ req' = [req EXCEPT ![p] = n]
             /\ n.held = {} /\ n.row = FirstRow /\ Current(n.row)
<1> DEFINE n == IF to = "idle" THEN Idle ELSE [Idle EXCEPT !.op = req[p].op, !.pc = to]
<1>1. req[p].op \in AllOps
  BY DEF SessionsInv, SessionsTyped, SessRequest
<1>2. n \in SessRequest /\ n.held = {} /\ n.row = FirstRow
  BY <1>1, FirstShape DEF SessRequest
<1>3. req' = [req EXCEPT ![p] = n]
  BY DEF Finish
<1>4. Current(FirstRow)
  BY DEF SessionsInv, ReadsAreCurrent
<1> HIDE DEF n
<1> QED
  BY <1>2, <1>3, <1>4

\* A request that ends without writing anything.
LEMMA LeaveStep ==
    ASSUME SessionsInv, NEW p \in Procs, NEW to \in Pcs, Finish(p, to),
           UNCHANGED <<user, tokens, used, jwts, ended, staleRole>>
    PROVE  SessionsInv'
<1>1. PICK n \in SessRequest : /\ req' = [req EXCEPT ![p] = n]
                               /\ n.held = {} /\ Current(n.row)
  BY FinishShape
<1> QED
  BY <1>1, LockStep

LEMMA RequestFacts ==
    ASSUME SessionsInv, NEW p \in Procs
    PROVE  /\ req[p] \in SessRequest /\ user \in SessRow
           /\ req[p].held \subseteq tokens /\ \A t \in req[p].held : ~Locked(p, t)
           /\ req[p].pc \in {"idle", "read"} => req[p].held = {}
           /\ Current(req[p].row) /\ req[p].row \in SessRow
           /\ Current(user) /\ Current(FirstRow)
<1>1. req[p] \in SessRequest /\ user \in SessRow
  BY DEF SessionsInv, SessionsTyped
<1>2. /\ req[p].held \subseteq tokens /\ \A t \in req[p].held : ~Locked(p, t)
      /\ req[p].pc \in {"idle", "read"} => req[p].held = {}
  BY DEF SessionsInv, LocksHold, Locked
<1>3. Current(req[p].row) /\ Current(FirstRow)
  BY DEF SessionsInv, ReadsAreCurrent
<1>4. Current(user)
  BY <1>1 DEF Current, SessRow
<1> QED
  BY <1>1, <1>2, <1>3, <1>4 DEF SessRequest

\* token_version + 1 leaves every copy of the row behind.
LEMMA VersionStep ==
    ASSUME SessionsInv, user' \in SessRow, user'.tv = user.tv + 1
    PROVE  \A x : x.tv \in Nat /\ Current(x) => Current(x)'
BY DEF SessionsInv, SessionsTyped, SessRow, Current

\* A transaction that deletes the tokens it holds, or none.
LEMMA HeldTokensGo ==
    ASSUME SessionsInv, NEW p \in Procs, NEW to \in Pcs, Finish(p, to),
           DeleteTokens(req[p].held), used' = used, user' \in SessRow,
           \A x : x.tv \in Nat /\ Current(x) => Current(x)',
           jwts' \subseteq SessClaims, \A j \in jwts' \ jwts : Current(j)'
    PROVE  SessionsInv'
<1>1. PICK n \in SessRequest : /\ req' = [req EXCEPT ![p] = n]
                               /\ n.held = {} /\ Current(n.row)
  BY FinishShape
<1>2. PICK dead \in SUBSET tokens : dead = req[p].held
  BY RequestFacts
<1>3. \A t \in dead : ~Locked(p, t)
  BY <1>2, RequestFacts
<1>4. tokens' = tokens \ dead /\ ended' = ended \cup {t.fam : t \in dead}
  BY <1>2 DEF DeleteTokens
<1> QED
  BY <1>1, <1>3, <1>4, EndStep

\* The same for a transaction that deletes none.
LEMMA NoTokenGoes ==
    ASSUME SessionsInv, NEW p \in Procs, NEW to \in Pcs, Finish(p, to),
           UNCHANGED <<tokens, ended, used>>, user' \in SessRow,
           \A x : x.tv \in Nat /\ Current(x) => Current(x)',
           jwts' \subseteq SessClaims, \A j \in jwts' \ jwts : Current(j)'
    PROVE  SessionsInv'
<1>1. PICK n \in SessRequest : /\ req' = [req EXCEPT ![p] = n]
                               /\ n.held = {} /\ Current(n.row)
  BY FinishShape
<1>2. PICK dead \in SUBSET tokens : dead = {}
  OBVIOUS
<1>3. /\ \A t \in dead : ~Locked(p, t)
      /\ tokens' = tokens \ dead /\ ended' = ended \cup {t.fam : t \in dead}
  BY <1>2
<1> QED
  BY <1>1, <1>3, EndStep

\* DELETE FROM refresh_tokens WHERE user_id = $1, up to the first lock.
LEMMA ScanStep ==
    ASSUME SessionsInv, NEW p \in Procs, NEW then \in {"row", "commit"},
           ScanTokens(p, then, "scan"),
           UNCHANGED <<user, tokens, used, jwts, ended, staleRole>>
    PROVE  SessionsInv'
<1>1. PICK pc \in {then, "scan"}, got \in SUBSET tokens :
        /\ \A t \in got : ~Locked(p, t)
        /\ req' = [req EXCEPT ![p] = [req[p] EXCEPT !.pc = pc, !.snap = tokens,
                                                    !.held = req[p].held \cup got]]
  <2> DEFINE free == {t \in tokens : ~Locked(p, t)}
  <2>1. PICK got \in SUBSET free :
          req' = [req EXCEPT ![p] =
                    [req[p] EXCEPT !.pc = IF free = tokens THEN then ELSE "scan",
                                   !.snap = tokens, !.held = req[p].held \cup got]]
    BY DEF ScanTokens
  <2>2. \A t \in got : t \in tokens /\ ~Locked(p, t)
    BY <2>1
  <2> HIDE DEF free
  <2>3. PICK pc \in {then, "scan"} : pc = IF free = tokens THEN then ELSE "scan"
    OBVIOUS
  <2> QED
    BY <2>1, <2>2, <2>3
<1> DEFINE n == [req[p] EXCEPT !.pc = pc, !.snap = tokens, !.held = req[p].held \cup got]
<1>2. req[p] \in SessRequest /\ tokens \subseteq SessToken
  BY DEF SessionsInv, SessionsTyped
<1>3. n \in SessRequest /\ n.pc = pc /\ n.held = req[p].held \cup got /\ n.row = req[p].row
  BY <1>2 DEF SessRequest, Pcs
<1>4. req' = [req EXCEPT ![p] = n]
  BY <1>1
<1> HIDE DEF n
<1>5. n.held \subseteq tokens /\ (\A t \in n.held : ~Locked(p, t)) /\ Current(n.row)
  BY <1>1, <1>3, RequestFacts
<1> QED
  BY <1>3, <1>4, <1>5, LockStep

LEMMA StartStep ==
    ASSUME SessionsInv, NEW p \in Procs, NEW op \in AllOps, NEW arg \in Words,
           Start(p, op, arg)
    PROVE  SessionsInv'
<1> DEFINE n == [req[p] EXCEPT !.op = op, !.pc = "read", !.arg = arg, !.row = user]
<1>1. /\ req[p] \in SessRequest /\ user \in SessRow /\ req[p].held = {} /\ Current(user)
  BY RequestFacts DEF Start
<1>2. n \in SessRequest /\ n.held = {} /\ n.row = user
  BY <1>1 DEF SessRequest, Pcs
<1>3. req' = [req EXCEPT ![p] = n]
  BY DEF Start
<1> HIDE DEF n
<1> QED
  BY <1>1, <1>2, <1>3, LockStep DEF Start

LEMMA ArriveStep ==
    ASSUME SessionsInv, NEW p \in Procs, Arrive(p)
    PROVE  SessionsInv'
<1>0. /\ req[p] \in SessRequest /\ user \in SessRow
      /\ req[p].pc \in {"idle", "read"} => req[p].held = {}
      /\ Current(req[p].row) /\ Current(user)
  BY RequestFacts
<1>1. CASE StartLogin(p)
  BY <1>1, StartStep DEF StartLogin, AllOps, Words, Roles, None
<1>2. CASE StartRevoke(p)
  BY <1>2, StartStep DEF StartRevoke, AllOps, Words, None
<1>3. CASE StartRoleEdit(p)
  BY <1>3, StartStep DEF StartRoleEdit, AllOps, Words
<1>4. CASE StartMove(p)
  BY <1>4, StartStep DEF StartMove, AllOps, Words
<1>5. CASE StartDelete(p)
  BY <1>5, StartStep DEF StartDelete, AllOps, Words, Roles, None
<1>6. CASE StartTenant(p)
  BY <1>6, StartStep DEF StartTenant, AllOps, Words
<1>7. CASE RotateLock(p)
  <2>1. PICK t \in tokens :
          /\ ~Locked(p, t)
          /\ req' = [req EXCEPT ![p] = [req[p] EXCEPT !.op = "rotate", !.pc = "commit",
                                                      !.row = user, !.held = {t}]]
    BY <1>7 DEF RotateLock
  <2> DEFINE n == [req[p] EXCEPT !.op = "rotate", !.pc = "commit", !.row = user,
                                 !.held = {t}]
  <2>2. t \in SessToken
    BY DEF SessionsInv, SessionsTyped
  <2>3. n \in SessRequest /\ n.held = {t} /\ n.row = user /\ n.pc = "commit"
    BY <1>0, <2>2 DEF SessRequest, AllOps, Pcs
  <2>4. req' = [req EXCEPT ![p] = n]
    BY <2>1
  <2> HIDE DEF n
  <2>5. UNCHANGED <<user, tokens, used, jwts, ended, staleRole>>
    BY <1>7 DEF RotateLock
  <2> QED
    BY <1>0, <2>1, <2>3, <2>4, <2>5, LockStep
<1>8. CASE Logout(p)
  <2>1. PICK t \in tokens : ~Locked(p, t) /\ DeleteTokens({t})
    BY <1>8 DEF Logout
  <2>2. /\ req[p].held = {} /\ UNCHANGED <<req, user, used, jwts, staleRole>>
    BY <1>0, <1>8 DEF Logout
  <2>3. req' = [req EXCEPT ![p] = req[p]]
    BY <2>2 DEF SessionsInv, SessionsTyped
  <2>4. PICK n \in SessRequest : n = req[p]
    BY <1>0
  <2>5. PICK dead \in SUBSET tokens : dead = {t}
    BY <2>1
  <2>6. /\ tokens' = tokens \ dead /\ ended' = ended \cup {u.fam : u \in dead}
        /\ \A u \in dead : ~Locked(p, u)
    BY <2>1, <2>5 DEF DeleteTokens
  <2>7. \A x : Current(x) => Current(x)'
    BY <2>2 DEF Current
  <2>8. jwts' \subseteq SessClaims /\ user' \in SessRow
    BY <2>2 DEF SessionsInv, SessionsTyped
  <2> QED
    BY <1>0, <2>2, <2>3, <2>4, <2>6, <2>7, <2>8, EndStep
<1>9. CASE VerifyMiss(p)
  <2> DEFINE n == [req[p] EXCEPT !.op = "verify", !.pc = "fill", !.row = user]
  <2>1. n \in SessRequest /\ n.held = req[p].held /\ n.row = user
    BY <1>0 DEF SessRequest, AllOps, Pcs
  <2>2. /\ req' = [req EXCEPT ![p] = n] /\ req[p].held = {}
        /\ UNCHANGED <<user, tokens, used, jwts, ended, staleRole>>
    BY <1>0, <1>9 DEF VerifyMiss
  <2> HIDE DEF n
  <2> QED
    BY <1>0, <2>1, <2>2, LockStep
<1>10. CASE TenantMiss(p)
  <2>1. PICK t \in Tenants :
          req' = [req EXCEPT ![p] = [req[p] EXCEPT !.op = "tenant", !.pc = "fill", !.arg = t]]
    BY <1>10 DEF TenantMiss
  <2> DEFINE n == [req[p] EXCEPT !.op = "tenant", !.pc = "fill", !.arg = t]
  <2>2. n \in SessRequest /\ n.held = req[p].held /\ n.row = req[p].row
    BY <1>0 DEF SessRequest, AllOps, Pcs, Words
  <2>3. req' = [req EXCEPT ![p] = n]
    BY <2>1
  <2> HIDE DEF n
  <2>4. req[p].held = {} /\ UNCHANGED <<user, tokens, used, jwts, ended, staleRole>>
    BY <1>0, <1>10 DEF TenantMiss
  <2> QED
    BY <1>0, <2>2, <2>3, <2>4, LockStep
<1> QED
  BY <1>1, <1>2, <1>3, <1>4, <1>5, <1>6, <1>7, <1>8, <1>9, <1>10 DEF Arrive

-----------------------------------------------------------------------------
(* Logins and rotations, which insert a token.                             *)

\* New tokens take the hash that was not used before; their chains are new or
\* those of the tokens they replace.
LEMMA InsertStep ==
    ASSUME SessionsInv, NEW p \in Procs, Finish(p, "idle"),
           NEW new \in SUBSET SessToken, tokens' = (tokens \ req[p].held) \cup new,
           used' = used + 1, ended \subseteq ended',
           ended' \subseteq Nat, \A f \in ended' : f <= used,
           \A t \in new : t.fam <= used + 1 /\ t.fam \notin ended',
           \A t \in tokens \ req[p].held : t.fam \notin ended',
           \A t, u \in new : t.fam = u.fam => t = u,
           \A t \in new, u \in tokens \ req[p].held : t.fam # u.fam,
           UNCHANGED <<user, staleRole>>,
           jwts' = jwts \cup {ClaimsOf(req[p].row)}
    PROVE  SessionsInv'
<1>1. PICK n \in SessRequest : /\ req' = [req EXCEPT ![p] = n]
                               /\ n.held = {} /\ Current(n.row)
  BY FinishShape DEF Pcs
<1>2. /\ req' \in [Procs -> SessRequest] /\ req'[p] = n
      /\ \A q \in Procs : q # p => req'[q] = req[q]
  BY <1>1, OneRequestMoves
<1>3. SessionsTyped'
  <2>1. ClaimsOf(req[p].row) \in SessClaims
    BY RequestFacts, ClaimsShape
  <2> QED
    BY <1>2, <2>1 DEF SessionsInv, SessionsTyped
<1>4. \A q \in Procs : q # p => req[q].held \subseteq tokens'
  BY DEF SessionsInv, LocksHold
<1>5. LocksHold'
  BY <1>1, <1>2, <1>4 DEF SessionsInv, LocksHold
<1>6. HashesAreFresh'
  BY DEF SessionsInv, SessionsTyped, HashesAreFresh, SessToken
<1>7. TokenChainsHold'
  BY DEF SessionsInv, TokenChainsHold, FamilyNeverForks, RevokedFamilyStaysDead
<1>8. \A x : Current(x)' <=> Current(x)
  BY DEF Current
<1>9. Current(ClaimsOf(req[p].row))
  BY RequestFacts, ClaimsShape DEF Current
<1>10. ReadsAreCurrent'
  BY <1>1, <1>2, <1>8, <1>9 DEF SessionsInv, ReadsAreCurrent, FirstRow
<1> QED
  BY <1>3, <1>5, <1>6, <1>7, <1>10 DEF SessionsInv

LEMMA LoginCommitStep ==
    ASSUME SessionsInv, NEW p \in Procs, LoginCommit(p)
    PROVE  SessionsInv'
<1>1. Finish(p, "idle") /\ UNCHANGED <<user, staleRole>>
  BY DEF LoginCommit
<1>2. CASE user.live
  <2> DEFINE new == {[id |-> used + 1, fam |-> used + 1]}
  <2>1. /\ tokens' = (tokens \ req[p].held) \cup new
        /\ ended' = ended \cup {t.fam : t \in req[p].held}
        /\ used' = used + 1 /\ jwts' = jwts \cup {ClaimsOf(req[p].row)}
    BY <1>2 DEF LoginCommit
  <2>2. /\ used \in Nat /\ ended \subseteq Nat /\ tokens \subseteq SessToken
        /\ (\A t \in tokens : t.fam <= used) /\ \A f \in ended : f <= used
    BY DEF SessionsInv, SessionsTyped, HashesAreFresh
  <2>3. req[p].held \subseteq tokens
    BY RequestFacts
  <2>4. new \in SUBSET SessToken /\ \A t \in new : t.fam = used + 1
    BY <2>2 DEF SessToken
  <2>5. \A t, u \in new : t.fam = u.fam => t = u
    OBVIOUS
  <2> HIDE DEF new
  <2>6. ended' \subseteq Nat /\ (\A f \in ended' : f <= used) /\ ended \subseteq ended'
    BY <2>1, <2>2, <2>3 DEF SessToken
  <2>7. \A t \in new : t.fam <= used + 1 /\ t.fam \notin ended'
    BY <2>2, <2>4, <2>6
  <2>8. \A t \in tokens \ req[p].held : t.fam \notin ended'
    BY <2>1, <2>3 DEF SessionsInv, TokenChainsHold, FamilyNeverForks, RevokedFamilyStaysDead
  <2>9. \A t \in new, u \in tokens \ req[p].held : t.fam # u.fam
    BY <2>2, <2>4
  <2>10. UNCHANGED <<user, staleRole>>
    BY <1>1
  <2>11. Finish(p, "idle")
    BY <1>1
  <2> QED
    BY <2>1, <2>4, <2>5, <2>6, <2>7, <2>8, <2>9, <2>10, <2>11, InsertStep, SMTT(60)
<1>3. CASE ~user.live
  <2>1. UNCHANGED <<tokens, ended, used, jwts>>
    BY <1>3 DEF LoginCommit
  <2> QED
    BY <1>1, <2>1, LeaveStep DEF Pcs
<1> QED
  BY <1>2, <1>3

LEMMA RotateCommitStep ==
    ASSUME SessionsInv, NEW p \in Procs, RotateCommit(p)
    PROVE  SessionsInv'
<1>1. Finish(p, "idle") /\ UNCHANGED <<user, staleRole, ended>>
  BY DEF RotateCommit
<1>2. CASE tenant[req[p].row.tenant] = "active"
  <2> DEFINE new == {[id |-> used + 1, fam |-> t.fam] : t \in req[p].held}
  <2>1. /\ tokens' = (tokens \ req[p].held) \cup new
        /\ used' = used + 1 /\ jwts' = jwts \cup {ClaimsOf(req[p].row)}
    BY <1>2 DEF RotateCommit
  <2>2. /\ used \in Nat /\ ended \subseteq Nat /\ tokens \subseteq SessToken
        /\ (\A t \in tokens : t.fam <= used) /\ \A f \in ended : f <= used
    BY DEF SessionsInv, SessionsTyped, HashesAreFresh
  <2>3. req[p].held \subseteq tokens
    BY RequestFacts
  <2>4. /\ new \in SUBSET SessToken
        /\ \A t \in new : t.id = used + 1 /\ \E u \in req[p].held : t.fam = u.fam
    BY <2>2, <2>3 DEF SessToken
  <2> HIDE DEF new
  <2>5. \A t, u \in new : t.fam = u.fam => t = u
    BY <2>4 DEF SessToken
  <2>6. \A t \in new : t.fam <= used + 1 /\ t.fam \notin ended
    BY <2>2, <2>3, <2>4 DEF SessionsInv, TokenChainsHold, RevokedFamilyStaysDead, SessToken
  <2>7. \A t \in tokens : t.fam \notin ended
    BY DEF SessionsInv, TokenChainsHold, RevokedFamilyStaysDead
  <2>8. \A t \in new, u \in tokens \ req[p].held : t.fam # u.fam
    BY <2>3, <2>4 DEF SessionsInv, TokenChainsHold, FamilyNeverForks
  <2> QED
    BY <1>1, <2>1, <2>2, <2>4, <2>5, <2>6, <2>7, <2>8, InsertStep
<1>3. CASE tenant[req[p].row.tenant] # "active"
  <2>1. UNCHANGED <<tokens, used, jwts>>
    BY <1>3 DEF RotateCommit
  <2> QED
    BY <1>1, <2>1, LeaveStep DEF Pcs
<1> QED
  BY <1>2, <1>3

-----------------------------------------------------------------------------
(* The other steps of a request.                                           *)

\* A request that only moves on keeps its locks and what it read.
LEMMA GoStep ==
    ASSUME SessionsInv, NEW p \in Procs, NEW pc \in Pcs \ {"idle", "read"},
           NEW b \in BOOLEAN,
           req' = [req EXCEPT ![p] = [req[p] EXCEPT !.pc = pc, !.rowLock = b]],
           UNCHANGED <<user, tokens, used, jwts, ended, staleRole>>
    PROVE  SessionsInv'
<1> DEFINE n == [req[p] EXCEPT !.pc = pc, !.rowLock = b]
<1>1. n \in SessRequest /\ n.held = req[p].held /\ n.row = req[p].row /\ n.pc = pc
  BY RequestFacts DEF SessRequest
<1>2. req' = [req EXCEPT ![p] = n]
  OBVIOUS
<1> HIDE DEF n
<1> QED
  BY <1>1, <1>2, RequestFacts, LockStep

LEMMA EditStep ==
    ASSUME SessionsInv, NEW p \in Procs, RoleCommit(p) \/ MoveCommit(p)
    PROVE  SessionsInv'
<1>0. /\ user \in SessRow /\ req[p] \in SessRequest /\ jwts \subseteq SessClaims
      /\ UNCHANGED <<tokens, used, jwts, ended>>
  BY RequestFacts DEF SessionsInv, SessionsTyped, RoleCommit, MoveCommit
<1>1. CASE Finish(p, "idle") /\ UNCHANGED <<user, staleRole>>
  BY <1>0, <1>1, LeaveStep DEF Pcs
<1>2. CASE /\ Finish(p, AfterEdit(p)) /\ EndsSessions(p)
           /\ \/ user' = [user EXCEPT !.role = req[p].arg, !.tv = @ + Bump(p)]
              \/ user' = [user EXCEPT !.tenant = req[p].arg, !.tv = @ + Bump(p)]
  <2>1. PICK k \in Nat : k = user.tv + 1
    BY <1>0 DEF SessRow
  <2>2. \/ user' = [user EXCEPT !.role = req[p].arg, !.tv = k]
        \/ user' = [user EXCEPT !.tenant = req[p].arg, !.tv = k]
    BY <1>2, <2>1 DEF Bump
  <2>3. user' \in SessRow /\ user'.tv = user.tv + 1
    BY <1>0, <2>1, <2>2 DEF SessRow, SessRequest
  <2>4. AfterEdit(p) = "invalidate"
    BY <1>2 DEF AfterEdit
  <2> QED
    BY <1>0, <1>2, <2>3, <2>4, VersionStep, NoTokenGoes DEF Pcs
<1>3. CASE /\ Finish(p, AfterEdit(p)) /\ ~EndsSessions(p)
           /\ user' = [user EXCEPT !.role = req[p].arg, !.tv = @ + Bump(p)]
           /\ staleRole' = (staleRole \/ (Bump(p) = 0 /\ user.role # req[p].arg))
  <2>1. Bump(p) = 0 /\ AfterEdit(p) = "idle"
    BY <1>3 DEF Bump, AfterEdit
  <2>2. user' = [user EXCEPT !.role = req[p].arg]
    <3>1. user.tv + Bump(p) = user.tv
      BY <1>0, <2>1 DEF SessRow
    <3>2. user' = [user EXCEPT !.role = req[p].arg, !.tv = user.tv]
      BY <1>3, <3>1
    <3> QED
      BY <1>0, <3>2 DEF SessRow
  <2>3. user' \in SessRow /\ user'.tv = user.tv /\ user'.tenant = user.tenant
        /\ user'.role = req[p].arg /\ user'.live = user.live
    BY <1>0, <2>2 DEF SessRow, SessRequest
  <2>4. staleRole => staleRole'
    BY <1>3
  <2>5. user.role # req[p].arg => staleRole'
    BY <1>3, <2>1
  <2>6. \A x : Current(x) => Current(x)'
    BY <2>3, <2>4, <2>5 DEF Current
  <2> QED
    BY <1>0, <1>3, <2>1, <2>3, <2>6, NoTokenGoes DEF Pcs
<1>4. CASE RoleCommit(p)
  BY <1>1, <1>2, <1>3, <1>4 DEF RoleCommit
<1>5. CASE MoveCommit(p)
  <2>1. req[p].op = "move"
    BY <1>5 DEF MoveCommit, Running
  <2>2. req[p].arg # req[p].row.tenant => EndsSessions(p)
    BY <2>1 DEF EndsSessions
  <2> QED
    BY <1>1, <1>2, <1>5, <2>2 DEF MoveCommit
<1> QED
  BY <1>4, <1>5

\* token_version + 1 by logout-all, a password change or a reset.
LEMMA RevokeStep ==
    ASSUME SessionsInv, NEW p \in Procs, RevokeCommit(p) \/ PasswordCommit(p)
    PROVE  SessionsInv'
<1>0. /\ user \in SessRow /\ jwts \subseteq SessClaims /\ user.tv \in Nat
      /\ UNCHANGED <<used, staleRole>> /\ DeleteTokens(req[p].held)
  BY RequestFacts DEF SessionsInv, SessionsTyped, SessRow, RevokeCommit, PasswordCommit
<1>1. PICK k \in Nat : k = user.tv + 1
  BY <1>0
<1>2. [user EXCEPT !.tv = @ + 1] = [user EXCEPT !.tv = k]
  BY <1>1
<1>3. CASE RevokeCommit(p)
  <2>1. user' = [user EXCEPT !.tv = k] \/ user' = user
    BY <1>2, <1>3 DEF RevokeCommit
  <2>2. user' \in SessRow
    BY <1>0, <2>1 DEF SessRow
  <2>3. \A x : x.tv \in Nat /\ Current(x) => Current(x)'
    <3>1. CASE user' = user
      BY <1>0, <3>1 DEF Current
    <3>2. CASE user' = [user EXCEPT !.tv = k]
      <4>1. user'.tv = user.tv + 1
        BY <1>0, <1>1, <3>2 DEF SessRow
      <4> QED
        BY <2>2, <4>1, VersionStep
    <3> QED
      BY <2>1, <3>1, <3>2
  <2>4. Finish(p, "invalidate") /\ jwts' = jwts
    BY <1>3 DEF RevokeCommit
  <2> QED
    BY <1>0, <2>2, <2>3, <2>4, HeldTokensGo DEF Pcs
<1>4. CASE PasswordCommit(p)
  <2>1. user' = [user EXCEPT !.tv = k]
    BY <1>2, <1>4 DEF PasswordCommit
  <2>2. user' \in SessRow /\ user'.tv = user.tv + 1
    BY <1>0, <1>1, <2>1 DEF SessRow
  <2>3. PICK to \in {"requery", "invalidate"} : Finish(p, to)
    BY <1>4 DEF PasswordCommit
  <2>4. PICK u \in SessRow : u = user'
    BY <2>2
  <2>5. jwts' \subseteq jwts \cup {ClaimsOf(u)}
    BY <1>4, <2>4 DEF PasswordCommit
  <2>6. ClaimsOf(u) \in SessClaims /\ Current(ClaimsOf(u))'
    BY <2>4, ClaimsShape DEF Current, SessRow
  <2> QED
    <3>1. \A x : x.tv \in Nat /\ Current(x) => Current(x)'
      BY <2>2, VersionStep
    <3>2. jwts' \subseteq SessClaims /\ \A j \in jwts' \ jwts : Current(j)'
      BY <1>0, <2>5, <2>6
    <3> QED
      BY <1>0, <2>2, <2>3, <3>1, <3>2, HeldTokensGo DEF Pcs
<1> QED
  BY <1>3, <1>4

LEMMA DeleteStep ==
    ASSUME SessionsInv, NEW p \in Procs, DeleteUserTokens(p) \/ DeleteUser(p)
    PROVE  SessionsInv'
<1>0. /\ user \in SessRow /\ jwts \subseteq SessClaims /\ req[p] \in SessRequest
      /\ UNCHANGED <<used, staleRole, jwts>> /\ Current(req[p].row)
      /\ req[p].pc = "read" => req[p].held = {}
  BY RequestFacts DEF SessionsInv, SessionsTyped, DeleteUserTokens, DeleteUser
<1>1. CASE DeleteUserTokens(p)
  <2>1. PICK dead \in {{}, tokens} : DeleteTokens(dead)
    BY <1>1 DEF DeleteUserTokens
  <2>2. dead \in SUBSET tokens /\ (\A t \in dead : ~Locked(p, t)) /\ UNCHANGED user
    BY <1>1, <2>1 DEF DeleteUserTokens
  <2> DEFINE n == [req[p] EXCEPT !.pc = "row"]
  <2>3. n \in SessRequest /\ n.held = {} /\ n.row = req[p].row
    BY <1>0, <1>1 DEF SessRequest, Pcs, DeleteUserTokens, Running
  <2>4. req' = [req EXCEPT ![p] = n]
    BY <1>1 DEF DeleteUserTokens, Goto
  <2> HIDE DEF n
  <2>5. \A x : Current(x) => Current(x)'
    BY <1>0, <2>2 DEF Current
  <2>6. tokens' = tokens \ dead /\ ended' = ended \cup {t.fam : t \in dead}
    BY <2>1 DEF DeleteTokens
  <2> QED
    BY <1>0, <2>2, <2>3, <2>4, <2>5, <2>6, EndStep
<1>2. CASE DeleteUser(p) /\ user.live /\ DeleteMatches(p)
  <2>1. /\ user' = [user EXCEPT !.live = FALSE] /\ Finish(p, "invalidate")
        /\ DeleteTokens(tokens) /\ \A t \in tokens : ~Locked(p, t)
    BY <1>2 DEF DeleteUser
  <2>2. user' \in SessRow /\ ~user'.live /\ user'.tv = user.tv
    BY <1>0, <2>1 DEF SessRow
  <2>3. \A x : Current(x) => Current(x)'
    BY <2>2 DEF Current
  <2>4. PICK n \in SessRequest : /\ req' = [req EXCEPT ![p] = n]
                                 /\ n.held = {} /\ Current(n.row)
    BY <2>1, FinishShape DEF Pcs
  <2>5. tokens' = tokens \ tokens /\ ended' = ended \cup {t.fam : t \in tokens}
    BY <2>1 DEF DeleteTokens
  <2>6. PICK dead \in SUBSET tokens : dead = tokens
    OBVIOUS
  <2>7. /\ tokens' = tokens \ dead /\ ended' = ended \cup {t.fam : t \in dead}
        /\ \A t \in dead : ~Locked(p, t)
    BY <2>1, <2>5, <2>6
  <2> QED
    BY <1>0, <2>2, <2>3, <2>4, <2>7, EndStep
<1>3. CASE DeleteUser(p) /\ ~(user.live /\ DeleteMatches(p))
  <2>1. Finish(p, "idle") /\ UNCHANGED <<user, tokens, ended>>
    BY <1>3 DEF DeleteUser
  <2> QED
    BY <1>0, <2>1, LeaveStep DEF Pcs
<1> QED
  BY <1>1, <1>2, <1>3

LEMMA SessionStep ==
    ASSUME SessionsInv, NEW p \in Procs, Step(p)
    PROVE  SessionsInv'
<1> DEFINE Same == UNCHANGED <<user, tokens, used, jwts, ended, staleRole>>
<1>0. /\ user \in SessRow /\ jwts \subseteq SessClaims /\ req[p] \in SessRequest
      /\ Current(req[p].row) /\ Current(user) /\ req[p].row \in SessRow
  BY RequestFacts DEF SessionsInv, SessionsTyped
<1>1. CASE LoginCheck(p)
  <2>0. UNCHANGED <<user, tokens, used, ended, staleRole>>
    BY <1>1 DEF LoginCheck
  <2>1. CASE ScanTokens(p, "commit", "scan") /\ UNCHANGED jwts
    BY <2>0, <2>1, ScanStep
  <2>2. CASE Finish(p, "idle") /\ jwts' \subseteq jwts \cup {ClaimsOf(req[p].row)}
    <3>1. PICK j \in SessClaims : j = ClaimsOf(req[p].row)
      BY <1>0, ClaimsShape
    <3>2. Current(j)
      BY <1>0, <3>1, ClaimsShape DEF Current
    <3>3. \A x : Current(x) => Current(x)'
      BY <2>0 DEF Current
    <3> QED
      BY <1>0, <2>0, <2>2, <3>1, <3>2, <3>3, NoTokenGoes DEF Pcs
  <2> QED
    BY <1>1, <2>1, <2>2 DEF LoginCheck
<1>2. CASE LoginCommit(p)
  BY <1>2, LoginCommitStep
<1>3. CASE RotateCommit(p)
  BY <1>3, RotateCommitStep
<1>4. CASE RevokeScan(p) \/ PasswordScan(p)
  BY <1>4, ScanStep DEF RevokeScan, PasswordScan
<1>5. CASE PasswordUpdate(p)
  <2>0. Same
    BY <1>5 DEF PasswordUpdate
  <2>1. CASE Finish(p, "idle")
    BY <2>0, <2>1, LeaveStep DEF Pcs
  <2>2. CASE req' = [req EXCEPT ![p].pc = "row", ![p].rowLock = TRUE]
    <3>1. req' = [req EXCEPT ![p] = [req[p] EXCEPT !.pc = "row", !.rowLock = TRUE]]
      BY <2>2 DEF SessionsInv, SessionsTyped
    <3> QED
      BY <2>0, <3>1, GoStep DEF Pcs
  <2> QED
    BY <1>5, <2>1, <2>2 DEF PasswordUpdate
<1>6. CASE ScanDone(p)
  <2>0. Same
    BY <1>6 DEF ScanDone
  <2>1. PICK pc \in {"row", "commit"} : FinishScan(p, pc)
    BY <1>6 DEF ScanDone
  <2> DEFINE n == [req[p] EXCEPT !.pc = pc, !.held = req[p].snap \cap tokens]
  <2>2. n \in SessRequest /\ n.held = req[p].snap \cap tokens /\ n.row = req[p].row
        /\ n.pc = pc
    BY <1>0 DEF SessRequest, Pcs
  <2>3. req' = [req EXCEPT ![p] = n]
    BY <2>1 DEF FinishScan, SessionsInv, SessionsTyped
  <2>4. \A t \in req[p].snap \cap tokens : ~Locked(p, t)
    BY <2>1 DEF FinishScan
  <2> HIDE DEF n
  <2> QED
    BY <1>0, <2>0, <2>1, <2>2, <2>3, <2>4, LockStep
<1>7. CASE RevokeCommit(p) \/ PasswordCommit(p)
  BY <1>7, RevokeStep
<1>8. CASE ChangeRequery(p)
  <2>0. UNCHANGED <<user, tokens, used, ended, staleRole>>
    BY <1>8 DEF ChangeRequery
  <2>1. PICK to \in {"invalidate", "idle"} : Finish(p, to)
    BY <1>8 DEF ChangeRequery
  <2>2. PICK j \in SessClaims : j = ClaimsOf(user)
    BY <1>0, ClaimsShape
  <2>3. jwts' \subseteq jwts \cup {j}
    BY <1>8, <2>2 DEF ChangeRequery
  <2>4. Current(j)
    BY <1>0, <2>2, ClaimsShape DEF Current
  <2>5. \A x : Current(x) => Current(x)'
    BY <2>0 DEF Current
  <2> QED
    BY <1>0, <2>0, <2>1, <2>3, <2>4, <2>5, NoTokenGoes DEF Pcs
<1>9. CASE RoleCommit(p) \/ MoveCommit(p)
  BY <1>9, EditStep
<1>10. CASE DeleteUserTokens(p) \/ DeleteUser(p)
  BY <1>10, DeleteStep
<1>11. CASE Invalidate(p) \/ VerifyFill(p) \/ TenantInvalidate(p) \/ TenantFill(p)
            \/ AbortDeadlock(p)
  <2>1. Finish(p, "idle") /\ Same
    BY <1>11 DEF Invalidate, VerifyFill, TenantInvalidate, TenantFill, AbortDeadlock
  <2> QED
    BY <2>1, LeaveStep DEF Pcs
<1>12. CASE TenantWrite(p)
  <2>1. Same /\ (Finish(p, "idle") \/ Goto(p, "invalidate"))
    BY <1>12 DEF TenantWrite
  <2>2. CASE Goto(p, "invalidate")
    <3>1. req' = [req EXCEPT ![p] = [req[p] EXCEPT !.pc = "invalidate",
                                                   !.rowLock = req[p].rowLock]]
      BY <1>0, <2>2 DEF Goto, SessRequest
    <3>2. req[p].rowLock \in BOOLEAN
      BY <1>0 DEF SessRequest
    <3> QED
      BY <2>1, <3>1, <3>2, GoStep DEF Pcs
  <2> QED
    BY <2>1, <2>2, LeaveStep DEF Pcs
<1> QED
  BY <1>1, <1>2, <1>3, <1>4, <1>5, <1>6, <1>7, <1>8, <1>9, <1>10, <1>11, <1>12 DEF Step

LEMMA SessionsNextInv == SessionsInv /\ [SessionsNext]_sessionVars => SessionsInv'
<1> SUFFICES ASSUME SessionsInv, [SessionsNext]_sessionVars PROVE SessionsInv'
  OBVIOUS
<1>1. CASE \E p \in Procs : Arrive(p) \/ Step(p)
  BY <1>1, ArriveStep, SessionStep
<1>2. CASE \E p \in Procs : Fail(p)
  BY <1>2, LeaveStep DEF Fail, Pcs
<1>3. CASE ExpireVersion \/ ExpireActive \/ UNCHANGED sessionVars
  <2>1. UNCHANGED <<user, tokens, used, jwts, ended, staleRole, req>>
    BY <1>3 DEF ExpireVersion, ExpireActive, sessionVars
  <2>2. SessionsTyped' /\ LocksHold' /\ HashesAreFresh'
    BY <2>1 DEF SessionsInv, SessionsTyped, LocksHold, HashesAreFresh
  <2>3. TokenChainsHold'
    BY <2>1 DEF SessionsInv, TokenChainsHold, FamilyNeverForks, RevokedFamilyStaysDead
  <2>4. \A x : Current(x)' <=> Current(x)
    BY <2>1 DEF Current
  <2>5. ReadsAreCurrent'
    BY <2>1, <2>4 DEF SessionsInv, ReadsAreCurrent, FirstRow
  <2> QED
    BY <2>2, <2>3, <2>5 DEF SessionsInv
<1> QED
  BY <1>1, <1>2, <1>3 DEF SessionsNext

\* For any number of concurrent requests, tenants and logins: a chain of
\* refresh tokens never forks and never comes back after it was ended, and the
\* role and the tenant of a JWT whose version is current are those of the
\* users row, but for the role edit that staleRole records (auth.rs, user.rs).
THEOREM SessionsAreSound == SessionsSpec => []SessionsHold
<1>1. SessionsInv => SessionsHold
  BY DEF SessionsInv, SessionsHold, ReadsAreCurrent, Current, ClaimsAreCurrent
<1> QED
  BY <1>1, SessionsInitInv, SessionsNextInv, PTL DEF SessionsSpec

-----------------------------------------------------------------------------
(* Mailed codes.                                                           *)

\* Every time the count of failed attempts starts again from zero, a code was
\* stored or redeemed; the comparisons of all the earlier counts and of this
\* one add up.  Before the first code nothing can be compared.
CountsAddUp ==
    /\ slot.tries <= MaxTries
    /\ issued = 0 => /\ redeemed = 0 /\ compared = 0
                     /\ slot.hash = NoCode
                     /\ \A p \in CodeProcs :
                            creq[p].pc \notin {"read", "charged", "matched"}
    /\ issued > 0 => compared <= MaxTries * (issued + redeemed - 1) + slot.tries

\* A code stored by a resend keeps the window closed for the next one.
WindowIsClosed == window <= 1 /\ (window = 1 => slot.cooling)

CodesInv == CodesTypeOK /\ CountsAddUp /\ WindowIsClosed

LEMMA CodesInitInv == CodesInit => CodesInv
<1> SUFFICES ASSUME CodesInit PROVE CodesInv
  OBVIOUS
<1>1. EmptySlot \in Slot
  BY DEF EmptySlot, Slot
<1>2. IdleCode \in CodeRequest
  BY <1>1 DEF IdleCode, CodeRequest, CodePcs
<1>3. [IdleCode EXCEPT !.pc = "created", !.register = TRUE] \in CodeRequest
  BY <1>1 DEF IdleCode, CodeRequest, CodePcs
<1>4. creq \in [CodeProcs -> CodeRequest]
  BY <1>2, <1>3 DEF CodesInit
<1>5. \A p \in CodeProcs : creq[p].pc \in {"idle", "created"}
  <2>1. IdleCode.pc = "idle"
    BY DEF IdleCode
  <2>2. [IdleCode EXCEPT !.pc = "created", !.register = TRUE].pc = "created"
    BY DEF IdleCode
  <2>3. CASE kind = "verify"
    <3>1. PICK p \in CodeProcs :
              creq = [q \in CodeProcs |->
                        IF q = p THEN [IdleCode EXCEPT !.pc = "created",
                                                       !.register = TRUE]
                        ELSE IdleCode]
      BY <2>3 DEF CodesInit
    <3> QED
      BY <2>1, <2>2, <3>1
  <2>4. CASE kind # "verify"
    BY <2>1, <2>4 DEF CodesInit
  <2> QED
    BY <2>3, <2>4
<1>6. CodesTypeOK
  <2>1. /\ kind \in Kinds /\ verified = FALSE /\ slot = EmptySlot
        /\ issued = 0 /\ redeemed = 0 /\ compared = 0 /\ window = 0
    BY DEF CodesInit
  <2>2. verified \in BOOLEAN
    BY <2>1
  <2> QED
    BY <2>1, <2>2, <1>1, <1>4, CodesAssumption DEF CodesTypeOK
<1>7. CountsAddUp
  BY <1>5, CodesAssumption DEF CodesInit, CountsAddUp, EmptySlot
<1> QED
  BY <1>6, <1>7 DEF CodesInv, WindowIsClosed, CodesInit

\* One more count of at most MaxTries.
LEMMA OneCountMore ==
    ASSUME NEW M \in Nat, NEW n \in Nat, NEW m \in Nat, n > 0,
           NEW c \in Nat, NEW t \in Nat, t <= M, c <= M * (n + m - 1) + t
    PROVE  c <= M * (n + m)
<1>1. PICK k \in Nat : k = n + m - 1
  OBVIOUS
<1>2. M * (k + 1) = M * k + M
  BY <1>1
<1>3. M * k \in Nat
  BY <1>1
<1>4. c <= M * k + M
  BY <1>1, <1>3
<1> QED
  BY <1>1, <1>2, <1>4

LEMMA CodesNextInv == CodesInv /\ [CodesNext]_codeVars => CodesInv'
<1> SUFFICES ASSUME CodesInv, [CodesNext]_codeVars PROVE CodesInv'
  OBVIOUS
<1> USE CodesAssumption
<1>a. /\ EmptySlot \in Slot /\ IdleCode \in CodeRequest
      /\ EmptySlot.tries = 0 /\ EmptySlot.hash = NoCode /\ IdleCode.pc = "idle"
  BY DEF EmptySlot, Slot, IdleCode, CodeRequest, CodePcs
<1>b. /\ kind \in Kinds /\ verified \in BOOLEAN /\ slot \in Slot
      /\ creq \in [CodeProcs -> CodeRequest]
      /\ issued \in Nat /\ issued <= MaxCodes
      /\ redeemed \in Nat /\ compared \in Nat /\ window \in Nat
      /\ slot.tries \in Nat /\ slot.tries <= MaxTries
  BY DEF CodesInv, CodesTypeOK, Slot, CountsAddUp
\* What a step leaves behind when it touches neither slot nor counters.
<1>c. ASSUME creq' \in [CodeProcs -> CodeRequest],
             issued = 0 => \A p \in CodeProcs :
                              creq'[p].pc \notin {"read", "charged", "matched"},
             verified' \in BOOLEAN,
             kind' = kind,
             UNCHANGED <<slot, issued, redeemed, compared, window>>
      PROVE  CodesInv'
  BY <1>c, <1>b DEF CodesInv, CodesTypeOK, CountsAddUp, WindowIsClosed
\* A new code: the slot and its count start again.
<1>d. ASSUME NEW p \in CodeProcs, issued < MaxCodes,
             slot' = NewCode, issued' = issued + 1,
             creq' = [creq EXCEPT ![p].pc = "send"],
             (window' = window) \/ (window' = window + 1 /\ ~slot.cooling),
             kind' = kind, UNCHANGED <<verified, redeemed, compared>>
      PROVE  CodesInv'
  <2>1. slot' \in Slot /\ slot'.tries = 0 /\ slot'.cooling = TRUE
    BY <1>d, <1>b DEF NewCode, Slot, Codes
  <2>2. creq' \in [CodeProcs -> CodeRequest]
    BY <1>d, <1>b DEF CodeRequest, CodePcs
  <2>3. CodesTypeOK'
    BY <2>1, <2>2, <1>d, <1>b DEF CodesTypeOK
  <2>4. compared <= MaxTries * (issued + redeemed)
    <3>1. CASE issued = 0
      <4>1. compared = 0 /\ redeemed = 0
        BY <3>1 DEF CodesInv, CountsAddUp
      <4> QED
        BY <3>1, <4>1, <1>b
    <3>2. CASE issued > 0
      <4>1. compared <= MaxTries * (issued + redeemed - 1) + slot.tries
        BY <3>2 DEF CodesInv, CountsAddUp
      <4> QED
        BY <3>2, <4>1, <1>b, OneCountMore
    <3> QED
      BY <3>1, <3>2, <1>b
  <2>5. issued' + redeemed' - 1 = issued + redeemed
    BY <1>d, <1>b
  <2>6. compared' <= MaxTries * (issued' + redeemed' - 1) + slot'.tries
    <3> HIDE DEF CodesInv
    <3>1. MaxTries * (issued + redeemed) \in Nat
      BY <1>b
    <3> QED
      BY <2>4, <2>5, <2>1, <1>d, <1>b, <3>1
  <2>7. CountsAddUp'
    BY <2>1, <2>6, <1>d, <1>b DEF CountsAddUp
  <2>8. WindowIsClosed'
    BY <2>1, <1>d, <1>b DEF CodesInv, WindowIsClosed
  <2> QED
    BY <2>3, <2>7, <2>8 DEF CodesInv
\* A success: the slot is empty and its count starts again.
<1>e. ASSUME NEW p \in CodeProcs, At(p, "matched"), Redeemed, Answer(p),
             verified' \in BOOLEAN, kind' = kind, UNCHANGED <<issued, compared>>
      PROVE  CodesInv'
  <2>1. creq' \in [CodeProcs -> CodeRequest]
    BY <1>e, <1>a, <1>b DEF Answer
  <2>2. CodesTypeOK'
    BY <2>1, <1>e, <1>a, <1>b DEF CodesTypeOK, Redeemed
  <2>3. issued > 0
    BY <1>e, <1>b DEF CodesInv, CountsAddUp, At
  <2>4. compared <= MaxTries * (issued + redeemed)
    <3>1. compared <= MaxTries * (issued + redeemed - 1) + slot.tries
      BY <2>3 DEF CodesInv, CountsAddUp
    <3> QED
      BY <2>3, <3>1, <1>b, OneCountMore
  <2>5. issued' + redeemed' - 1 = issued + redeemed
    BY <1>e, <1>b DEF Redeemed
  <2>6. slot'.tries = 0 /\ compared' = compared /\ window' = 0 /\ issued' = issued
    BY <1>a, <1>e DEF Redeemed
  <2>7. compared' <= MaxTries * (issued' + redeemed' - 1) + slot'.tries
    <3>1. MaxTries * (issued + redeemed) \in Nat
      BY <1>b
    <3> QED
      BY <2>4, <2>5, <2>6, <1>b, <3>1
  <2>8. CountsAddUp'
    BY <2>3, <2>6, <2>7, <1>b DEF CountsAddUp
  <2> QED
    BY <2>2, <2>6, <2>8 DEF CodesInv, WindowIsClosed
<1>1. ASSUME NEW p \in CodeProcs, Answer(p), verified' \in BOOLEAN, kind' = kind,
             UNCHANGED <<slot, issued, redeemed, compared, window>>
      PROVE  CodesInv'
  <2>1. creq' \in [CodeProcs -> CodeRequest]
    BY <1>1, <1>a, <1>b DEF Answer
  <2>2. issued = 0 => \A q \in CodeProcs :
                         creq'[q].pc \notin {"read", "charged", "matched"}
    BY <1>1, <1>a, <1>b DEF Answer, CodesInv, CountsAddUp
  <2> QED
    BY <1>1, <1>b, <1>c, <2>1, <2>2
<1>2. ASSUME NEW p \in CodeProcs, NEW pc \in {"auto", "send"},
             creq' = [creq EXCEPT ![p].pc = pc], kind' = kind,
             UNCHANGED <<verified, slot, issued, redeemed, compared, window>>
      PROVE  CodesInv'
  <2>1. creq' \in [CodeProcs -> CodeRequest]
    BY <1>2, <1>b DEF CodeRequest, CodePcs
  <2>2. issued = 0 => \A q \in CodeProcs :
                         creq'[q].pc \notin {"read", "charged", "matched"}
    BY <1>2, <1>b DEF CodesInv, CountsAddUp
  <2> QED
    BY <1>2, <1>b, <1>c, <2>1, <2>2
<1>3. ASSUME UNCHANGED codeVars PROVE CodesInv'
  BY <1>3, <1>b, <1>c DEF codeVars, CodesInv, CountsAddUp
<1>4. ASSUME NEW p \in CodeProcs, kind' = kind, RegisterStore(p) PROVE CodesInv'
  BY <1>4, <1>d DEF RegisterStore
<1>5. ASSUME NEW p \in CodeProcs, kind' = kind, RegisterSkip(p) PROVE CodesInv'
  BY <1>5, <1>1, <1>2, <1>b DEF RegisterSkip
<1>6. ASSUME NEW p \in CodeProcs, kind' = kind, Send(p) PROVE CodesInv'
  BY <1>6, <1>1, <1>2, <1>b DEF Send
<1>7. ASSUME NEW p \in CodeProcs, kind' = kind, AutoVerify(p) PROVE CodesInv'
  BY <1>7, <1>1 DEF AutoVerify
<1>8. ASSUME NEW p \in CodeProcs, kind' = kind, StoreCode(p) PROVE CodesInv'
  BY <1>8, <1>1, <1>d, <1>b DEF StoreCode, MayIssue
<1>9. ASSUME NEW p \in CodeProcs, kind' = kind, Charge(p) PROVE CodesInv'
  <2>1. CASE MayGuess(p)
    <3>1. slot' \in Slot /\ slot'.tries = slot.tries + 1 /\ slot'.tries <= MaxTries
          /\ slot'.cooling = slot.cooling
      BY <1>9, <2>1, <1>b DEF Charge, MayGuess, Slot
    <3>2. creq' \in [CodeProcs -> CodeRequest]
      BY <1>9, <2>1, <1>b DEF Charge, CodeRequest, CodePcs
    <3>3. issued > 0
      BY <1>9, <1>b DEF Charge, CodesInv, CountsAddUp, At
    <3>4. /\ compared' = compared + 1
          /\ UNCHANGED <<verified, issued, redeemed, window>>
      BY <1>9, <2>1 DEF Charge
    <3>5. compared <= MaxTries * (issued + redeemed - 1) + slot.tries
      BY <3>3 DEF CodesInv, CountsAddUp
    <3>6. MaxTries * (issued + redeemed - 1) \in Int
      BY <1>b
    <3>7. compared' <= MaxTries * (issued' + redeemed' - 1) + slot'.tries
      BY <3>1, <3>4, <3>5, <3>6, <1>b
    <3>8. CountsAddUp'
      BY <3>1, <3>3, <3>4, <3>7, <1>b DEF CountsAddUp
    <3>9. CodesTypeOK'
      BY <3>1, <3>2, <3>4, <1>9, <1>b DEF CodesTypeOK
    <3> QED
      BY <3>1, <3>4, <3>8, <3>9 DEF CodesInv, WindowIsClosed
  <2>2. CASE ~MayGuess(p)
    BY <1>9, <2>2, <1>1, <1>b DEF Charge
  <2> QED
    BY <2>1, <2>2
<1>10. ASSUME NEW p \in CodeProcs, kind' = kind, Refuse(p) PROVE CodesInv'
  BY <1>10, <1>1, <1>b DEF Refuse
<1>11. ASSUME NEW p \in CodeProcs, kind' = kind, VerifyEmail(p) PROVE CodesInv'
  BY <1>11, <1>e DEF VerifyEmail
<1>12. ASSUME NEW p \in CodeProcs, kind' = kind, ResetPassword(p) PROVE CodesInv'
  BY <1>12, <1>e, <1>1, <1>b DEF ResetPassword
<1>13. ASSUME NEW p \in CodeProcs, kind' = kind, Ask(p) PROVE CodesInv'
  <2>1. [IdleCode EXCEPT !.pc = "ask", !.seen = slot] \in CodeRequest
    BY <1>a, <1>b DEF IdleCode, CodeRequest, CodePcs
  <2>2. creq' \in [CodeProcs -> CodeRequest]
    BY <1>13, <2>1, <1>b DEF Ask
  <2>3. issued = 0 => \A q \in CodeProcs :
                         creq'[q].pc \notin {"read", "charged", "matched"}
    BY <1>13, <1>b DEF Ask, IdleCode, CodesInv, CountsAddUp
  <2> QED
    BY <1>13, <1>b, <1>c, <2>2, <2>3 DEF Ask
<1>14. ASSUME NEW p \in CodeProcs, kind' = kind, CodeRequestFails(p) PROVE CodesInv'
  BY <1>14, <1>1, <1>b DEF CodeRequestFails
<1>15. ASSUME NEW p \in CodeProcs, NEW c \in Codes \cup {NoCode}, kind' = kind,
              Present(p, c)
       PROVE  CodesInv'
  <2>1. [IdleCode EXCEPT !.pc = "read", !.code = c, !.seen = slot] \in CodeRequest
    BY <1>a, <1>b DEF IdleCode, CodeRequest, CodePcs
  <2>2. creq' \in [CodeProcs -> CodeRequest]
    BY <1>15, <2>1, <1>b DEF Present
  <2>3. issued # 0
    BY <1>15 DEF Present, CodesInv, CountsAddUp
  <2> QED
    BY <1>15, <1>b, <1>c, <2>2, <2>3 DEF Present
<1>16. ASSUME kind' = kind, CooldownEnds PROVE CodesInv'
  <2>1. slot' \in Slot /\ slot'.tries = slot.tries /\ slot'.hash = slot.hash
    BY <1>16, <1>b DEF CooldownEnds, Slot
  <2> QED
    BY <1>16, <2>1, <1>b
       DEF CooldownEnds, CodesInv, CodesTypeOK, CountsAddUp, WindowIsClosed
<1>17. ASSUME kind' = kind, CodeExpires PROVE CodesInv'
  <2>1. /\ slot' \in Slot /\ slot'.tries = slot.tries /\ slot'.hash = slot.hash
        /\ slot'.cooling = slot.cooling
    BY <1>17, <1>b DEF CodeExpires, Slot
  <2> QED
    BY <1>17, <2>1, <1>b
       DEF CodeExpires, CodesInv, CodesTypeOK, CountsAddUp, WindowIsClosed
<1> QED
  BY <1>3, <1>4, <1>5, <1>6, <1>7, <1>8, <1>9, <1>10, <1>11, <1>12, <1>13,
     <1>14, <1>15, <1>16, <1>17 DEF CodesNext

LEMMA CodesInvImplies == CodesInv => CodesAreBounded
<1> SUFFICES ASSUME CodesInv PROVE CodesAreBounded
  OBVIOUS
<1>1. /\ issued \in Nat /\ redeemed \in Nat /\ compared \in Nat
      /\ slot.tries \in Nat /\ slot.tries <= MaxTries /\ MaxTries \in Nat
  BY CodesAssumption DEF CodesInv, CodesTypeOK, Slot, CountsAddUp
<1>2. CASE issued = 0
  <2>1. compared = 0 /\ redeemed = 0
    BY <1>2 DEF CodesInv, CountsAddUp
  <2>2. compared <= MaxTries * (issued + redeemed)
    BY <1>1, <1>2, <2>1
  <2> QED
    BY <2>2 DEF CodesInv, WindowIsClosed, CodesAreBounded, GuessesAreBounded, OneCodePerWindow
<1>3. CASE issued > 0
  <2>1. compared <= MaxTries * (issued + redeemed - 1) + slot.tries
    BY <1>3 DEF CodesInv, CountsAddUp
  <2>2. compared <= MaxTries * (issued + redeemed)
    BY <1>1, <1>3, <2>1, OneCountMore
  <2> QED
    BY <2>2 DEF CodesInv, WindowIsClosed, CodesAreBounded, GuessesAreBounded, OneCodePerWindow
<1> QED
  BY <1>1, <1>2, <1>3

\* However requests overlap, at most MaxTries codes are compared per code stored
\* or success (the UPDATE of increment_failed_attempts carries the limit), and
\* at most one code is mailed in a cooldown window (the UPDATE of resend_code and
\* request_reset carries the cooldown).
THEOREM GuessesAndMailsAreLimited == CodesSpec => []CodesAreBounded
<1>1. CodesSpec => []CodesInv
  BY CodesInitInv, CodesNextInv, PTL DEF CodesSpec
<1> QED
  BY <1>1, CodesInvImplies, PTL

-----------------------------------------------------------------------------
(* Mailed codes implement OneTimeGrant.                                    *)

LEMMA ResetInit == CodesInit => ResetGrant!Init
  BY DEF CodesInit, EmptySlot, ResetGrant!Init

LEMMA ResetNext ==
    CodesInv /\ [CodesNext]_codeVars => [ResetGrant!Next]_(ResetGrant!grantVars)
<1> SUFFICES ASSUME CodesInv, [CodesNext]_codeVars
             PROVE  [ResetGrant!Next]_(ResetGrant!grantVars)
  OBVIOUS
<1> USE DEF ResetGrant!grantVars
<1>a. issued \in Nat /\ redeemed \in Nat /\ slot \in Slot
  BY DEF CodesInv, CodesTypeOK
<1>1. ASSUME kind' = kind, slot'.hash = slot.hash, UNCHANGED <<issued, redeemed>>
      PROVE  UNCHANGED ResetGrant!grantVars
  BY <1>1
<1>2. ASSUME kind' = kind, issued < MaxCodes, slot' = NewCode, issued' = issued + 1,
             UNCHANGED redeemed
      PROVE  [ResetGrant!Next]_(ResetGrant!grantVars)
  <2>1. slot'.hash # NoCode
    BY <1>2, <1>a DEF NewCode, NoCode
  <2>2. CASE kind = "reset"
    <3>1. ResetGrant!Issue("reset")
      BY <1>2, <2>1, <2>2, <1>a DEF ResetGrant!Issue
    <3> QED
      BY <3>1 DEF ResetGrant!Next
  <2>3. CASE kind # "reset"
    BY <1>2, <2>3
  <2> QED
    BY <2>2, <2>3
<1>3. ASSUME kind' = kind, kind = "reset", StillOpen, Redeemed, UNCHANGED issued
      PROVE  [ResetGrant!Next]_(ResetGrant!grantVars)
  <2>1. slot'.hash = NoCode
    BY <1>3 DEF Redeemed, EmptySlot
  <2>2. ResetGrant!Redeem("reset")
    BY <1>3, <2>1, <1>a DEF ResetGrant!Redeem, StillOpen, Redeemed
  <2> QED
    BY <2>2 DEF ResetGrant!Next
<1>4. ASSUME NEW p \in CodeProcs, kind' = kind, VerifyEmail(p)
      PROVE  UNCHANGED ResetGrant!grantVars
  BY <1>4 DEF VerifyEmail
<1>5. ASSUME NEW p \in CodeProcs, kind' = kind, ResetPassword(p)
      PROVE  [ResetGrant!Next]_(ResetGrant!grantVars)
  BY <1>5, <1>1, <1>3 DEF ResetPassword
<1>6. ASSUME NEW p \in CodeProcs, kind' = kind, Charge(p)
      PROVE  UNCHANGED ResetGrant!grantVars
  BY <1>6, <1>1, <1>a DEF Charge, Slot
<1>7. ASSUME NEW p \in CodeProcs, kind' = kind, RegisterStore(p) \/ StoreCode(p)
      PROVE  [ResetGrant!Next]_(ResetGrant!grantVars)
  BY <1>7, <1>1, <1>2 DEF RegisterStore, StoreCode
<1>8. ASSUME kind' = kind, CooldownEnds \/ CodeExpires
      PROVE  UNCHANGED ResetGrant!grantVars
  BY <1>8, <1>1, <1>a DEF CooldownEnds, CodeExpires, Slot
<1>9. ASSUME NEW p \in CodeProcs, kind' = kind,
             \/ RegisterSkip(p) \/ Send(p) \/ AutoVerify(p) \/ Refuse(p) \/ Ask(p)
             \/ CodeRequestFails(p) \/ \E c \in Codes \cup {NoCode} : Present(p, c)
      PROVE  UNCHANGED ResetGrant!grantVars
  <2>1. UNCHANGED <<slot, issued, redeemed>>
    BY <1>9 DEF RegisterSkip, Send, AutoVerify, Refuse, Ask, CodeRequestFails, Present
  <2> QED
    BY <1>9, <1>1, <2>1
<1>10. ASSUME UNCHANGED codeVars PROVE UNCHANGED ResetGrant!grantVars
  BY <1>10, <1>1 DEF codeVars
<1> QED
  BY <1>4, <1>5, <1>6, <1>7, <1>8, <1>9, <1>10 DEF CodesNext

\* Reset codes are one-time: whatever requests overlap, every password reset
\* closes a code that was open (the claim of reset_password WHERE
\* password_reset_token_hash IS NOT NULL), so none is redeemed twice.
THEOREM ResetCodesAreOneTime == CodesSpec => ResetIsOneTime
<1>1. CodesSpec => []CodesInv
  BY CodesInitInv, CodesNextInv, PTL DEF CodesSpec
<1> QED
  BY <1>1, ResetInit, ResetNext, PTL DEF CodesSpec, ResetIsOneTime, ResetGrant!Spec

-----------------------------------------------------------------------------
(* WeChat captchas implement OneTimeGrant.                                 *)

\* The functions the refinement reads, and that every request under way is
\* about a follower.
CaptchaInv ==
    /\ captcha \in [Followers -> CaptchaCodes \cup {NoCaptcha}]
    /\ codeIndex \in [CaptchaCodes -> Followers \cup {Nobody}]
    /\ given \in [Followers -> Nat] /\ accepted \in [Followers -> Nat]
    /\ wreq \in [CaptchaProcs -> WechatRequest]
    /\ \A p \in CaptchaProcs : wreq[p].pc # "idle" => wreq[p].who \in Followers

LEMMA CaptchaInitInv == CaptchaInit => CaptchaInv
  BY DEF CaptchaInit, CaptchaInv, IdleWechat, WechatRequest, WechatPcs

LEMMA CaptchaNextInv == CaptchaInv /\ [CaptchaNext]_captchaVars => CaptchaInv'
<1> SUFFICES ASSUME CaptchaInv, [CaptchaNext]_captchaVars PROVE CaptchaInv'
  OBVIOUS
<1> USE DEF CaptchaInv
<1>a. IdleWechat \in WechatRequest /\ IdleWechat.pc = "idle"
  BY DEF IdleWechat, WechatRequest, WechatPcs
\* A request ends, or goes on about the same follower.
<1>b. ASSUME NEW p \in CaptchaProcs, NEW pc \in WechatPcs, wreq[p].pc # "idle",
             Done(p) \/ GoOn(p, pc)
      PROVE  /\ wreq' \in [CaptchaProcs -> WechatRequest]
             /\ \A q \in CaptchaProcs : wreq'[q].pc # "idle" => wreq'[q].who \in Followers
  <2>1. CASE Done(p)
    BY <2>1, <1>a DEF Done
  <2>2. CASE GoOn(p, pc)
    BY <2>2, <1>b DEF GoOn, WechatRequest
  <2> QED
    BY <1>b, <2>1, <2>2
<1>1. ASSUME NEW p \in CaptchaProcs, NEW f \in Followers, NEW c \in CaptchaCodes,
             GenerateStore(p, f, c)
      PROVE  CaptchaInv'
  <2>1. /\ captcha' = [captcha EXCEPT ![f] = c]
        /\ given' = [given EXCEPT ![f] = @ + 1]
        /\ wreq' = [wreq EXCEPT ![p] = [pc |-> "stored", who |-> f, code |-> c]]
        /\ UNCHANGED <<codeIndex, accepted>>
    BY <1>1 DEF GenerateStore
  <2>2. [pc |-> "stored", who |-> f, code |-> c] \in WechatRequest
    BY DEF WechatRequest, WechatPcs
  <2> QED
    BY <2>1, <2>2
<1>2. ASSUME NEW p \in CaptchaProcs, GenerateIndex(p) PROVE CaptchaInv'
  <2>1. wreq[p].pc # "idle" /\ "indexed" \in WechatPcs /\ GoOn(p, "indexed")
    BY <1>2 DEF GenerateIndex, InState, WechatPcs
  <2>2. codeIndex' \in [CaptchaCodes -> Followers \cup {Nobody}]
    BY <1>2, <2>1 DEF GenerateIndex
  <2> QED
    BY <1>2, <1>b, <2>1, <2>2 DEF GenerateIndex
<1>3. ASSUME NEW p \in CaptchaProcs,
             GenerateReset(p) \/ Pass(p) \/ DropCount(p) \/ RedisFails(p)
      PROVE  CaptchaInv'
  <2>1. wreq[p].pc # "idle" /\ Done(p) /\ UNCHANGED <<captcha, codeIndex, given, accepted>>
    BY <1>3 DEF GenerateReset, Pass, DropCount, RedisFails, InState
  <2> QED
    BY <1>b, <2>1 DEF WechatPcs
<1>4. ASSUME NEW p \in CaptchaProcs, NEW c \in CaptchaCodes, LookUp(p, c)
      PROVE  CaptchaInv'
  <2>1. [pc |-> "peek", who |-> codeIndex[c], code |-> c] \in WechatRequest
    BY DEF WechatRequest, WechatPcs
  <2>2. codeIndex[c] \in Followers
    BY <1>4 DEF LookUp
  <2> QED
    BY <1>4, <2>1, <2>2 DEF LookUp
<1>5. ASSUME NEW p \in CaptchaProcs, Peek(p) \/ CountAttempt(p) PROVE CaptchaInv'
  <2>1. /\ wreq[p].pc # "idle" /\ UNCHANGED <<captcha, codeIndex, given, accepted>>
        /\ \E pc \in WechatPcs : Done(p) \/ GoOn(p, pc)
    BY <1>5 DEF Peek, CountAttempt, InState, WechatPcs
  <2> QED
    BY <1>b, <2>1
<1>6. ASSUME NEW p \in CaptchaProcs, Consume(p) PROVE CaptchaInv'
  <2>1. wreq[p].pc # "idle" /\ "passed" \in WechatPcs /\ (Done(p) \/ GoOn(p, "passed"))
    BY <1>6 DEF Consume, InState, WechatPcs
  <2>2. /\ captcha' \in [Followers -> CaptchaCodes \cup {NoCaptcha}]
        /\ codeIndex' \in [CaptchaCodes -> Followers \cup {Nobody}]
        /\ accepted' \in [Followers -> Nat] /\ given' = given
    BY <1>6 DEF Consume
  <2> QED
    BY <1>b, <2>1, <2>2
<1>7. ASSUME NEW p \in CaptchaProcs, DropPeek(p) PROVE CaptchaInv'
  <2> DEFINE r == [wreq[p] EXCEPT !.code = captcha[wreq[p].who],
                     !.pc = IF captcha[wreq[p].who] = NoCaptcha THEN "dropMain"
                            ELSE "dropIndex"]
  <2>1. wreq[p].who \in Followers
    BY <1>7 DEF DropPeek, InState
  <2>2. r \in WechatRequest /\ r.who = wreq[p].who
    BY <2>1 DEF WechatRequest, WechatPcs
  <2>3. wreq' = [wreq EXCEPT ![p] = r] /\ UNCHANGED <<captcha, codeIndex, given, accepted>>
    BY <1>7 DEF DropPeek
  <2> QED
    BY <2>1, <2>2, <2>3
<1>8. ASSUME NEW p \in CaptchaProcs, DropIndex(p) PROVE CaptchaInv'
  <2>1. wreq[p].pc # "idle" /\ "dropMain" \in WechatPcs /\ GoOn(p, "dropMain")
    BY <1>8 DEF DropIndex, InState, WechatPcs
  <2>2. codeIndex' \in [CaptchaCodes -> Followers \cup {Nobody}]
    BY <1>8 DEF DropIndex
  <2> QED
    BY <1>8, <1>b, <2>1, <2>2 DEF DropIndex
<1>9. ASSUME NEW p \in CaptchaProcs, DropMain(p) PROVE CaptchaInv'
  <2>1. wreq[p].pc # "idle" /\ "dropCount" \in WechatPcs /\ GoOn(p, "dropCount")
    BY <1>9 DEF DropMain, InState, WechatPcs
  <2>2. captcha' \in [Followers -> CaptchaCodes \cup {NoCaptcha}]
    BY <1>9 DEF DropMain
  <2> QED
    BY <1>9, <1>b, <2>1, <2>2 DEF DropMain
<1>10. ASSUME NEW f \in Followers, CaptchaExpires(f) \/ CountExpires(f) PROVE CaptchaInv'
  BY <1>10 DEF CaptchaExpires, CountExpires
<1>11. ASSUME NEW c \in CaptchaCodes, IndexExpires(c) PROVE CaptchaInv'
  BY <1>11 DEF IndexExpires
<1>12. ASSUME UNCHANGED captchaVars PROVE CaptchaInv'
  BY <1>12 DEF captchaVars
<1> QED
  BY <1>1, <1>2, <1>3, <1>4, <1>5, <1>6, <1>7, <1>8, <1>9, <1>10, <1>11, <1>12
     DEF CaptchaNext

LEMMA CaptchaInitGrant == CaptchaInit => CaptchaGrant!Init
  BY DEF CaptchaInit, CaptchaGrant!Init

LEMMA CaptchaNextGrant ==
    CaptchaInv /\ [CaptchaNext]_captchaVars
        => [CaptchaGrant!Next]_(CaptchaGrant!grantVars)
<1> SUFFICES ASSUME CaptchaInv, [CaptchaNext]_captchaVars
             PROVE  [CaptchaGrant!Next]_(CaptchaGrant!grantVars)
  OBVIOUS
<1> USE DEF CaptchaGrant!grantVars
\* Losing the captcha of f without a login: a lapse, or nothing.
<1>a. ASSUME NEW f \in Followers, captcha' = [captcha EXCEPT ![f] = NoCaptcha],
             UNCHANGED <<given, accepted>>
      PROVE  [CaptchaGrant!Next]_(CaptchaGrant!grantVars)
  <2>1. CASE captcha[f] = NoCaptcha
    BY <1>a, <2>1 DEF CaptchaInv
  <2>2. CASE captcha[f] # NoCaptcha
    <3>1. CaptchaGrant!Lapse(f)
      BY <1>a, <2>2 DEF CaptchaInv, CaptchaGrant!Lapse
    <3> QED
      BY <3>1 DEF CaptchaGrant!Next
  <2> QED
    BY <2>1, <2>2
<1>b. ASSUME UNCHANGED <<captcha, given, accepted>>
      PROVE  UNCHANGED CaptchaGrant!grantVars
  BY <1>b
<1>1. ASSUME NEW p \in CaptchaProcs, NEW f \in Followers, NEW c \in CaptchaCodes,
             GenerateStore(p, f, c)
      PROVE  [CaptchaGrant!Next]_(CaptchaGrant!grantVars)
  <2>1. /\ captcha' = [captcha EXCEPT ![f] = c]
        /\ given' = [given EXCEPT ![f] = @ + 1]
        /\ UNCHANGED accepted
    BY <1>1 DEF GenerateStore
  <2>2. CaptchaGrant!Issue(f)
    BY <2>1, CaptchaAssumption DEF CaptchaInv, CaptchaGrant!Issue
  <2> QED
    BY <2>2 DEF CaptchaGrant!Next
<1>2. ASSUME NEW p \in CaptchaProcs, Consume(p)
      PROVE  [CaptchaGrant!Next]_(CaptchaGrant!grantVars)
  <2>1. wreq[p].who \in Followers
    BY <1>2 DEF Consume, InState, CaptchaInv
  <2>2. CASE Claimed(wreq[p].who)
    <3>1. PICK f \in Followers : f = wreq[p].who
      BY <2>1
    <3>2. /\ captcha[f] # NoCaptcha
          /\ captcha' = [captcha EXCEPT ![f] = NoCaptcha]
          /\ accepted' = [accepted EXCEPT ![f] = @ + 1]
          /\ given' = given
      BY <1>2, <2>2, <3>1 DEF Consume, Claimed
    <3>3. CaptchaGrant!Redeem(f)
      BY <3>2 DEF CaptchaInv, CaptchaGrant!Redeem
    <3> QED
      BY <3>3 DEF CaptchaGrant!Next
  <2>3. CASE ~Claimed(wreq[p].who)
    BY <1>2, <2>3, <1>b DEF Consume
  <2> QED
    BY <2>2, <2>3
<1>3. ASSUME NEW p \in CaptchaProcs, DropMain(p)
      PROVE  [CaptchaGrant!Next]_(CaptchaGrant!grantVars)
  <2>1. wreq[p].who \in Followers
    BY <1>3 DEF DropMain, InState, CaptchaInv
  <2> QED
    BY <1>3, <1>a, <2>1 DEF DropMain
<1>4. ASSUME NEW f \in Followers, CaptchaExpires(f)
      PROVE  [CaptchaGrant!Next]_(CaptchaGrant!grantVars)
  BY <1>4, <1>a DEF CaptchaExpires
<1>5. ASSUME NEW p \in CaptchaProcs,
             \/ GenerateIndex(p) \/ GenerateReset(p) \/ Peek(p) \/ CountAttempt(p)
             \/ Pass(p) \/ DropPeek(p) \/ DropIndex(p) \/ DropCount(p) \/ RedisFails(p)
             \/ \E c \in CaptchaCodes : LookUp(p, c)
      PROVE  UNCHANGED CaptchaGrant!grantVars
  <2>1. UNCHANGED <<captcha, given, accepted>>
    BY <1>5 DEF GenerateIndex, GenerateReset, Peek, CountAttempt, Pass, DropPeek,
                DropIndex, DropCount, RedisFails, LookUp
  <2> QED
    BY <1>b, <2>1
<1>6. ASSUME \/ \E f \in Followers : CountExpires(f)
             \/ \E c \in CaptchaCodes : IndexExpires(c)
             \/ UNCHANGED captchaVars
      PROVE  UNCHANGED CaptchaGrant!grantVars
  BY <1>6, <1>b DEF CountExpires, IndexExpires, captchaVars
<1> QED
  BY <1>1, <1>2, <1>3, <1>4, <1>5, <1>6 DEF CaptchaNext

\* Captchas are one-time: every login that passes the second factor closes a
\* captcha that was open (the Lua script of consume_captcha), however lookups,
\* replacements and expiries of the three keys interleave.
THEOREM CaptchasAreOneTime == CaptchaSpec => CaptchaIsOneTime
<1>1. CaptchaSpec => []CaptchaInv
  BY CaptchaInitInv, CaptchaNextInv, PTL DEF CaptchaSpec
<1> QED
  BY <1>1, CaptchaInitGrant, CaptchaNextGrant, PTL
     DEF CaptchaSpec, CaptchaIsOneTime, CaptchaGrant!Spec

-----------------------------------------------------------------------------
(* A streaming response: where the texts are.                              *)

TextPlaces(q) == {i \in 1..Len(q) : q[i] = "text"}
TextsIn(q) == Cardinality(TextPlaces(q))
IsText(e) == IF e = "text" THEN 1 ELSE 0

LEMMA TextsAreCounted ==
    ASSUME NEW S, NEW q \in Seq(S)
    PROVE  IsFiniteSet(TextPlaces(q)) /\ TextsIn(q) \in Nat
<1>1. TextPlaces(q) \subseteq 1..Len(q) /\ IsFiniteSet(1..Len(q))
  BY FS_Interval DEF TextPlaces
<1>2. IsFiniteSet(TextPlaces(q))
  BY <1>1, FS_Subset
<1> QED
  BY <1>2, FS_CardinalityType DEF TextsIn

LEMMA NoTexts == TextsIn(<<>>) = 0
<1>1. TextPlaces(<<>>) = {}
  BY DEF TextPlaces
<1> QED
  BY <1>1, FS_EmptySet DEF TextsIn

LEMMA TextsAppend ==
    ASSUME NEW S, NEW q \in Seq(S), NEW e \in S
    PROVE  TextsIn(Append(q, e)) = TextsIn(q) + IsText(e)
<1> DEFINE P == TextPlaces(q)
           r == Append(q, e)
           n == Len(q) + 1
<1>1. /\ Len(r) = n /\ n \in Nat /\ r[n] = e /\ \A i \in 1..Len(q) : r[i] = q[i]
      /\ 1..n = 1..Len(q) \cup {n} /\ n \notin 1..Len(q)
  OBVIOUS
<1>2. P \subseteq 1..Len(q) /\ IsFiniteSet(P) /\ TextsIn(q) \in Nat
  BY TextsAreCounted DEF TextPlaces
<1>3. TextPlaces(r) = IF e = "text" THEN P \cup {n} ELSE P
  BY <1>1 DEF TextPlaces
<1> HIDE DEF P, r, n
<1>4. CASE e = "text"
  <2>1. Cardinality(P \cup {n}) = Cardinality(P) + 1
    BY <1>1, <1>2, FS_AddElement
  <2> QED
    BY <1>3, <1>4, <2>1 DEF TextsIn, IsText, P, r
<1>5. CASE e # "text"
  <2>1. TextsIn(r) = TextsIn(q)
    BY <1>3, <1>5 DEF TextsIn, P
  <2> QED
    BY <1>2, <1>5, <2>1 DEF IsText, r
<1> QED
  BY <1>4, <1>5

LEMMA TailShape ==
    ASSUME NEW S, NEW q \in Seq(S), q # <<>>
    PROVE  /\ Tail(q) \in Seq(S) /\ Head(q) \in S /\ Head(q) = q[1] /\ Len(q) \in Nat /\ Len(q) > 0
           /\ Len(Tail(q)) = Len(q) - 1 /\ Len(q) - 1 \in Nat /\ 1 \in 1..Len(q)
           /\ \A i \in 1..Len(q) - 1 : Tail(q)[i] = q[i + 1] /\ i + 1 \in 1..Len(q)
OBVIOUS

LEMMA TextsTail ==
    ASSUME NEW S, NEW q \in Seq(S), q # <<>>
    PROVE  TextsIn(q) = IsText(Head(q)) + TextsIn(Tail(q))
<1> DEFINE r == Tail(q)
           n == Len(q) - 1
           P == TextPlaces(q)
           R == TextPlaces(r)
           Q == P \ {1}
<1>1. /\ r \in Seq(S) /\ Head(q) = q[1] /\ Len(r) = n /\ n \in Nat /\ Len(q) = n + 1
      /\ \A i \in 1..n : r[i] = q[i + 1]
  BY TailShape
<1>2. IsFiniteSet(P) /\ IsFiniteSet(R) /\ TextsIn(r) \in Nat /\ TextsIn(q) \in Nat
  BY <1>1, TextsAreCounted
<1> DEFINE f == [i \in R |-> i + 1]
<1>3. f \in Bijection(R, Q)
  <2>1. \A i : i \in R <=> i \in 1..n /\ q[i + 1] = "text"
    BY <1>1 DEF TextPlaces
  <2>2. \A i : i \in Q <=> i \in 1..n + 1 /\ i # 1 /\ q[i] = "text"
    BY <1>1 DEF TextPlaces
  <2> HIDE DEF R, Q, r, n
  <2>3. \A i \in R : i \in Nat /\ i + 1 \in Q
    BY <2>1, <2>2, <1>1
  <2>4. f \in [R -> Q]
    BY <2>3
  <2>5. \A i, j \in R : f[i] = f[j] => i = j
    BY <2>3
  <2>6. \A j \in Q : \E i \in R : f[i] = j
    <3> SUFFICES ASSUME NEW j \in Q PROVE \E i \in R : f[i] = j
      OBVIOUS
    <3>1. j \in 1..n + 1 /\ j # 1 /\ q[j] = "text"
      BY <2>2
    <3>2. j - 1 \in 1..n /\ (j - 1) + 1 = j
      BY <3>1, <1>1
    <3>3. j - 1 \in R
      BY <3>1, <3>2, <2>1
    <3> QED
      BY <3>2, <3>3
  <2> QED
    BY <2>4, <2>5, <2>6, Fun_IsBij
<1> HIDE DEF f
<1>4. Cardinality(Q) = Cardinality(R)
  BY <1>2, <1>3, FS_Bijection, Fun_ExistsBijSymmetric DEF ExistsBijection
<1>5. CASE q[1] = "text"
  <2>1. 1 \in P
    BY <1>5, <1>1 DEF TextPlaces
  <2> HIDE DEF P
  <2>2. Cardinality(Q) = Cardinality(P) - 1
    BY <1>2, <2>1, FS_RemoveElement
  <2> QED
    BY <1>1, <1>2, <1>4, <1>5, <2>2 DEF TextsIn, IsText, P
<1>6. CASE q[1] # "text"
  <2>1. Q = P
    BY <1>6 DEF TextPlaces
  <2>2. TextsIn(q) = TextsIn(r)
    BY <1>4, <2>1 DEF TextsIn
  <2>3. IsText(Head(q)) = 0
    BY <1>1, <1>6 DEF IsText
  <2> HIDE DEF r
  <2> QED
    BY <1>2, <2>2, <2>3 DEF r
<1> QED
  BY <1>5, <1>6

-----------------------------------------------------------------------------
(* A streaming response: what is read as completed is whole.               *)

UpEvents == {"text", "stop", "cut", "quiet", "odd", "done", "err"}
Final == {"completed", "incomplete", "failed"}
ClientEvents == {"frame", "text", "keepalive", "error"} \cup Final

StreamShape ==
    /\ upQ \in Seq(UpEvents) /\ sseQ \in Seq(ClientEvents) /\ gone \in BOOLEAN
    /\ upItem \in UpEvents \cup {"none"} /\ trItem \in {"none", "text", "keepalive"}
    /\ seen \in [texts : Nat, error : BOOLEAN, status : Final \cup {"none"}]
    /\ fed \in [events : Nat, texts : Nat]
    /\ term \in [saw_done : BOOLEAN, finish_reason : {"none", "stop", "cut"}]
    /\ IF up = "send" THEN upItem # "none" ELSE upItem = "none"
    /\ IF tr = "deliver" THEN trItem # "none" ELSE trItem = "none"

\* The provider's marker is the last thing that is handed on, and the
\* translator reads nothing after it.
MarkerSent == up \in {"breaker", "ended"} /\ outcome = "completed"
MarkerIsLast ==
    /\ \A i \in 1..Len(upQ) : upQ[i] = "done" => i = Len(upQ) /\ MarkerSent
    /\ term.saw_done => upQ = <<>> /\ MarkerSent /\ tr \in {"closing", "meter", "ended"}

\* Until the translator stops or the client leaves, a text that was sent has
\* been read or is on its way.
NoTextIsLost ==
    /\ gone => sseQ = <<>>
    /\ tr \in {"opening", "loop", "deliver", "closing"} /\ ~gone =>
          seen.texts + TextsIn(sseQ) + IsText(trItem) + TextsIn(upQ) + IsText(upItem) = fed.texts

\* Nothing follows the terminal event, and an error excludes it.
EndIsLast ==
    /\ tr \notin {"meter", "ended"} =>
          /\ seen.status = "none" /\ seen.error = FALSE
          /\ \A i \in 1..Len(sseQ) : sseQ[i] \notin Final \cup {"error"}
    /\ seen.status # "none" => sseQ = <<>>
    /\ \A i \in 1..Len(sseQ) : sseQ[i] \in Final => i = Len(sseQ)

Whole ==
    /\ MarkerSent /\ tr \in {"meter", "ended"} /\ term.finish_reason # "cut"
    /\ seen.texts + TextsIn(sseQ) = fed.texts
    /\ seen.error = FALSE /\ \A i \in 1..Len(sseQ) : sseQ[i] # "error"

CompletedOnWay == seen.status = "completed" \/ \E i \in 1..Len(sseQ) : sseQ[i] = "completed"

StreamInv ==
    /\ StreamShape /\ MarkerIsLast /\ NoTextIsLost /\ EndIsLast
    /\ CompletedOnWay => Whole

LEMMA StreamInitInv == StreamInit => StreamInv
<1> SUFFICES ASSUME StreamInit PROVE StreamInv
  OBVIOUS
<1> USE DEF StreamInit
<1>1. 1..Len(<<>>) = {}
  OBVIOUS
<1>2. StreamShape
  <2>1. upQ \in Seq(UpEvents) /\ sseQ \in Seq(ClientEvents)
    OBVIOUS
  <2>2. /\ seen \in [texts : Nat, error : BOOLEAN, status : Final \cup {"none"}]
        /\ fed \in [events : Nat, texts : Nat]
    OBVIOUS
  <2>3. term \in [saw_done : BOOLEAN, finish_reason : {"none", "stop", "cut"}]
    OBVIOUS
  <2> QED
    BY <2>1, <2>2, <2>3 DEF StreamShape
<1>3. MarkerIsLast
  BY <1>1 DEF MarkerIsLast
<1>4. NoTextIsLost
  BY NoTexts DEF NoTextIsLost, IsText
<1>5. EndIsLast /\ ~CompletedOnWay
  BY <1>1 DEF EndIsLast, CompletedOnWay
<1> QED
  BY <1>2, <1>3, <1>4, <1>5 DEF StreamInv

LEMMA StreamInvWhole == StreamInv => CompletedIsWhole
<1> SUFFICES ASSUME StreamInv, seen.status = "completed" PROVE CompletedIsWhole
  BY DEF CompletedIsWhole
<1>1. Whole /\ sseQ = <<>>
  BY DEF StreamInv, CompletedOnWay, EndIsLast
<1>2. seen.texts \in Nat /\ seen.texts + 0 = fed.texts
  BY <1>1, NoTexts DEF Whole, StreamInv, StreamShape
<1>3. seen.texts = fed.texts
  BY <1>2
<1> QED
  BY <1>1, <1>3 DEF Whole, MarkerSent, CompletedIsWhole

-----------------------------------------------------------------------------
(* The task that reads the provider.                                       *)

\* What it leaves alone.
LEMMA UpElsewhere ==
    ASSUME StreamInv, ElsewhereUp, up # "breaker", up # "ended"
    PROVE  /\ EndIsLast' /\ ~CompletedOnWay' /\ (gone => sseQ = <<>>)'
           /\ ~term.saw_done' /\ \A i \in 1..Len(upQ) : upQ[i] # "done"
<1>1. ~CompletedOnWay
  BY DEF StreamInv, Whole, MarkerSent
<1>2. ~CompletedOnWay'
  BY <1>1 DEF ElsewhereUp, CompletedOnWay
<1>3. EndIsLast'
  BY DEF StreamInv, EndIsLast, ElsewhereUp, trVars
<1>4. (gone => sseQ = <<>>)'
  BY DEF StreamInv, NoTextIsLost, ElsewhereUp
<1>5. ~term.saw_done' /\ \A i \in 1..Len(upQ) : upQ[i] # "done"
  BY DEF StreamInv, StreamShape, MarkerIsLast, MarkerSent, ElsewhereUp, trVars
<1> QED
  BY <1>2, <1>3, <1>4, <1>5

LEMMA UpPreserves ==
    ASSUME StreamInv, ElsewhereUp, up # "breaker", up # "ended", StreamShape',
           \A i \in 1..Len(upQ') : upQ'[i] = "done" => i = Len(upQ') /\ MarkerSent',
           RxOpen => TextsIn(upQ') + IsText(upItem') + fed.texts
                       = TextsIn(upQ) + IsText(upItem) + fed'.texts
    PROVE  StreamInv'
<1>0. /\ EndIsLast' /\ ~CompletedOnWay' /\ (gone => sseQ = <<>>)' /\ ~term.saw_done'
  BY UpElsewhere
<1>1. MarkerIsLast'
  BY <1>0 DEF MarkerIsLast
<1>2. NoTextIsLost'
  <2> SUFFICES ASSUME tr' \in {"opening", "loop", "deliver", "closing"}, ~gone'
               PROVE  (seen.texts + TextsIn(sseQ) + IsText(trItem) + TextsIn(upQ) + IsText(upItem)
                          = fed.texts)'
    BY <1>0 DEF NoTextIsLost
  <2>1. /\ RxOpen /\ seen' = seen /\ sseQ' = sseQ /\ trItem' = trItem
        /\ seen.texts + TextsIn(sseQ) + IsText(trItem) + TextsIn(upQ) + IsText(upItem) = fed.texts
    BY DEF StreamInv, NoTextIsLost, RxOpen, ElsewhereUp, trVars
  <2>2. seen.texts \in Nat /\ TextsIn(sseQ) \in Nat /\ IsText(trItem) \in Nat
    BY TextsAreCounted DEF StreamInv, StreamShape, IsText
  <2>3. /\ TextsIn(upQ) \in Nat /\ TextsIn(upQ') \in Nat /\ IsText(upItem) \in Nat
        /\ IsText(upItem') \in Nat
    BY TextsAreCounted DEF StreamInv, StreamShape, IsText
  <2>4. fed.texts \in Nat /\ fed'.texts \in Nat
    BY DEF StreamInv, StreamShape
  <2>5. seen.texts + TextsIn(sseQ) + IsText(trItem) + TextsIn(upQ') + IsText(upItem') = fed'.texts
    <3>1. TextsIn(upQ') + IsText(upItem') + fed.texts = TextsIn(upQ) + IsText(upItem) + fed'.texts
      BY <2>1
    <3>2. seen.texts + TextsIn(sseQ) + IsText(trItem) + TextsIn(upQ) + IsText(upItem) = fed.texts
      BY <2>1
    <3> DEFINE a == seen.texts
               b == TextsIn(sseQ)
               c == IsText(trItem)
               d == TextsIn(upQ)
               i == IsText(upItem)
               s == fed.texts
               dd == TextsIn(upQ')
               ii == IsText(upItem')
               ss == fed'.texts
    <3>3. /\ a \in Nat /\ b \in Nat /\ c \in Nat /\ d \in Nat /\ i \in Nat /\ s \in Nat
          /\ dd \in Nat /\ ii \in Nat /\ ss \in Nat /\ a + b + c + d + i = s /\ dd + ii + s = d + i + ss
      BY <2>2, <2>3, <2>4, <3>1, <3>2
    <3> HIDE DEF a, b, c, d, i, s, dd, ii, ss
    <3>4. a + b + c + dd + ii = ss
      BY <3>3
    <3> QED
      BY <3>4 DEF a, b, c, dd, ii, ss
  <2> QED
    BY <2>1, <2>5
<1> QED
  BY <1>0, <1>1, <1>2 DEF StreamInv

LEMMA UpShape ==
    ASSUME StreamInv, ElsewhereUp, upQ' \in Seq(UpEvents), upItem' \in UpEvents \cup {"none"},
           fed' \in [events : Nat, texts : Nat],
           IF up' = "send" THEN upItem' # "none" ELSE upItem' = "none"
    PROVE  StreamShape'
<1>1. UNCHANGED <<tr, trItem, term, sseQ, gone, seen>>
  BY DEF ElsewhereUp, trVars
<1> QED
  BY <1>1 DEF StreamInv, StreamShape

LEMMA NoticeLeavesTexts ==
    ASSUME upQ \in Seq(UpEvents), send_downstream_stream_error,
           \A i \in 1..Len(upQ) : upQ[i] # "done"
    PROVE  /\ upQ' \in Seq(UpEvents) /\ TextsIn(upQ') = TextsIn(upQ)
           /\ \A i \in 1..Len(upQ') : upQ'[i] # "done"
<1>1. CASE upQ' = upQ
  BY <1>1
<1>2. CASE upQ' = Append(upQ, "err")
  <2>1. /\ "err" \in UpEvents /\ upQ' \in Seq(UpEvents) /\ Len(upQ') = Len(upQ) + 1
        /\ upQ'[Len(upQ) + 1] = "err" /\ \A i \in 1..Len(upQ) : upQ'[i] = upQ[i]
    BY <1>2 DEF UpEvents
  <2>2. TextsIn(upQ') = TextsIn(upQ) + 0 /\ TextsIn(upQ) \in Nat
    BY <1>2, <2>1, TextsAppend, TextsAreCounted DEF IsText
  <2>3. \A i \in 1..Len(upQ') : i \in 1..Len(upQ) \/ i = Len(upQ) + 1
    BY <2>1
  <2>4. \A i \in 1..Len(upQ') : upQ'[i] # "done"
    BY <2>1, <2>3
  <2> QED
    BY <2>1, <2>2, <2>4
<1> QED
  BY <1>1, <1>2 DEF send_downstream_stream_error

\* It stops, perhaps with a notice: nothing it was handing over counts.
LEMMA UpStops ==
    ASSUME StreamInv, ElsewhereUp, up \in {"open", "read"}, up' # "send", upItem' = "none",
           fed' = fed, send_downstream_stream_error \/ upQ' = upQ
    PROVE  StreamInv'
<1>0. /\ upQ \in Seq(UpEvents) /\ upItem = "none" /\ fed \in [events : Nat, texts : Nat]
      /\ \A i \in 1..Len(upQ) : upQ[i] # "done"
  <2>1. upQ \in Seq(UpEvents) /\ upItem = "none" /\ fed \in [events : Nat, texts : Nat]
    BY DEF StreamInv, StreamShape
  <2> QED
    BY <2>1, UpElsewhere
<1>1. /\ upQ' \in Seq(UpEvents) /\ TextsIn(upQ') = TextsIn(upQ)
      /\ \A i \in 1..Len(upQ') : upQ'[i] # "done"
  BY <1>0, NoticeLeavesTexts
<1>2. StreamShape'
  BY <1>0, <1>1, UpShape
<1>3. TextsIn(upQ') + IsText(upItem') + fed.texts = TextsIn(upQ) + IsText(upItem) + fed'.texts
  BY <1>0, <1>1
<1> QED
  BY <1>1, <1>2, <1>3, UpPreserves

LEMMA UpEventHolds ==
    ASSUME StreamInv, NEW e \in Events(protocol), UpEvent(e)
    PROVE  StreamInv'
<1>0. /\ upQ \in Seq(UpEvents) /\ upItem = "none" /\ fed \in [events : Nat, texts : Nat]
      /\ up = "read" /\ ElsewhereUp /\ upQ' = upQ
  BY DEF StreamInv, StreamShape, UpEvent
<1>1. e \in UpEvents /\ e # "none"
  BY DEF Events, UpEvents
<1>2. /\ fed' = [events |-> fed.events + 1, texts |-> fed.texts + IsText(e)]
      /\ fed.texts \in Nat /\ fed.events \in Nat /\ IsText(e) \in Nat
  BY <1>0 DEF UpEvent, IsText
<1>3. fed' \in [events : Nat, texts : Nat] /\ fed'.texts = fed.texts + IsText(e)
  BY <1>2
<1>4. /\ upItem' \in UpEvents \cup {"none"} /\ IsText(upItem') = IsText(e)
      /\ IF up' = "send" THEN upItem' # "none" ELSE upItem' = "none"
  BY <1>0, <1>1 DEF UpEvent, IsText
<1>5. StreamShape'
  BY <1>0, <1>3, <1>4, UpShape
<1>6. \A i \in 1..Len(upQ') : upQ'[i] # "done"
  BY <1>0, UpElsewhere
<1>7. TextsIn(upQ') + IsText(upItem') + fed.texts = TextsIn(upQ) + IsText(upItem) + fed'.texts
  <2>1. TextsIn(upQ) \in Nat /\ TextsIn(upQ') = TextsIn(upQ) /\ IsText(upItem) = 0
    BY <1>0, TextsAreCounted DEF IsText
  <2> QED
    BY <2>1, <1>2, <1>3, <1>4
<1> QED
  BY <1>0, <1>5, <1>6, <1>7, UpPreserves

LEMMA UpSendHolds ==
    ASSUME StreamInv, UpSend
    PROVE  StreamInv'
<1>0. /\ upQ \in Seq(UpEvents) /\ upItem \in UpEvents /\ fed \in [events : Nat, texts : Nat]
      /\ up = "send" /\ ElsewhereUp /\ fed' = fed
  BY DEF StreamInv, StreamShape, UpSend
<1>n. \A i \in 1..Len(upQ) : upQ[i] # "done"
  BY <1>0, UpElsewhere
<1>1. upItem' = "none" /\ up' # "send"
  BY DEF UpSend, UpEnd
<1>2. CASE RxOpen /\ upQ' = Append(upQ, upItem)
  <2>1. /\ upQ' \in Seq(UpEvents) /\ Len(upQ') = Len(upQ) + 1
        /\ upQ'[Len(upQ) + 1] = upItem /\ \A i \in 1..Len(upQ) : upQ'[i] = upQ[i]
    BY <1>0, <1>2
  <2>2. TextsIn(upQ') = TextsIn(upQ) + IsText(upItem)
    BY <1>0, <1>2, TextsAppend
  <2>3. upItem = "done" => MarkerSent'
    BY <1>2 DEF UpSend, UpEnd, MarkerSent
  <2>4. ASSUME NEW i \in 1..Len(upQ'), upQ'[i] = "done" PROVE i = Len(upQ') /\ MarkerSent'
    <3>1. i \in 1..Len(upQ) \/ i = Len(upQ) + 1
      BY <2>1
    <3> QED
      BY <3>1, <2>1, <2>3, <2>4, <1>n
  <2>5. StreamShape'
    BY <1>0, <1>1, <2>1, UpShape
  <2>6. TextsIn(upQ') + IsText(upItem') + fed.texts = TextsIn(upQ) + IsText(upItem) + fed'.texts
    <3>1. TextsIn(upQ) \in Nat /\ IsText(upItem) \in Nat /\ IsText(upItem') = 0 /\ fed.texts \in Nat
      BY <1>0, <1>1, TextsAreCounted DEF IsText
    <3> QED
      BY <3>1, <2>2, <1>0
  <2> QED
    BY <1>0, <2>4, <2>5, <2>6, UpPreserves
<1>3. CASE ~RxOpen /\ upQ' = upQ
  <2>1. StreamShape'
    BY <1>0, <1>1, <1>3, UpShape
  <2> QED
    BY <1>0, <1>n, <1>3, <2>1, UpPreserves
<1> QED
  BY <1>2, <1>3 DEF UpSend

LEMMA UpRecordHolds ==
    ASSUME StreamInv, UpRecord
    PROVE  StreamInv'
<1>0. /\ up = "breaker" /\ up' = "ended"
      /\ UNCHANGED <<upItem, outcome, upQ, tr, trItem, term, sseQ, gone, seen, fed>>
  BY DEF UpRecord, trVars
<1>1. MarkerSent' <=> MarkerSent
  BY <1>0 DEF MarkerSent
<1>2. StreamShape' /\ NoTextIsLost' /\ EndIsLast'
  BY <1>0 DEF StreamInv, StreamShape, NoTextIsLost, EndIsLast
<1>3. MarkerIsLast'
  BY <1>0, <1>1 DEF StreamInv, MarkerIsLast
<1>4. (CompletedOnWay => Whole)'
  BY <1>0, <1>1 DEF StreamInv, CompletedOnWay, Whole
<1> QED
  BY <1>2, <1>3, <1>4 DEF StreamInv

-----------------------------------------------------------------------------
(* The translator.                                                         *)

\* What holds of it while it relays.
LEMMA Relaying ==
    ASSUME StreamInv, tr \notin {"meter", "ended"}
    PROVE  /\ ~CompletedOnWay /\ seen.status = "none" /\ seen.error = FALSE
           /\ \A i \in 1..Len(sseQ) : sseQ[i] \notin Final \cup {"error"}
           /\ upQ \in Seq(UpEvents) /\ sseQ \in Seq(ClientEvents)
           /\ seen.texts \in Nat /\ fed.texts \in Nat /\ TextsIn(sseQ) \in Nat /\ TextsIn(upQ) \in Nat
<1>1. ~CompletedOnWay
  BY DEF StreamInv, Whole
<1>2. /\ seen.status = "none" /\ seen.error = FALSE
      /\ \A i \in 1..Len(sseQ) : sseQ[i] \notin Final \cup {"error"}
  BY DEF StreamInv, EndIsLast
<1>3. /\ upQ \in Seq(UpEvents) /\ sseQ \in Seq(ClientEvents) /\ seen.texts \in Nat /\ fed.texts \in Nat
  BY DEF StreamInv, StreamShape
<1> QED
  BY <1>1, <1>2, <1>3, TextsAreCounted

\* An event that ends nothing is handed to the client.
LEMMA SentOn ==
    ASSUME StreamInv, tr \notin {"meter", "ended"}, NEW e \in ClientEvents, SendsSse(e)
    PROVE  /\ sseQ' \in Seq(ClientEvents) /\ ~gone /\ Len(sseQ') = Len(sseQ) + 1 /\ Len(sseQ) \in Nat
           /\ sseQ'[Len(sseQ) + 1] = e /\ TextsIn(sseQ') = TextsIn(sseQ) + IsText(e)
           /\ \A i \in 1..Len(sseQ') : i = Len(sseQ') \/ sseQ'[i] \notin Final \cup {"error"}
<1>0. /\ sseQ \in Seq(ClientEvents) /\ sseQ' = Append(sseQ, e) /\ ~gone
      /\ \A i \in 1..Len(sseQ) : sseQ[i] \notin Final \cup {"error"}
  BY Relaying DEF SendsSse
<1>1. /\ sseQ' \in Seq(ClientEvents) /\ Len(sseQ') = Len(sseQ) + 1 /\ Len(sseQ) \in Nat
      /\ sseQ'[Len(sseQ) + 1] = e /\ \A i \in 1..Len(sseQ) : sseQ'[i] = sseQ[i]
  BY <1>0
<1>2. TextsIn(sseQ') = TextsIn(sseQ) + IsText(e)
  BY <1>0, TextsAppend
<1>3. ASSUME NEW i \in 1..Len(sseQ') PROVE i = Len(sseQ') \/ sseQ'[i] \notin Final \cup {"error"}
  <2>1. i = Len(sseQ') \/ i \in 1..Len(sseQ)
    BY <1>1
  <2> QED
    BY <2>1, <1>0, <1>1
<1> QED
  BY <1>0, <1>1, <1>2, <1>3

\* It goes on relaying.
LEMMA RelayGoesOn ==
    ASSUME StreamInv, tr \notin {"meter", "ended"}, ElsewhereTr, tr' \notin {"meter", "ended"},
           StreamShape', MarkerIsLast',
           sseQ' = sseQ \/ \E e \in {"frame", "text", "keepalive"} : SendsSse(e),
           tr' # "error" /\ ~gone =>
               seen.texts + TextsIn(sseQ') + IsText(trItem') + TextsIn(upQ') + IsText(upItem) = fed.texts
    PROVE  StreamInv'
<1>0. UNCHANGED <<up, upItem, outcome, gone, seen, fed>>
  BY DEF ElsewhereTr, upVars
<1>1. seen.status = "none" /\ seen.error = FALSE
  BY Relaying
<1>2. /\ gone => sseQ' = <<>>
      /\ \A i \in 1..Len(sseQ') : sseQ'[i] \notin Final \cup {"error"}
  <2>1. CASE sseQ' = sseQ
    BY <2>1, Relaying DEF StreamInv, NoTextIsLost
  <2>2. ASSUME NEW e \in {"frame", "text", "keepalive"}, SendsSse(e)
        PROVE  ~gone /\ \A i \in 1..Len(sseQ') : sseQ'[i] \notin Final \cup {"error"}
    <3>0. e \in ClientEvents /\ e \notin Final \cup {"error"}
      BY DEF ClientEvents, Final
    <3>1. /\ ~gone /\ Len(sseQ') = Len(sseQ) + 1 /\ sseQ'[Len(sseQ) + 1] = e
          /\ \A i \in 1..Len(sseQ') : i = Len(sseQ') \/ sseQ'[i] \notin Final \cup {"error"}
      BY <2>2, <3>0, SentOn
    <3> QED
      BY <3>0, <3>1
  <2> QED
    BY <2>1, <2>2
<1>3. NoTextIsLost'
  BY <1>0, <1>2 DEF NoTextIsLost
<1>4. EndIsLast'
  BY <1>0, <1>1, <1>2 DEF EndIsLast
<1>5. ~CompletedOnWay'
  BY <1>0, <1>1, <1>2 DEF CompletedOnWay, Final
<1> QED
  BY <1>3, <1>4, <1>5 DEF StreamInv

\* It stops without the terminal event.
LEMMA RelayStops ==
    ASSUME StreamInv, tr \notin {"meter", "ended"}, ElsewhereTr, StopRelay, term' = term,
           sseQ' = sseQ \/ SendsSse("error")
    PROVE  StreamInv'
<1>0. /\ UNCHANGED <<up, upItem, outcome, gone, seen, fed, term>>
      /\ upQ' = <<>> /\ tr' = "meter" /\ trItem' = "none"
  BY DEF ElsewhereTr, upVars, StopRelay
<1>1. seen.status = "none" /\ seen.error = FALSE
  BY Relaying
<1>2. /\ gone => sseQ' = <<>>
      /\ \A i \in 1..Len(sseQ') : sseQ'[i] \notin Final
      /\ sseQ' \in Seq(ClientEvents)
  <2>1. CASE sseQ' = sseQ
    BY <2>1, Relaying DEF StreamInv, NoTextIsLost
  <2>2. CASE SendsSse("error")
    <3>0. "error" \in ClientEvents /\ "error" \notin Final
      BY DEF ClientEvents, Final
    <3>1. /\ ~gone /\ Len(sseQ') = Len(sseQ) + 1 /\ sseQ'[Len(sseQ) + 1] = "error"
          /\ sseQ' \in Seq(ClientEvents)
          /\ \A i \in 1..Len(sseQ') : i = Len(sseQ') \/ sseQ'[i] \notin Final \cup {"error"}
      BY <2>2, <3>0, SentOn
    <3> QED
      BY <3>0, <3>1
  <2> QED
    BY <2>1, <2>2
<1>3. StreamShape'
  BY <1>0, <1>2 DEF StreamInv, StreamShape
<1>4. MarkerIsLast'
  <2>1. MarkerSent' <=> MarkerSent
    BY <1>0 DEF MarkerSent
  <2>2. 1..Len(upQ') = {}
    BY <1>0
  <2> QED
    BY <1>0, <2>1, <2>2 DEF StreamInv, MarkerIsLast
<1>5. NoTextIsLost' /\ EndIsLast' /\ ~CompletedOnWay'
  BY <1>0, <1>1, <1>2 DEF NoTextIsLost, EndIsLast, CompletedOnWay, Final
<1> QED
  BY <1>3, <1>4, <1>5 DEF StreamInv

LEMMA ReadEvent ==
    ASSUME TrRecv
    PROVE  /\ tr' = IF Head(upQ) = "text" THEN "deliver"
                    ELSE IF Head(upQ) = "done" THEN "closing"
                    ELSE IF Head(upQ) \in {"odd", "err"} THEN "error" ELSE tr
           /\ term' = IF Head(upQ) = "done" THEN [term EXCEPT !.saw_done = TRUE]
                      ELSE IF Head(upQ) \in {"stop", "cut"} THEN [term EXCEPT !.finish_reason = Head(upQ)]
                      ELSE term
BY Zenon DEF TrRecv, observe

LEMMA TrRecvHolds ==
    ASSUME StreamInv, TrRecv
    PROVE  StreamInv'
<1> DEFINE e == Head(upQ)
<1>0. /\ tr = "loop" /\ upQ # <<>> /\ upQ' = Tail(upQ) /\ sseQ' = sseQ /\ ElsewhereTr
      /\ trItem' = IF e = "text" THEN "text" ELSE "none"
  BY DEF TrRecv
<1>u. UNCHANGED <<up, upItem, outcome, gone, seen, fed>>
  BY <1>0 DEF ElsewhereTr, upVars
<1>1. /\ upQ \in Seq(UpEvents) /\ trItem = "none" /\ term.saw_done = FALSE
      /\ term \in [saw_done : BOOLEAN, finish_reason : {"none", "stop", "cut"}]
  BY <1>0 DEF StreamInv, StreamShape, MarkerIsLast
<1>2. /\ upQ' \in Seq(UpEvents) /\ e \in UpEvents /\ e = upQ[1] /\ Len(upQ) \in Nat /\ Len(upQ) > 0
      /\ Len(upQ') = Len(upQ) - 1 /\ 1 \in 1..Len(upQ)
      /\ \A i \in 1..Len(upQ) - 1 : upQ'[i] = upQ[i + 1] /\ i + 1 \in 1..Len(upQ)
  BY <1>0, <1>1, TailShape
<1>3. TextsIn(upQ) = IsText(e) + TextsIn(upQ')
  BY <1>0, <1>1, TextsTail
<1>4. /\ tr' = IF e = "text" THEN "deliver" ELSE IF e = "done" THEN "closing"
                ELSE IF e \in {"odd", "err"} THEN "error" ELSE tr
      /\ term' = IF e = "done" THEN [term EXCEPT !.saw_done = TRUE]
                 ELSE IF e \in {"stop", "cut"} THEN [term EXCEPT !.finish_reason = e] ELSE term
  BY ReadEvent
<1> HIDE DEF e
<1>5. /\ term' \in [saw_done : BOOLEAN, finish_reason : {"none", "stop", "cut"}]
      /\ term'.saw_done => e = "done"
  BY <1>1, <1>4
<1>6. StreamShape'
  <2>1. IF tr' = "deliver" THEN trItem' # "none" ELSE trItem' = "none"
    BY <1>0, <1>4
  <2>2. trItem' \in {"none", "text", "keepalive"}
    BY <1>0
  <2> QED
    BY <2>1, <2>2, <1>0, <1>2, <1>5, <1>u DEF StreamInv, StreamShape
<1>7. MarkerIsLast'
  <2>1. MarkerSent' <=> MarkerSent
    BY <1>u DEF MarkerSent
  <2>2. ASSUME NEW i \in 1..Len(upQ'), upQ'[i] = "done" PROVE i = Len(upQ') /\ MarkerSent
    <3>1. i + 1 \in 1..Len(upQ) /\ upQ[i + 1] = "done"
      BY <1>2, <2>2
    <3>2. i + 1 = Len(upQ) /\ MarkerSent
      BY <3>1 DEF StreamInv, MarkerIsLast
    <3> QED
      BY <3>2, <1>2
  <2>3. e = "done" => upQ' = <<>> /\ MarkerSent /\ tr' = "closing"
    <3> SUFFICES ASSUME e = "done" PROVE upQ' = <<>> /\ MarkerSent /\ tr' = "closing"
      OBVIOUS
    <3>1. 1 = Len(upQ) /\ MarkerSent
      BY <1>2 DEF StreamInv, MarkerIsLast
    <3>2. Len(upQ') = 0
      BY <3>1, <1>2
    <3> QED
      BY <3>1, <3>2, <1>2, <1>4
  <2> QED
    BY <2>1, <2>2, <2>3, <1>5 DEF MarkerIsLast
<1>8. ASSUME ~gone
      PROVE  seen.texts + TextsIn(sseQ') + IsText(trItem') + TextsIn(upQ') + IsText(upItem) = fed.texts
  <2>1. seen.texts + TextsIn(sseQ) + IsText(trItem) + TextsIn(upQ) + IsText(upItem) = fed.texts
    BY <1>0, <1>8 DEF StreamInv, NoTextIsLost
  <2>2. IsText(trItem) = 0 /\ IsText(trItem') = IsText(e) /\ IsText(e) \in Nat /\ IsText(upItem) \in Nat
    BY <1>0, <1>1 DEF IsText
  <2>3. seen.texts \in Nat /\ TextsIn(sseQ) \in Nat /\ TextsIn(upQ') \in Nat
    BY <1>0, <1>2, Relaying, TextsAreCounted
  <2> DEFINE a == seen.texts
             b == TextsIn(sseQ)
             d == TextsIn(upQ')
             i == IsText(upItem)
             n == IsText(e)
             s == fed.texts
  <2>4. a \in Nat /\ b \in Nat /\ d \in Nat /\ i \in Nat /\ n \in Nat /\ a + b + 0 + (n + d) + i = s
    BY <2>1, <2>2, <2>3, <1>3
  <2> HIDE DEF a, b, d, i, n, s
  <2>5. a + b + n + d + i = s
    BY <2>4
  <2> QED
    BY <2>2, <2>5, <1>0 DEF a, b, d, i, n, s
<1>9. tr' \notin {"meter", "ended"}
  BY <1>0, <1>4
<1> QED
  BY <1>0, <1>6, <1>7, <1>8, <1>9, RelayGoesOn

LEMMA SameMarker ==
    ASSUME StreamInv, UNCHANGED <<up, outcome, upQ, term>>,
           tr \in {"closing", "meter", "ended"} => tr' \in {"closing", "meter", "ended"}
    PROVE  MarkerIsLast'
<1>1. MarkerSent' <=> MarkerSent
  BY DEF MarkerSent
<1> QED
  BY <1>1 DEF StreamInv, MarkerIsLast

\* It hands over a frame of the opening or the closing.
LEMMA FrameSent ==
    ASSUME StreamInv, ElsewhereTr, tr \in {"opening", "closing"}, SendsSse("frame"),
           tr' \in {"opening", "loop", "closing"}, tr = "closing" => tr' = "closing",
           UNCHANGED <<upQ, trItem, term>>
    PROVE  StreamInv'
<1>0. UNCHANGED <<up, upItem, outcome, gone, seen, fed>>
  BY DEF ElsewhereTr, upVars
<1>1. /\ sseQ' \in Seq(ClientEvents) /\ ~gone /\ TextsIn(sseQ') = TextsIn(sseQ) + IsText("frame")
  BY SentOn DEF ClientEvents
<1>2. TextsIn(sseQ') = TextsIn(sseQ)
  <2>1. TextsIn(sseQ) \in Nat
    BY Relaying
  <2>2. IsText("frame") = 0
    BY DEF IsText
  <2> QED
    BY <1>1, <2>1, <2>2
<1>3. StreamShape'
  BY <1>0, <1>1 DEF StreamInv, StreamShape
<1>4. MarkerIsLast'
  BY <1>0, SameMarker
<1>5. seen.texts + TextsIn(sseQ) + IsText(trItem) + TextsIn(upQ) + IsText(upItem) = fed.texts
  BY <1>1 DEF StreamInv, NoTextIsLost
<1> QED
  BY <1>2, <1>3, <1>4, <1>5, RelayGoesOn

LEMMA TrOpeningHolds ==
    ASSUME StreamInv, TrOpening
    PROVE  StreamInv'
<1>0. tr = "opening" /\ ElsewhereTr /\ term' = term
  BY DEF TrOpening
<1>1. CASE SendsSse("frame") /\ tr' \in {"opening", "loop"} /\ UNCHANGED <<upQ, trItem>>
  BY <1>0, <1>1, FrameSent
<1>2. CASE StopRelay /\ sseQ' = sseQ
  BY <1>0, <1>2, RelayStops
<1> QED
  BY <1>0, <1>1, <1>2 DEF TrOpening

LEMMA TrLoopHolds ==
    ASSUME StreamInv, TrEof \/ TrClosed \/ TrKeepalive
    PROVE  StreamInv'
<1>0. tr = "loop" /\ ElsewhereTr /\ term' = term /\ sseQ' = sseQ
  BY DEF TrEof, TrClosed, TrKeepalive
<1>u. UNCHANGED <<up, upItem, outcome, gone, seen, fed>>
  BY <1>0 DEF ElsewhereTr, upVars
<1>1. CASE TrClosed
  BY <1>0, <1>1, RelayStops DEF TrClosed
<1>2. CASE TrEof \/ TrKeepalive
  <2>1. /\ upQ' = upQ /\ trItem = "none" /\ tr' \in {"closing", "deliver"}
        /\ trItem' = IF tr' = "deliver" THEN "keepalive" ELSE "none"
    BY <1>0, <1>2 DEF StreamInv, StreamShape, TrEof, TrKeepalive
  <2>2. StreamShape'
    BY <2>1, <1>0, <1>u DEF StreamInv, StreamShape
  <2>3. MarkerIsLast'
    BY <2>1, <1>0, <1>u, SameMarker
  <2>4. IsText(trItem') = IsText(trItem)
    BY <2>1 DEF IsText
  <2>5. ~gone => seen.texts + TextsIn(sseQ) + IsText(trItem) + TextsIn(upQ) + IsText(upItem) = fed.texts
    BY <1>0 DEF StreamInv, NoTextIsLost
  <2> QED
    BY <2>1, <2>2, <2>3, <2>4, <2>5, <1>0, RelayGoesOn
<1> QED
  BY <1>1, <1>2

LEMMA TrDeliverHolds ==
    ASSUME StreamInv, TrDeliver
    PROVE  StreamInv'
<1>0. /\ tr = "deliver" /\ ElsewhereTr /\ term' = term /\ trItem \in {"text", "keepalive"}
  BY DEF TrDeliver, StreamInv, StreamShape
<1>u. UNCHANGED <<up, upItem, outcome, gone, seen, fed>>
  BY <1>0 DEF ElsewhereTr, upVars
<1>1. CASE SendsSse(trItem) /\ tr' = "loop" /\ trItem' = "none" /\ upQ' = upQ
  <2>1. /\ sseQ' \in Seq(ClientEvents) /\ ~gone /\ TextsIn(sseQ') = TextsIn(sseQ) + IsText(trItem)
    BY <1>0, <1>1, SentOn DEF ClientEvents
  <2>2. StreamShape'
    BY <2>1, <1>0, <1>1, <1>u DEF StreamInv, StreamShape
  <2>3. MarkerIsLast'
    BY <1>0, <1>1, <1>u, SameMarker
  <2>4. seen.texts + TextsIn(sseQ) + IsText(trItem) + TextsIn(upQ) + IsText(upItem) = fed.texts
    BY <2>1, <1>0 DEF StreamInv, NoTextIsLost
  <2>5. seen.texts + TextsIn(sseQ') + IsText(trItem') + TextsIn(upQ') + IsText(upItem) = fed.texts
    <3>1. /\ seen.texts \in Nat /\ TextsIn(sseQ) \in Nat /\ TextsIn(upQ) \in Nat
          /\ IsText(trItem) \in Nat /\ IsText(upItem) \in Nat /\ IsText(trItem') = 0
      BY <1>0, <1>1, Relaying DEF IsText
    <3> DEFINE a == seen.texts
               b == TextsIn(sseQ)
               c == IsText(trItem)
               d == TextsIn(upQ)
               i == IsText(upItem)
               s == fed.texts
    <3>2. a \in Nat /\ b \in Nat /\ c \in Nat /\ d \in Nat /\ i \in Nat /\ a + b + c + d + i = s
      BY <2>4, <3>1
    <3> HIDE DEF a, b, c, d, i, s
    <3>3. a + (b + c) + 0 + d + i = s
      BY <3>2
    <3> QED
      BY <2>1, <3>1, <3>3, <1>1 DEF a, b, c, d, i, s
  <2> QED
    BY <2>1, <2>2, <2>3, <2>5, <1>0, <1>1, RelayGoesOn
<1>2. CASE StopRelay /\ sseQ' = sseQ
  BY <1>0, <1>2, RelayStops
<1> QED
  BY <1>1, <1>2 DEF TrDeliver

LEMMA TrErrorHolds ==
    ASSUME StreamInv, TrError
    PROVE  StreamInv'
BY RelayStops DEF TrError

\* The terminal event: completed only with the provider's marker, and then
\* nothing is left in the upstream queue.
LEMMA EndSent ==
    ASSUME StreamInv, ElsewhereTr, tr = "closing", SendsSse(response_status), StopRelay, term' = term
    PROVE  StreamInv'
<1>0. /\ UNCHANGED <<up, upItem, outcome, gone, seen, fed>>
      /\ upQ' = <<>> /\ tr' = "meter" /\ trItem' = "none"
  BY DEF ElsewhereTr, upVars, StopRelay
<1>1. response_status \in Final /\ response_status \in ClientEvents
  BY DEF response_status, Final, ClientEvents
<1>2. /\ sseQ' \in Seq(ClientEvents) /\ ~gone /\ Len(sseQ') = Len(sseQ) + 1 /\ Len(sseQ) \in Nat
      /\ sseQ'[Len(sseQ) + 1] = response_status /\ TextsIn(sseQ') = TextsIn(sseQ) + IsText(response_status)
      /\ \A i \in 1..Len(sseQ') : i = Len(sseQ') \/ sseQ'[i] \notin Final \cup {"error"}
  BY <1>1, SentOn
<1>3. seen.status = "none" /\ seen.error = FALSE
  BY Relaying
<1>m. MarkerSent' <=> MarkerSent
  BY <1>0 DEF MarkerSent
<1>4. StreamShape'
  BY <1>0, <1>2 DEF StreamInv, StreamShape
<1>5. MarkerIsLast'
  <2>1. 1..Len(upQ') = {}
    BY <1>0
  <2> QED
    BY <1>0, <1>m, <2>1 DEF StreamInv, MarkerIsLast
<1>6. NoTextIsLost' /\ EndIsLast'
  BY <1>0, <1>2, <1>3 DEF NoTextIsLost, EndIsLast
<1>7. CompletedOnWay' => Whole'
  <2> SUFFICES ASSUME CompletedOnWay' PROVE Whole'
    OBVIOUS
  <2>1. response_status = "completed"
    BY <1>0, <1>2, <1>3 DEF CompletedOnWay, Final
  <2>2. term.saw_done /\ term.finish_reason # "cut"
    BY <2>1 DEF response_status
  <2>3. upQ = <<>> /\ MarkerSent
    BY <2>2 DEF StreamInv, MarkerIsLast
  <2>4. trItem = "none" /\ upItem = "none"
    BY <2>3 DEF StreamInv, StreamShape, MarkerSent
  <2>5. seen.texts + TextsIn(sseQ) + IsText(trItem) + TextsIn(upQ) + IsText(upItem) = fed.texts
    BY <1>2 DEF StreamInv, NoTextIsLost
  <2>6. IsText(trItem) = 0 /\ IsText(upItem) = 0 /\ TextsIn(upQ) = 0 /\ IsText(response_status) = 0
    BY <2>1, <2>3, <2>4, NoTexts DEF IsText
  <2>7. seen.texts + TextsIn(sseQ') = fed.texts
    <3>1. seen.texts \in Nat /\ TextsIn(sseQ) \in Nat
      BY Relaying
    <3> QED
      BY <3>1, <2>5, <2>6, <1>2
  <2>8. \A i \in 1..Len(sseQ') : sseQ'[i] # "error"
    BY <1>2, <2>1
  <2> QED
    BY <1>0, <1>3, <1>m, <2>2, <2>3, <2>7, <2>8 DEF Whole
<1> QED
  BY <1>4, <1>5, <1>6, <1>7 DEF StreamInv

LEMMA TrClosingHolds ==
    ASSUME StreamInv, TrClosing
    PROVE  StreamInv'
<1>0. tr = "closing" /\ ElsewhereTr /\ term' = term
  BY DEF TrClosing
<1>1. CASE SendsSse(response_status) /\ StopRelay
  BY <1>0, <1>1, EndSent
<1>2. CASE SendsSse("frame") /\ UNCHANGED <<tr, upQ, trItem>>
  BY <1>0, <1>2, FrameSent
<1>3. CASE StopRelay /\ sseQ' = sseQ
  BY <1>0, <1>3, RelayStops
<1> QED
  BY <1>1, <1>2, <1>3 DEF TrClosing

LEMMA TrMeterHolds ==
    ASSUME StreamInv, TrMeter
    PROVE  StreamInv'
<1>0. /\ tr = "meter" /\ tr' = "ended" /\ UNCHANGED <<upQ, trItem, term, sseQ>>
      /\ UNCHANGED <<up, upItem, outcome, gone, seen, fed>>
  BY DEF TrMeter, ElsewhereTr, upVars
<1>1. MarkerSent' <=> MarkerSent
  BY <1>0 DEF MarkerSent
<1>2. StreamShape' /\ NoTextIsLost' /\ EndIsLast'
  BY <1>0 DEF StreamInv, StreamShape, NoTextIsLost, EndIsLast
<1>3. MarkerIsLast'
  BY <1>0, SameMarker
<1>4. (CompletedOnWay => Whole)'
  BY <1>0, <1>1 DEF StreamInv, CompletedOnWay, Whole
<1> QED
  BY <1>2, <1>3, <1>4 DEF StreamInv

-----------------------------------------------------------------------------
(* The client.                                                             *)

LEMMA ReadByClient ==
    ASSUME ClientRead
    PROVE  seen' = IF Head(sseQ) = "text" THEN [seen EXCEPT !.texts = seen.texts + 1]
                   ELSE IF Head(sseQ) = "error" THEN [seen EXCEPT !.error = TRUE]
                   ELSE IF Head(sseQ) \in Final THEN [seen EXCEPT !.status = Head(sseQ)] ELSE seen
BY Zenon DEF ClientRead, Final

LEMMA ClientReadHolds ==
    ASSUME StreamInv, ClientRead
    PROVE  StreamInv'
<1> DEFINE e == Head(sseQ)
<1>0. /\ sseQ # <<>> /\ sseQ' = Tail(sseQ)
      /\ UNCHANGED <<up, upItem, outcome, upQ, tr, trItem, term, gone, fed>>
  BY DEF ClientRead, upVars, trVars
<1>1. sseQ \in Seq(ClientEvents) /\ seen \in [texts : Nat, error : BOOLEAN, status : Final \cup {"none"}]
  BY DEF StreamInv, StreamShape
<1>2. /\ sseQ' \in Seq(ClientEvents) /\ e \in ClientEvents /\ e = sseQ[1] /\ Len(sseQ) \in Nat /\ Len(sseQ) > 0
      /\ Len(sseQ') = Len(sseQ) - 1 /\ 1 \in 1..Len(sseQ)
      /\ \A i \in 1..Len(sseQ) - 1 : sseQ'[i] = sseQ[i + 1] /\ i + 1 \in 1..Len(sseQ)
  BY <1>0, <1>1, TailShape
<1>3. TextsIn(sseQ) = IsText(e) + TextsIn(sseQ')
  BY <1>0, <1>1, TextsTail
<1>4. seen' = IF e = "text" THEN [seen EXCEPT !.texts = seen.texts + 1]
              ELSE IF e = "error" THEN [seen EXCEPT !.error = TRUE]
              ELSE IF e \in Final THEN [seen EXCEPT !.status = e] ELSE seen
  BY ReadByClient
<1> HIDE DEF e
<1>5. /\ seen' \in [texts : Nat, error : BOOLEAN, status : Final \cup {"none"}]
      /\ seen'.texts = seen.texts + IsText(e)
      /\ e # "error" => seen'.error = seen.error
      /\ seen'.status = IF e \in Final THEN e ELSE seen.status
  <2>0. seen.texts \in Nat /\ {"text", "error"} \cap Final = {}
    BY <1>1 DEF Final
  <2>1. CASE e = "text"
    <3>1. seen' = [seen EXCEPT !.texts = seen.texts + 1] /\ IsText(e) = 1 /\ e \notin Final
      BY <2>0, <2>1, <1>4 DEF IsText
    <3> QED
      BY <2>0, <3>1, <1>1
  <2>n. e # "text" => IsText(e) = 0
    BY DEF IsText
  <2>2. CASE e = "error"
    <3>1. seen' = [seen EXCEPT !.error = TRUE] /\ IsText(e) = 0 /\ e \notin Final
      BY <2>0, <2>2, <2>n, <1>4
    <3>2. seen' \in [texts : Nat, error : BOOLEAN, status : Final \cup {"none"}]
      BY <3>1, <1>1
    <3>3. seen'.texts = seen.texts /\ seen'.status = seen.status
      BY <3>1, <1>1
    <3> QED
      BY <2>0, <2>2, <3>1, <3>2, <3>3
  <2>3. CASE e \in Final
    <3>1. seen' = [seen EXCEPT !.status = e] /\ IsText(e) = 0
      BY <2>0, <2>3, <2>n, <1>4
    <3> QED
      BY <2>0, <2>3, <3>1, <1>1
  <2>4. CASE e \notin Final \cup {"text", "error"}
    <3>1. seen' = seen /\ IsText(e) = 0
      BY <2>4, <2>n, <1>4
    <3> QED
      BY <2>0, <2>4, <3>1, <1>1
  <2> QED
    BY <2>1, <2>2, <2>3, <2>4
<1>6. /\ seen.texts \in Nat /\ TextsIn(sseQ') \in Nat /\ IsText(e) \in Nat /\ ~gone /\ seen.status = "none"
  <2>1. ~gone /\ seen.status = "none"
    BY <1>0 DEF StreamInv, NoTextIsLost, EndIsLast, StreamShape
  <2> QED
    BY <2>1, <1>1, <1>2, TextsAreCounted DEF IsText
<1>7. seen'.texts + TextsIn(sseQ') = seen.texts + TextsIn(sseQ)
  BY <1>3, <1>5, <1>6
<1>8. StreamShape'
  BY <1>0, <1>2, <1>5 DEF StreamInv, StreamShape
<1>9. MarkerIsLast'
  BY <1>0, SameMarker
<1>10. NoTextIsLost'
  <2> SUFFICES ASSUME tr \in {"opening", "loop", "deliver", "closing"}
               PROVE  seen'.texts + TextsIn(sseQ') + IsText(trItem) + TextsIn(upQ) + IsText(upItem) = fed.texts
    BY <1>0, <1>6 DEF NoTextIsLost
  <2>1. seen.texts + TextsIn(sseQ) + IsText(trItem) + TextsIn(upQ) + IsText(upItem) = fed.texts
    BY <1>6 DEF StreamInv, NoTextIsLost
  <2> QED
    BY <2>1, <1>7
<1>11. e \in Final => sseQ' = <<>>
  <2> SUFFICES ASSUME e \in Final PROVE sseQ' = <<>>
    OBVIOUS
  <2>1. 1 = Len(sseQ)
    BY <1>2 DEF StreamInv, EndIsLast
  <2>2. Len(sseQ') = 0
    BY <2>1, <1>2
  <2> QED
    BY <2>2, <1>2
<1>12. EndIsLast'
  <2>1. tr \notin {"meter", "ended"} =>
           /\ e \notin Final \cup {"error"} /\ seen.error = FALSE
           /\ \A i \in 1..Len(sseQ') : sseQ'[i] \notin Final \cup {"error"}
    BY <1>2 DEF StreamInv, EndIsLast
  <2>2. seen'.status # "none" => sseQ' = <<>>
    BY <1>5, <1>6, <1>11
  <2>3. ASSUME NEW i \in 1..Len(sseQ'), sseQ'[i] \in Final PROVE i = Len(sseQ')
    <3>1. i + 1 \in 1..Len(sseQ) /\ sseQ[i + 1] \in Final
      BY <1>2, <2>3
    <3>2. i + 1 = Len(sseQ)
      BY <3>1 DEF StreamInv, EndIsLast
    <3> QED
      BY <3>2, <1>2
  <2>4. tr' \notin {"meter", "ended"} => seen'.status = "none" /\ seen'.error = FALSE
    BY <1>0, <1>5, <1>6, <2>1
  <2> QED
    BY <2>1, <2>2, <2>3, <2>4, <1>0 DEF EndIsLast
<1>13. CompletedOnWay' => Whole'
  <2> SUFFICES ASSUME CompletedOnWay' PROVE Whole'
    OBVIOUS
  <2>1. CompletedOnWay
    <3>1. CASE seen'.status = "completed"
      <4>1. e = "completed"
        BY <3>1, <1>5, <1>6
      <4> QED
        BY <4>1, <1>2 DEF CompletedOnWay
    <3>2. CASE \E i \in 1..Len(sseQ') : sseQ'[i] = "completed"
      BY <3>2, <1>2 DEF CompletedOnWay
    <3> QED
      BY <3>1, <3>2 DEF CompletedOnWay
  <2>2. Whole
    BY <2>1 DEF StreamInv
  <2>3. MarkerSent' <=> MarkerSent
    BY <1>0 DEF MarkerSent
  <2>4. seen'.error = FALSE /\ \A i \in 1..Len(sseQ') : sseQ'[i] # "error"
    BY <2>2, <1>2, <1>5 DEF Whole
  <2>5. seen'.texts + TextsIn(sseQ') = fed.texts
    BY <2>2, <1>7 DEF Whole
  <2> QED
    BY <2>2, <2>3, <2>4, <2>5, <1>0 DEF Whole
<1> QED
  BY <1>8, <1>9, <1>10, <1>12, <1>13 DEF StreamInv

LEMMA ClientLeavesHolds ==
    ASSUME StreamInv, ClientLeaves
    PROVE  StreamInv'
<1>0. /\ gone' = TRUE /\ sseQ' = <<>>
      /\ UNCHANGED <<up, upItem, outcome, upQ, tr, trItem, term, seen, fed>>
  BY DEF ClientLeaves, upVars, trVars
<1>n. 1..Len(sseQ') = {}
  BY <1>0
<1>1. MarkerSent' <=> MarkerSent
  BY <1>0 DEF MarkerSent
<1>2. StreamShape' /\ NoTextIsLost'
  BY <1>0 DEF StreamInv, StreamShape, NoTextIsLost
<1>3. MarkerIsLast'
  BY <1>0, SameMarker
<1>4. EndIsLast'
  BY <1>0, <1>n DEF StreamInv, EndIsLast
<1>5. CompletedOnWay' => Whole'
  <2> SUFFICES ASSUME CompletedOnWay' PROVE Whole'
    OBVIOUS
  <2>1. seen.status = "completed" /\ sseQ = <<>>
    BY <1>0, <1>n DEF CompletedOnWay, StreamInv, EndIsLast
  <2>2. Whole
    BY <2>1 DEF CompletedOnWay, StreamInv
  <2> QED
    BY <2>1, <2>2, <1>0, <1>1 DEF Whole
<1> QED
  BY <1>2, <1>3, <1>4, <1>5 DEF StreamInv

LEMMA StreamNextInv == StreamInv /\ [StreamNext]_streamVars => StreamInv'
<1> SUFFICES ASSUME StreamInv, [StreamNext]_streamVars PROVE StreamInv'
  OBVIOUS
<1>1. CASE UpClosed \/ UpAnswer \/ UpFault \/ UpEof
  <2>1. /\ up \in {"open", "read"} /\ up' # "send" /\ upItem' = "none" /\ fed' = fed /\ ElsewhereUp
        /\ send_downstream_stream_error \/ upQ' = upQ
    BY <1>1 DEF UpClosed, UpAnswer, UpFault, UpEof, UpEnd, StreamInv, StreamShape
  <2> QED
    BY <2>1, UpStops
<1>2. CASE UpSend
  BY <1>2, UpSendHolds
<1>3. CASE UpRecord
  BY <1>3, UpRecordHolds
<1>4. ASSUME NEW e \in Events(protocol), UpEvent(e) PROVE StreamInv'
  BY <1>4, UpEventHolds
<1>5. CASE Translator \/ TrKeepalive
  BY <1>5, TrOpeningHolds, TrRecvHolds, TrLoopHolds, TrDeliverHolds, TrErrorHolds, TrClosingHolds,
     TrMeterHolds DEF Translator
<1>6. CASE ClientRead \/ ClientLeaves
  BY <1>6, ClientReadHolds, ClientLeavesHolds
<1>7. CASE UNCHANGED streamVars
  <2>1. UNCHANGED <<up, upItem, outcome, upQ, tr, trItem, term, sseQ, gone, seen, fed>>
    BY <1>7 DEF streamVars, upVars, trVars
  <2> QED
    BY <2>1 DEF StreamInv, StreamShape, MarkerIsLast, MarkerSent, NoTextIsLost, EndIsLast,
                CompletedOnWay, Whole
<1> QED
  BY <1>1, <1>2, <1>3, <1>4, <1>5, <1>6, <1>7 DEF StreamNext, UpServer, Provider

\* A client that reads response.completed has read every text the provider sent
\* and nothing was truncated (handle_streaming, proxy_stream): whatever the
\* capacities of the two queues, wherever either task is interrupted, a notice
\* is lost or the client leaves.
THEOREM CompletedAnswersAreWhole == StreamSpec => []CompletedIsWhole
<1> QED
  BY StreamInitInv, StreamNextInv, StreamInvWhole, PTL DEF StreamSpec

-----------------------------------------------------------------------------
(* Natural numbers.                                                        *)

LEMMA LeastElement ==
    ASSUME NEW T, T \subseteq Nat, T # {}
    PROVE  \E v \in T : \A u \in T : v <= u
<1> DEFINE R == {ss \in Nat \X Nat : ss[1] < ss[2]}
<1>1. IsWellFoundedOn(R, Nat)
  BY NatLessThanWellFounded DEF OpToRel
<1>2. \E v \in T : \A u \in T : ~(<<u, v>> \in R)
  <2> HIDE DEF R
  <2> QED
    BY <1>1, WFMin
<1>3. ASSUME NEW v \in T, NEW u \in T, ~(<<u, v>> \in R)
      PROVE  v <= u
  <2>1. u \in Nat /\ v \in Nat
    OBVIOUS
  <2>2. ~(u < v)
    BY <1>3, <2>1
  <2> QED
    BY <2>1, <2>2
<1> QED
  <2> HIDE DEF R
  <2> QED
    BY <1>2, <1>3

-----------------------------------------------------------------------------
(* Flattening.  FlattenSeq is a recursive function on the positions, of    *)
(* which nothing is known before such a function is shown to exist.        *)

FlattensTo(h, ss, m) == h = [i \in 1..m |-> IF i = 1 THEN ss[i] ELSE h[i - 1] \o ss[i]]

LEMMA StepByStep ==
    ASSUME NEW n \in Nat, NEW G, 0 \in G, \A k \in 0..n - 1 : k \in G => k + 1 \in G
    PROVE  n \in G
<1> DEFINE B == {k \in 0..n : k \notin G}
<1> SUFFICES ASSUME n \notin G PROVE FALSE
  OBVIOUS
<1>0. B \subseteq Nat /\ B # {}
  OBVIOUS
<1>1. PICK k \in B : \A j \in B : k <= j
  <2> HIDE DEF B
  <2> QED
    BY <1>0, LeastElement
<1>2. k # 0 /\ k \in 0..n /\ k \notin G
  BY <1>1
<1>3. k - 1 \in 0..n - 1 /\ (k - 1) + 1 = k
  BY <1>2
<1>4. k - 1 \notin G
  BY <1>2, <1>3
<1>5. k - 1 \in B
  BY <1>3, <1>4
<1> QED
  BY <1>1, <1>2, <1>5

LEMMA FlatteningExists ==
    ASSUME NEW ss, NEW n \in Nat
    PROVE  \E h : FlattensTo(h, ss, n)
<1> DEFINE G == {m \in 0..n : \E h : FlattensTo(h, ss, m)}
<1>1. 0 \in G
  <2> DEFINE h == [i \in 1..0 |-> ss[i]]
  <2>1. FlattensTo(h, ss, 0)
    BY DEF FlattensTo
  <2> QED
    BY <2>1
<1>2. ASSUME NEW m \in 0..n - 1, m \in G PROVE m + 1 \in G
  <2>1. PICK h : FlattensTo(h, ss, m)
    BY <1>2
  <2> DEFINE g == [i \in 1..m + 1 |-> IF i \in 1..m THEN h[i]
                                      ELSE IF i = 1 THEN ss[i] ELSE h[m] \o ss[i]]
             t == [i \in 1..m + 1 |-> IF i = 1 THEN ss[i] ELSE g[i - 1] \o ss[i]]
  <2>2. ASSUME NEW i \in 1..m + 1 PROVE g[i] = IF i = 1 THEN ss[i] ELSE g[i - 1] \o ss[i]
    <3>1. CASE i \in 1..m
      <4>1. h[i] = IF i = 1 THEN ss[i] ELSE h[i - 1] \o ss[i]
        BY <2>1, <3>1 DEF FlattensTo
      <4>2. i # 1 => i - 1 \in 1..m /\ i - 1 \in 1..m + 1
        BY <3>1
      <4> QED
        BY <3>1, <4>1, <4>2
    <3>2. CASE i = m + 1
      <4>1. i \notin 1..m /\ (i # 1 => m \in 1..m /\ m \in 1..m + 1 /\ i - 1 = m)
        BY <3>2
      <4> QED
        BY <4>1, <3>2
    <3> QED
      BY <3>1, <3>2
  <2>3. g = t
    BY <2>2
  <2>4. FlattensTo(g, ss, m + 1)
    BY <2>3 DEF FlattensTo
  <2>5. m + 1 \in 0..n
    OBVIOUS
  <2> HIDE DEF g
  <2> QED
    BY <2>4, <2>5
<1> HIDE DEF G
<1>3. n \in G
  BY <1>1, <1>2, StepByStep
<1> QED
  BY <1>3 DEF G

\* What has come together after each of the sequences.
JoinedUp(f, ss) ==
    /\ f[0] = <<>>
    /\ \A k \in 0..Len(ss) - 1 : f[k + 1] = f[k] \o ss[k + 1]

LEMMA FlattenJoins ==
    ASSUME NEW S, NEW ss \in Seq(Seq(S))
    PROVE  \E f : /\ JoinedUp(f, ss) /\ FlattenSeq(ss) = f[Len(ss)]
                  /\ \A k \in 0..Len(ss) : f[k] \in Seq(S)
<1> DEFINE n == Len(ss)
           h == CHOOSE g : FlattensTo(g, ss, n)
           f == [k \in 0..n |-> IF k = 0 THEN <<>> ELSE h[k]]
<1>0. n \in Nat /\ \A k \in 1..n : ss[k] \in Seq(S)
  OBVIOUS
<1>1. FlattensTo(h, ss, n)
  BY <1>0, FlatteningExists
<1>2. FlattenSeq(ss) = IF n = 0 THEN ss ELSE h[n]
  BY Zenon DEF FlattenSeq, FlattensTo
<1> HIDE DEF h
<1>3. FlattenSeq(ss) = f[n]
  <2>1. n = 0 => ss = <<>>
    OBVIOUS
  <2>2. f[n] = IF n = 0 THEN <<>> ELSE h[n]
    BY <1>0
  <2> HIDE DEF n, f
  <2> QED
    BY <1>2, <2>1, <2>2
<1>4. f[0] = <<>>
  BY <1>0
<1>5. \A i \in 1..n : h[i] = IF i = 1 THEN ss[i] ELSE h[i - 1] \o ss[i]
  BY <1>1, <1>0 DEF FlattensTo
<1> HIDE DEF n
<1>6. ASSUME NEW k \in 0..n - 1 PROVE f[k + 1] = f[k] \o ss[k + 1]
  <2>1. k + 1 \in 1..n /\ k + 1 \in 0..n /\ k \in 0..n /\ (k + 1) - 1 = k /\ k + 1 # 0 /\ k \in Nat
    BY <1>0
  <2>2. f[k + 1] = h[k + 1] /\ ss[k + 1] \in Seq(S)
    BY <2>1, <1>0
  <2>3. CASE k = 0
    <3>1. h[k + 1] = ss[k + 1] /\ f[k] = <<>>
      BY <2>1, <2>3, <1>4, <1>5
    <3>2. <<>> \o ss[k + 1] = ss[k + 1]
      BY <2>2
    <3> HIDE DEF f
    <3> QED
      BY <2>2, <3>1, <3>2
  <2>4. CASE k # 0
    <3>1. h[k + 1] = h[(k + 1) - 1] \o ss[k + 1]
      <4>1. k + 1 # 1
        BY <2>1, <2>4
      <4> QED
        BY <2>1, <4>1, <1>5
    <3>2. f[k] = h[k]
      BY <2>1, <2>4
    <3> HIDE DEF f
    <3> QED
      BY <2>1, <2>2, <3>1, <3>2
  <2> QED
    BY <2>3, <2>4
<1> HIDE DEF f
<1>7. \A k \in 0..n : f[k] \in Seq(S)
  <2> SUFFICES ASSUME NEW z \in 0..n PROVE f[z] \in Seq(S)
    OBVIOUS
  <2> DEFINE G == {k \in 0..n : f[k] \in Seq(S)}
  <2>1. 0 \in G
    <3>1. <<>> \in Seq(S) /\ 0 \in 0..n
      BY <1>0
    <3> QED
      BY <3>1, <1>4
  <2>2. ASSUME NEW k \in 0..z - 1, k \in G PROVE k + 1 \in G
    <3>1. k \in 0..n - 1 /\ k + 1 \in 1..n /\ k + 1 \in 0..n
      BY <1>0
    <3>2. f[k + 1] = f[k] \o ss[k + 1] /\ f[k] \in Seq(S) /\ ss[k + 1] \in Seq(S)
      BY <3>1, <2>2, <1>0, <1>6
    <3>3. \A x, y \in Seq(S) : x \o y \in Seq(S)
      OBVIOUS
    <3>4. f[k + 1] \in Seq(S)
      BY <3>2, <3>3
    <3> QED
      BY <3>1, <3>4
  <2> HIDE DEF G
  <2>3. z \in G
    BY <2>1, <2>2, StepByStep
  <2> QED
    BY <2>3 DEF G
<1> QED
  BY <1>3, <1>4, <1>6, <1>7 DEF JoinedUp, n

\* x stands before y in the sequences of ss, of which there are m.
Before(x, y, ss, m) ==
    \E k, l \in 1..m : \E c \in 1..Len(ss[k]), d \in 1..Len(ss[l]) :
        x = ss[k][c] /\ y = ss[l][d] /\ (k < l \/ (k = l /\ c < d))

\* s has what the first m sequences of ss have, in their order.
Spread(s, ss, m) ==
    /\ \A a \in 1..Len(s) : \E k \in 1..m : \E c \in 1..Len(ss[k]) : s[a] = ss[k][c]
    /\ \A k \in 1..m : \A c \in 1..Len(ss[k]) : \E a \in 1..Len(s) : s[a] = ss[k][c]
    /\ \A a, b \in 1..Len(s) : a < b => Before(s[a], s[b], ss, m)

LEMMA JoinShape ==
    ASSUME NEW S, NEW s \in Seq(S), NEW t \in Seq(S)
    PROVE  /\ s \o t \in Seq(S) /\ Len(s \o t) = Len(s) + Len(t) /\ Len(s) \in Nat /\ Len(t) \in Nat
           /\ \A a \in 1..Len(s) : (s \o t)[a] = s[a]
           /\ \A b \in 1..Len(t) : (s \o t)[Len(s) + b] = t[b]
OBVIOUS

LEMMA SpreadGrows ==
    ASSUME NEW S, NEW ss \in Seq(Seq(S)), NEW m \in 0..Len(ss) - 1, NEW s \in Seq(S), Spread(s, ss, m)
    PROVE  Spread(s \o ss[m + 1], ss, m + 1)
<1> DEFINE t == ss[m + 1]
           u == s \o t
<1>0. m \in Nat /\ t \in Seq(S) /\ m + 1 \in 1..m + 1 /\ \A k \in 1..m : k \in 1..m + 1 /\ k < m + 1
  OBVIOUS
<1>1. /\ u \in Seq(S) /\ Len(u) = Len(s) + Len(t) /\ Len(s) \in Nat /\ Len(t) \in Nat
      /\ \A a \in 1..Len(s) : u[a] = s[a]
      /\ \A b \in 1..Len(t) : u[Len(s) + b] = t[b]
  <2>1. t \in Seq(S) /\ s \in Seq(S)
    BY <1>0
  <2> HIDE DEF t
  <2> QED
    BY ONLY <2>1, JoinShape
<1> HIDE DEF u, t
<1>2. \A k \in 1..m + 1 : k \in 1..m \/ k = m + 1
  BY <1>0
<1>3. \A a \in 1..Len(u) : a \in 1..Len(s) \/ \E b \in 1..Len(t) : a = Len(s) + b
  <2> SUFFICES ASSUME NEW a \in 1..Len(u), a \notin 1..Len(s) PROVE \E b \in 1..Len(t) : a = Len(s) + b
    OBVIOUS
  <2>1. a - Len(s) \in 1..Len(t) /\ a = Len(s) + (a - Len(s))
    BY <1>1
  <2> QED
    BY <2>1
<1>4. ASSUME NEW a \in 1..Len(u) PROVE \E k \in 1..m + 1 : \E c \in 1..Len(ss[k]) : u[a] = ss[k][c]
  <2>1. CASE a \in 1..Len(s)
    <3>1. PICK k \in 1..m : \E c \in 1..Len(ss[k]) : s[a] = ss[k][c]
      BY <2>1 DEF Spread
    <3>2. u[a] = s[a] /\ k \in 1..m + 1
      BY <2>1, <1>0, <1>1
    <3> QED
      BY <3>1, <3>2
  <2>2. ASSUME NEW b \in 1..Len(t), a = Len(s) + b PROVE u[a] = ss[m + 1][b] /\ b \in 1..Len(ss[m + 1])
    BY <2>2, <1>1 DEF t
  <2> QED
    BY <2>1, <2>2, <1>0, <1>3
<1>5. ASSUME NEW k \in 1..m + 1, NEW c \in 1..Len(ss[k]) PROVE \E a \in 1..Len(u) : u[a] = ss[k][c]
  <2>1. CASE k \in 1..m
    <3>1. PICK a \in 1..Len(s) : s[a] = ss[k][c]
      BY <2>1 DEF Spread
    <3>2. a \in 1..Len(u)
      BY <1>1
    <3> QED
      BY <3>1, <3>2, <1>1
  <2>2. CASE k = m + 1
    <3>1. c \in 1..Len(t) /\ t[c] = ss[k][c]
      BY <2>2 DEF t
    <3>2. Len(s) + c \in 1..Len(u)
      BY <3>1, <1>1
    <3> QED
      BY <3>1, <3>2, <1>1
  <2> QED
    BY <2>1, <2>2, <1>2
<1>6. ASSUME NEW a \in 1..Len(u), NEW b \in 1..Len(u), a < b PROVE Before(u[a], u[b], ss, m + 1)
  <2>1. CASE b \in 1..Len(s)
    <3>1. a \in 1..Len(s)
      BY <2>1, <1>6, <1>1
    <3>2. Before(s[a], s[b], ss, m)
      BY <2>1, <3>1, <1>6 DEF Spread
    <3>3. PICK k, l \in 1..m : \E c \in 1..Len(ss[k]), d \in 1..Len(ss[l]) :
              s[a] = ss[k][c] /\ s[b] = ss[l][d] /\ (k < l \/ (k = l /\ c < d))
      BY <3>2 DEF Before
    <3>4. k \in 1..m + 1 /\ l \in 1..m + 1 /\ u[a] = s[a] /\ u[b] = s[b]
      BY <2>1, <3>1, <1>0, <1>1
    <3> QED
      BY <3>3, <3>4 DEF Before
  <2>2. CASE b \notin 1..Len(s)
    <3>1. PICK d \in 1..Len(t) : b = Len(s) + d
      BY <2>2, <1>3
    <3>2. d \in 1..Len(ss[m + 1]) /\ u[b] = ss[m + 1][d]
      BY <3>1, <1>1 DEF t
    <3>3. CASE a \in 1..Len(s)
      <4>1. PICK k \in 1..m : \E c \in 1..Len(ss[k]) : s[a] = ss[k][c]
        BY <3>3 DEF Spread
      <4>2. u[a] = s[a] /\ k \in 1..m + 1 /\ k < m + 1
        BY <3>3, <1>0, <1>1
      <4> QED
        BY <3>2, <4>1, <4>2, <1>0 DEF Before
    <3>4. CASE a \notin 1..Len(s)
      <4>1. PICK c \in 1..Len(t) : a = Len(s) + c
        BY <3>4, <1>3
      <4>2. c \in 1..Len(ss[m + 1]) /\ u[a] = ss[m + 1][c]
        BY <4>1, <1>1 DEF t
      <4>3. c < d
        BY <3>1, <4>1, <1>6, <1>1
      <4> QED
        BY <3>2, <4>2, <4>3, <1>0 DEF Before
    <3> QED
      BY <3>3, <3>4
  <2> QED
    BY <2>1, <2>2
<1>7. Spread(u, ss, m + 1)
  BY <1>4, <1>5, <1>6 DEF Spread
<1> QED
  BY <1>7 DEF u, t

\* What flattening does: nothing is lost, made up or moved.
LEMMA FlattenSpreads ==
    ASSUME NEW S, NEW ss \in Seq(Seq(S))
    PROVE  FlattenSeq(ss) \in Seq(S) /\ Spread(FlattenSeq(ss), ss, Len(ss))
<1>1. PICK f : /\ JoinedUp(f, ss) /\ FlattenSeq(ss) = f[Len(ss)]
               /\ \A k \in 0..Len(ss) : f[k] \in Seq(S)
  BY FlattenJoins
<1> DEFINE n == Len(ss)
           G == {k \in 0..n : Spread(f[k], ss, k)}
<1>0. n \in Nat /\ n \in 0..n
  OBVIOUS
<1>2. 0 \in G
  <2>1. f[0] = <<>> /\ 1..Len(<<>>) = {} /\ 1..0 = {}
    BY <1>1 DEF JoinedUp
  <2>2. Spread(<<>>, ss, 0)
    BY <2>1 DEF Spread
  <2> QED
    BY <2>1, <2>2, <1>0
<1>3. ASSUME NEW k \in 0..n - 1, k \in G PROVE k + 1 \in G
  <2>1. k \in 0..n /\ k + 1 \in 0..n
    BY <1>0
  <2>2. f[k] \in Seq(S) /\ Spread(f[k], ss, k) /\ f[k + 1] = f[k] \o ss[k + 1]
    BY <2>1, <1>1, <1>3 DEF JoinedUp
  <2>3. Spread(f[k] \o ss[k + 1], ss, k + 1)
    BY <2>2, SpreadGrows
  <2> QED
    BY <2>1, <2>2, <2>3
<1> HIDE DEF G
<1>4. n \in G
  BY <1>0, <1>2, <1>3, StepByStep
<1>5. Spread(f[n], ss, n)
  BY <1>4 DEF G
<1> QED
  BY <1>0, <1>1, <1>5

-----------------------------------------------------------------------------
(* Embeddings.                                                             *)

EmbeddingItem == [form : STRING, dims : Int, finite : BOOLEAN, index : Int, of : Int]

LEMMA NormalizedItem ==
    ASSUME NEW items \in Seq(EmbeddingItem), NEW p \in 1..Len(items), Dimensions(items[p]) > 0
    PROVE  /\ Normalized(items)[p].form = "array" /\ Normalized(items)[p].of = items[p].of
           /\ Normalized(items)[p].index = items[p].index
           /\ Dimensions(Normalized(items)[p]) = Dimensions(items[p])
<1> DEFINE x == items[p]
           y == [x EXCEPT !.form = "array"]
<1>1. x \in EmbeddingItem /\ Normalized(items)[p] = y
  BY DEF Normalized
<1>2. x.form # "none" /\ x.finite
  BY DEF Dimensions
<1> HIDE DEF x
<1>3. y.form = "array" /\ y.of = x.of /\ y.index = x.index /\ y.dims = x.dims
  BY <1>1 DEF EmbeddingItem
<1>4. y.finite = x.finite
  BY <1>1 DEF EmbeddingItem
<1> HIDE DEF y
<1>5. Dimensions(y) = Dimensions(x)
  BY <1>2, <1>3, <1>4 DEF Dimensions
<1> QED
  BY <1>1, <1>3, <1>5 DEF x

LEMMA EmbeddingsHold ==
    ASSUME batch \in EmbeddingBatches
    PROVE  EmbeddingsInPlace
<1> DEFINE items == batch.items
           n == Len(items)
           norm == Normalized(items)
           out == embeddings(norm)
<1> SUFFICES ASSUME normalize_embedding_batch(batch)
             PROVE  /\ Len(out) = batch.count
                    /\ \A i, j \in DOMAIN out : i # j => out[i] # out[j]
                    /\ (\A p \in DOMAIN items : /\ items[p].index \in {Absent, items[p].of}
                                                /\ items[p].index = Absent => items[p].of = p - 1)
                          => \A i \in DOMAIN out : out[i].of = i - 1
  BY DEF EmbeddingsInPlace
<1>1. /\ items \in Seq(EmbeddingItem) /\ batch.count \in Int
      /\ \A p, q \in DOMAIN items : p # q => items[p].of # items[q].of
  BY BatchesAssumption DEF EmbeddingItem
<1>2. n \in Nat /\ DOMAIN items = 1..n
  BY <1>1
<1>3. n > 0 /\ n = batch.count /\ Contiguous(items)
  BY <1>1 DEF normalize_embedding_batch
<1>4. \A p \in 1..n : Dimensions(items[p]) > 0 /\ Dimensions(items[p]) = Dimensions(items[1])
  BY <1>2 DEF normalize_embedding_batch
<1>5. DOMAIN norm = 1..n
  BY <1>2, <1>3 DEF Normalized
<1>6. Len(norm) = n /\ norm # <<>>
  <2>1. norm = [p \in 1..n |-> [items[p] EXCEPT !.form = "array"]]
    BY <1>2 DEF Normalized
  <2> HIDE DEF norm, n
  <2>2. Len(norm) = n
    BY <1>2, <2>1
  <2>3. Len(<<>>) = 0
    OBVIOUS
  <2> QED
    BY <1>2, <1>3, <2>2, <2>3
<1> HIDE DEF items, n, norm
<1>7. ASSUME NEW p \in 1..n
      PROVE  /\ norm[p].form = "array" /\ norm[p].of = items[p].of /\ norm[p].index = items[p].index
             /\ Dimensions(norm[p]) = Dimensions(items[p])
  BY <1>1, <1>4, NormalizedItem DEF norm, n
<1>8. 1 \in 1..n
  BY <1>2, <1>3
<1>9. \A p \in 1..n : IndexAt(norm, p) = IndexAt(items, p)
  BY <1>7 DEF IndexAt
<1>10. Contiguous(norm)
  <2>1. \A p \in 1..n : norm[p].index # BadIndex
    BY <1>2, <1>3, <1>7 DEF Contiguous
  <2>2. {IndexAt(norm, p) : p \in 1..n} = {IndexAt(items, p) : p \in 1..n}
    BY <1>9
  <2>3. {IndexAt(items, p) : p \in 1..n} = 0..n - 1
    BY <1>2, <1>3 DEF Contiguous, n
  <2> QED
    BY <2>1, <2>2, <2>3, <1>5, <1>6 DEF Contiguous
<1> DEFINE Place(i) == CHOOSE p \in 1..n : IndexAt(norm, p) = i - 1
<1>11. out = [i \in 1..n |-> norm[Place(i)]]
  <2>1. ~ \E p \in 1..n : \/ norm[p].form # "array" \/ Dimensions(norm[p]) = 0
                          \/ Dimensions(norm[p]) # Dimensions(norm[1])
    <3> SUFFICES ASSUME NEW p \in 1..n
                 PROVE  norm[p].form = "array" /\ Dimensions(norm[p]) # 0 /\ Dimensions(norm[p]) = Dimensions(norm[1])
      OBVIOUS
    <3>1. Dimensions(items[p]) > 0 /\ Dimensions(items[p]) = Dimensions(items[1])
      BY <1>4
    <3>2. Dimensions(norm[p]) = Dimensions(items[p]) /\ Dimensions(norm[1]) = Dimensions(items[1])
      BY <1>7, <1>8
    <3>3. Dimensions(items[p]) # 0
      BY <3>1
    <3> QED
      BY <3>1, <3>2, <3>3, <1>7
  <2> QED
    BY <2>1, <1>5, <1>6, <1>10 DEF embeddings
<1>12. ASSUME NEW i \in 1..n PROVE Place(i) \in 1..n /\ IndexAt(items, Place(i)) = i - 1
  <2>1. i - 1 \in 0..n - 1
    BY <1>2
  <2>2. {IndexAt(norm, p) : p \in 1..n} = 0..n - 1
    BY <1>5, <1>6, <1>10 DEF Contiguous
  <2>3. \E p \in 1..n : IndexAt(norm, p) = i - 1
    BY <2>1, <2>2
  <2> QED
    BY <2>3, <1>9
<1> HIDE DEF out, Place
<1>13. DOMAIN out = 1..n /\ Len(out) = batch.count
  <2>1. Len(out) = n
    BY <1>2, <1>11
  <2> QED
    BY <2>1, <1>3, <1>11
<1>14. ASSUME NEW i \in 1..n PROVE out[i].of = items[Place(i)].of
  BY <1>7, <1>11, <1>12
<1>15. ASSUME NEW i \in 1..n, NEW j \in 1..n, i # j PROVE out[i] # out[j]
  <2>1. Place(i) # Place(j)
    BY <1>2, <1>12, <1>15
  <2>2. items[Place(i)].of # items[Place(j)].of
    BY <2>1, <1>1, <1>2, <1>12
  <2> QED
    BY <2>2, <1>14
<1>16. ASSUME NEW i \in 1..n,
              \A p \in 1..n : /\ items[p].index \in {Absent, items[p].of}
                              /\ items[p].index = Absent => items[p].of = p - 1
       PROVE  out[i].of = i - 1
  <2> DEFINE p == Place(i)
  <2>1. p \in 1..n /\ IndexAt(items, p) = i - 1 /\ out[i].of = items[p].of
    BY <1>12, <1>14
  <2> HIDE DEF p
  <2> QED
    BY <2>1, <1>16 DEF IndexAt
<1> QED
  BY <1>2, <1>13, <1>15, <1>16

-----------------------------------------------------------------------------
(* Requests.                                                               *)

Part == [kind : PartKinds, id : Nat]
MessageOf(P) == [role : STRING \cup {"system", "developer"}, parts : Seq(P)]
Message == MessageOf(Part)
SentPart == [kind : PartKinds \cup {"image"}, id : Nat]
SentMessage == MessageOf(SentPart)

\* The ids of the messages' parts increase, from part to part and from message to message.
IdsIncrease(ms) ==
    \A i, j \in 1..Len(ms) : \A c \in 1..Len(ms[i].parts), d \in 1..Len(ms[j].parts) :
        i < j \/ (i = j /\ c < d) => ms[i].parts[c].id < ms[j].parts[d].id

LEMMA TextsOfParts ==
    ASSUME NEW parts \in Seq(Part)
    PROVE  /\ TextsOf(parts) \in Seq(Part)
           /\ \A a \in 1..Len(TextsOf(parts)) : \E c \in 1..Len(parts) :
                 parts[c].kind = "text" /\ TextsOf(parts)[a] = parts[c]
           /\ \A c \in 1..Len(parts) : parts[c].kind = "text" =>
                 \E a \in 1..Len(TextsOf(parts)) : TextsOf(parts)[a] = parts[c]
           /\ \A a, b \in 1..Len(TextsOf(parts)) : a < b =>
                 \E c, d \in 1..Len(parts) : c < d /\ TextsOf(parts)[a] = parts[c] /\ TextsOf(parts)[b] = parts[d]
<1> DEFINE n == Len(parts)
           ss == [j \in 1..n |-> IF parts[j].kind = "text" THEN <<parts[j]>> ELSE <<>>]
           s == TextsOf(parts)
<1>1. n \in Nat /\ DOMAIN parts = 1..n /\ \A j \in 1..n : parts[j] \in Part
  OBVIOUS
<1>2. s = FlattenSeq(ss)
  BY <1>1 DEF TextsOf, Nothing
<1> HIDE DEF s, n
<1>3. ss \in Seq(Seq(Part)) /\ Len(ss) = n
  <2>1. \A j \in 1..n : ss[j] \in Seq(Part)
    BY <1>1
  <2>2. ss \in [1..n -> Seq(Part)]
    BY <2>1
  <2> HIDE DEF ss
  <2> QED
    BY <2>2, <1>1
<1>4. \A j \in 1..n : \A c \in 1..Len(ss[j]) : parts[j].kind = "text" /\ c = 1 /\ ss[j][c] = parts[j]
  <2> SUFFICES ASSUME NEW j \in 1..n, NEW c \in 1..Len(ss[j])
               PROVE  parts[j].kind = "text" /\ c = 1 /\ ss[j][c] = parts[j]
    OBVIOUS
  <2>1. CASE parts[j].kind = "text"
    <3>1. ss[j] = <<parts[j]>>
      BY <2>1
    <3> HIDE DEF ss
    <3> QED
      BY <2>1, <3>1
  <2>2. CASE parts[j].kind # "text"
    <3>1. ss[j] = <<>>
      BY <2>2
    <3> HIDE DEF ss
    <3> QED
      BY <3>1
  <2> QED
    BY <2>1, <2>2
<1>5. \A j \in 1..n : parts[j].kind = "text" => 1 \in 1..Len(ss[j]) /\ ss[j][1] = parts[j]
  OBVIOUS
<1> HIDE DEF ss
<1>6. s \in Seq(Part) /\ Spread(s, ss, n)
  BY <1>2, <1>3, FlattenSpreads
<1>7. ASSUME NEW a \in 1..Len(s) PROVE \E c \in 1..n : parts[c].kind = "text" /\ s[a] = parts[c]
  <2>1. PICK k \in 1..n : \E c \in 1..Len(ss[k]) : s[a] = ss[k][c]
    BY <1>6 DEF Spread
  <2> QED
    BY <2>1, <1>4
<1>8. ASSUME NEW c \in 1..n, parts[c].kind = "text" PROVE \E a \in 1..Len(s) : s[a] = parts[c]
  <2>1. 1 \in 1..Len(ss[c]) /\ ss[c][1] = parts[c]
    BY <1>8, <1>5
  <2> QED
    BY <2>1, <1>6 DEF Spread
<1>9. ASSUME NEW a \in 1..Len(s), NEW b \in 1..Len(s), a < b
      PROVE  \E c, d \in 1..n : c < d /\ s[a] = parts[c] /\ s[b] = parts[d]
  <2>0. Before(s[a], s[b], ss, n)
    BY <1>6, <1>9 DEF Spread
  <2>1. PICK k, l \in 1..n : \E c \in 1..Len(ss[k]), d \in 1..Len(ss[l]) :
            s[a] = ss[k][c] /\ s[b] = ss[l][d] /\ (k < l \/ (k = l /\ c < d))
    BY <2>0 DEF Before
  <2>2. PICK c \in 1..Len(ss[k]), d \in 1..Len(ss[l]) :
            s[a] = ss[k][c] /\ s[b] = ss[l][d] /\ (k < l \/ (k = l /\ c < d))
    BY <2>1
  <2>3. c = 1 /\ d = 1 /\ s[a] = parts[k] /\ s[b] = parts[l]
    BY <2>2, <1>4
  <2> QED
    BY <2>2, <2>3
<1> QED
  BY <1>6, <1>7, <1>8, <1>9 DEF s, n

\* The instructions for Anthropic: the texts of the system's messages, in order.
LEMMA SystemTexts ==
    ASSUME NEW ms \in Seq(Message), IdsIncrease(ms)
    PROVE  LET sys == chat_completions_to_anthropic(ms).system
           IN  /\ sys \in Seq(Part)
               /\ \A a \in 1..Len(sys) : \E i \in 1..Len(ms) : \E c \in 1..Len(ms[i].parts) :
                     OfSystem(ms[i]) /\ ms[i].parts[c].kind = "text" /\ sys[a] = ms[i].parts[c]
               /\ \A i \in 1..Len(ms) : \A c \in 1..Len(ms[i].parts) :
                     OfSystem(ms[i]) /\ ms[i].parts[c].kind = "text" => \E a \in 1..Len(sys) : sys[a] = ms[i].parts[c]
               /\ Increasing(Ids(sys))
<1> DEFINE n == Len(ms)
           ss == [i \in 1..n |-> IF OfSystem(ms[i]) THEN TextsOf(ms[i].parts) ELSE <<>>]
           s == chat_completions_to_anthropic(ms).system
<1>1. n \in Nat /\ DOMAIN ms = 1..n
  OBVIOUS
<1>0. \A i \in 1..n : ms[i].parts \in Seq(Part)
  <2>1. \A i \in 1..n : ms[i] \in Message
    OBVIOUS
  <2> QED
    BY <2>1 DEF Message, MessageOf
<1>2. s = FlattenSeq(ss)
  BY <1>1 DEF chat_completions_to_anthropic, Nothing
<1> HIDE DEF s, n
<1>3. ss \in Seq(Seq(Part)) /\ Len(ss) = n
  <2>1. \A i \in 1..n : ss[i] \in Seq(Part)
    BY <1>0, TextsOfParts
  <2>2. ss \in [1..n -> Seq(Part)]
    BY <2>1
  <2> HIDE DEF ss
  <2> QED
    BY <2>2, <1>1
<1>4. \A i \in 1..n : \A c \in 1..Len(ss[i]) : OfSystem(ms[i]) /\ ss[i] = TextsOf(ms[i].parts)
  <2> SUFFICES ASSUME NEW i \in 1..n, NEW c \in 1..Len(ss[i]), ~OfSystem(ms[i])
               PROVE  FALSE
    BY <1>1
  <2>1. ss[i] = <<>>
    OBVIOUS
  <2> HIDE DEF ss
  <2> QED
    BY <2>1
<1>5. \A i \in 1..n : OfSystem(ms[i]) => ss[i] = TextsOf(ms[i].parts)
  OBVIOUS
<1> HIDE DEF ss
<1>6. s \in Seq(Part) /\ Spread(s, ss, n)
  BY <1>2, <1>3, FlattenSpreads
<1>12. ASSUME NEW i \in 1..n
       PROVE  /\ \A c \in 1..Len(ss[i]) : \E e \in 1..Len(ms[i].parts) :
                     ms[i].parts[e].kind = "text" /\ ss[i][c] = ms[i].parts[e]
              /\ \A c, d \in 1..Len(ss[i]) : c < d => \E e, g \in 1..Len(ms[i].parts) :
                     e < g /\ ss[i][c] = ms[i].parts[e] /\ ss[i][d] = ms[i].parts[g]
  <2> DEFINE p == ms[i].parts
             t == ss[i]
  <2>1. p \in Seq(Part) /\ \A c \in 1..Len(t) : t = TextsOf(p)
    BY <1>0, <1>4
  <2> HIDE DEF p, t
  <2>2. \A c \in 1..Len(t) : \E e \in 1..Len(p) : p[e].kind = "text" /\ t[c] = p[e]
    <3> SUFFICES ASSUME NEW c \in 1..Len(t) PROVE \E e \in 1..Len(p) : p[e].kind = "text" /\ t[c] = p[e]
      OBVIOUS
    <3>1. t = TextsOf(p)
      BY <2>1
    <3> QED
      BY <3>1, <2>1, TextsOfParts
  <2>3. \A c, d \in 1..Len(t) : c < d => \E e, g \in 1..Len(p) : e < g /\ t[c] = p[e] /\ t[d] = p[g]
    <3> SUFFICES ASSUME NEW c \in 1..Len(t), NEW d \in 1..Len(t), c < d
                 PROVE  \E e, g \in 1..Len(p) : e < g /\ t[c] = p[e] /\ t[d] = p[g]
      OBVIOUS
    <3>1. t = TextsOf(p)
      BY <2>1
    <3>2. \A i0, j0 \in 1..Len(TextsOf(p)) : i0 < j0 =>
              \E e, g \in 1..Len(p) : e < g /\ TextsOf(p)[i0] = p[e] /\ TextsOf(p)[j0] = p[g]
      BY <2>1, TextsOfParts
    <3> QED
      BY <3>1, <3>2
  <2> QED
    BY <2>2, <2>3 DEF p, t
<1>7. ASSUME NEW a \in 1..Len(s)
      PROVE  \E i \in 1..n : \E c \in 1..Len(ms[i].parts) :
                 OfSystem(ms[i]) /\ ms[i].parts[c].kind = "text" /\ s[a] = ms[i].parts[c]
  <2>1. PICK k \in 1..n : \E c \in 1..Len(ss[k]) : s[a] = ss[k][c]
    BY <1>6 DEF Spread
  <2>2. PICK c \in 1..Len(ss[k]) : s[a] = ss[k][c]
    BY <2>1
  <2>3. OfSystem(ms[k]) /\ ss[k] = TextsOf(ms[k].parts)
    BY <1>4, <2>2
  <2>4. PICK e \in 1..Len(ms[k].parts) : ms[k].parts[e].kind = "text" /\ ss[k][c] = ms[k].parts[e]
    BY <1>12
  <2> QED
    BY <2>2, <2>3, <2>4
<1>8. ASSUME NEW i \in 1..n, NEW c \in 1..Len(ms[i].parts), OfSystem(ms[i]), ms[i].parts[c].kind = "text"
      PROVE  \E a \in 1..Len(s) : s[a] = ms[i].parts[c]
  <2>1. ss[i] = TextsOf(ms[i].parts) /\ ms[i].parts \in Seq(Part)
    BY <1>8, <1>0, <1>5
  <2>2. PICK e \in 1..Len(TextsOf(ms[i].parts)) : TextsOf(ms[i].parts)[e] = ms[i].parts[c]
    BY <2>1, <1>8, TextsOfParts
  <2>3. e \in 1..Len(ss[i]) /\ ss[i][e] = ms[i].parts[c]
    BY <2>1, <2>2
  <2>4. \E a \in 1..Len(s) : s[a] = ss[i][e]
    BY <2>3, <1>6 DEF Spread
  <2> QED
    BY <2>3, <2>4
<1>9. ASSUME NEW a \in 1..Len(s), NEW b \in 1..Len(s), a < b PROVE s[a].id < s[b].id
  <2>0. Before(s[a], s[b], ss, n)
    BY <1>6, <1>9 DEF Spread
  <2>1. PICK k, l \in 1..n : \E c \in 1..Len(ss[k]), d \in 1..Len(ss[l]) :
            s[a] = ss[k][c] /\ s[b] = ss[l][d] /\ (k < l \/ (k = l /\ c < d))
    BY <2>0 DEF Before
  <2>2. PICK c \in 1..Len(ss[k]), d \in 1..Len(ss[l]) :
            s[a] = ss[k][c] /\ s[b] = ss[l][d] /\ (k < l \/ (k = l /\ c < d))
    BY <2>1
  <2>4. CASE k < l
    <3>1. PICK e \in 1..Len(ms[k].parts) : ss[k][c] = ms[k].parts[e]
      BY <1>12
    <3>2. PICK g \in 1..Len(ms[l].parts) : ss[l][d] = ms[l].parts[g]
      BY <1>12
    <3>3. ms[k].parts[e].id < ms[l].parts[g].id
      BY <2>4, <3>1, <3>2 DEF IdsIncrease, n
    <3> QED
      BY <2>2, <3>1, <3>2, <3>3
  <2>5. CASE k = l /\ c < d
    <3>1. PICK e, g \in 1..Len(ms[k].parts) : e < g /\ ss[k][c] = ms[k].parts[e] /\ ss[k][d] = ms[k].parts[g]
      <4>1. d \in 1..Len(ss[k]) /\ c < d
        BY <2>5
      <4> QED
        BY <4>1, <1>12
    <3>2. ms[k].parts[e].id < ms[k].parts[g].id
      BY <3>1 DEF IdsIncrease, n
    <3> QED
      BY <2>2, <2>5, <3>1, <3>2
  <2> QED
    BY <2>2, <2>4, <2>5
<1>10. DOMAIN s = 1..Len(s)
  BY <1>6
<1>11. Increasing(Ids(s))
  BY <1>9, <1>10 DEF Increasing, Ids
<1> HIDE DEF n
<1> QED
  BY <1>6, <1>7, <1>8, <1>11 DEF s, n

\* What becomes of a message: its parts stay, only images change their kind.
LEMMA SentParts ==
    ASSUME NEW m \in Message
    PROVE  /\ ForAnthropic(m) \in SentMessage /\ m.parts \in Seq(Part) /\ ForAnthropic(m).parts \in Seq(SentPart)
           /\ Len(ForAnthropic(m).parts) = Len(m.parts)
           /\ \A c \in 1..Len(m.parts) :
                /\ m.parts[c] \in Part /\ ForAnthropic(m).parts[c].id = m.parts[c].id
                /\ m.parts[c].kind = "text" => ForAnthropic(m).parts[c] = m.parts[c]
                /\ ForAnthropic(m).parts[c].kind = "text" => m.parts[c].kind = "text"
                /\ ForAnthropic(m).parts[c].kind \in ImageKinds \cup {"image"} => m.parts[c].kind \in ImageKinds
<1> DEFINE p == m.parts
           n == Len(p)
           new(x) == openai_image_part_to_anthropic(x)
           q == [j \in 1..n |-> new(p[j])]
<1>1. p \in Seq(Part) /\ m.role \in STRING \cup {"system", "developer"}
  BY DEF Message, MessageOf
<1>2. n \in Nat /\ DOMAIN p = 1..n /\ \A c \in 1..n : p[c] \in Part
  BY <1>1
<1>3. ForAnthropic(m) = [role |-> m.role, parts |-> q]
  BY <1>2 DEF ForAnthropic
<1> HIDE DEF n, p
<1>4. ASSUME NEW x \in Part
      PROVE  /\ new(x) \in SentPart /\ new(x).id = x.id
             /\ x.kind = "text" => new(x) = x
             /\ new(x).kind = "text" => x.kind = "text"
             /\ new(x).kind \in ImageKinds \cup {"image"} => x.kind \in ImageKinds
  <2>1. x.kind \in PartKinds /\ x.id \in Nat /\ x \in SentPart
    BY DEF Part, SentPart
  <2>2. CASE x.kind \in {"data_image", "http_image"}
    <3> DEFINE y == [x EXCEPT !.kind = "image"]
    <3>1. new(x) = y
      BY <2>2 DEF openai_image_part_to_anthropic
    <3>2. y \in SentPart /\ y.id = x.id /\ y.kind = "image"
      BY DEF Part, SentPart
    <3> HIDE DEF y
    <3> QED
      BY <2>1, <2>2, <3>1, <3>2 DEF ImageKinds
  <2>3. CASE x.kind \notin {"data_image", "http_image"}
    <3>1. new(x) = x
      BY <2>3 DEF openai_image_part_to_anthropic
    <3>2. x.kind # "image"
      BY <2>1 DEF PartKinds, ImageKinds
    <3> HIDE DEF new
    <3> QED
      BY <2>1, <3>1, <3>2
  <2> QED
    BY <2>2, <2>3
<1> HIDE DEF new
<1>5. q \in Seq(SentPart) /\ Len(q) = n /\ \A c \in 1..n : q[c] = new(p[c])
  <2>1. q \in [1..n -> SentPart]
    BY <1>2, <1>4
  <2>2. \A c \in 1..n : q[c] = new(p[c])
    OBVIOUS
  <2> HIDE DEF q
  <2> QED
    BY <1>2, <2>1, <2>2
<1> HIDE DEF q
<1>6. ForAnthropic(m).parts = q /\ ForAnthropic(m) \in SentMessage
  BY <1>1, <1>3, <1>5 DEF SentMessage, MessageOf
<1>7. ASSUME NEW c \in 1..n
      PROVE  /\ p[c] \in Part /\ q[c].id = p[c].id
             /\ p[c].kind = "text" => q[c] = p[c]
             /\ q[c].kind = "text" => p[c].kind = "text"
             /\ q[c].kind \in ImageKinds \cup {"image"} => p[c].kind \in ImageKinds
  BY <1>2, <1>4, <1>5
<1> QED
  BY <1>1, <1>5, <1>6, <1>7 DEF n, p

\* The conversation for Anthropic: the other messages, in order.
LEMMA SentConversation ==
    ASSUME NEW ms \in Seq(Message)
    PROVE  LET out == chat_completions_to_anthropic(ms).messages
           IN  /\ out \in Seq(SentMessage)
               /\ \A k \in 1..Len(out) : \E i \in 1..Len(ms) : ~OfSystem(ms[i]) /\ out[k] = ForAnthropic(ms[i])
               /\ \A i \in 1..Len(ms) : ~OfSystem(ms[i]) => \E k \in 1..Len(out) : out[k] = ForAnthropic(ms[i])
               /\ \A k, l \in 1..Len(out) : k < l => \E i, j \in 1..Len(ms) :
                     i < j /\ out[k] = ForAnthropic(ms[i]) /\ out[l] = ForAnthropic(ms[j])
<1> DEFINE n == Len(ms)
           ss == [i \in 1..n |-> IF OfSystem(ms[i]) THEN <<>> ELSE <<ForAnthropic(ms[i])>>]
           s == chat_completions_to_anthropic(ms).messages
<1>1. n \in Nat /\ DOMAIN ms = 1..n /\ \A i \in 1..n : ms[i] \in Message
  OBVIOUS
<1>2. s = FlattenSeq(ss)
  BY <1>1 DEF chat_completions_to_anthropic, Nothing
<1> HIDE DEF s, n
<1>3. ss \in Seq(Seq(SentMessage)) /\ Len(ss) = n
  <2>1. \A i \in 1..n : ForAnthropic(ms[i]) \in SentMessage
    BY <1>1, SentParts
  <2>2. \A i \in 1..n : ss[i] \in Seq(SentMessage)
    BY <2>1
  <2>3. ss \in [1..n -> Seq(SentMessage)]
    BY <2>2
  <2> HIDE DEF ss
  <2> QED
    BY <2>3, <1>1
<1>4. \A j \in 1..n : \A c \in 1..Len(ss[j]) : ~OfSystem(ms[j]) /\ c = 1 /\ ss[j][c] = ForAnthropic(ms[j])
  <2> SUFFICES ASSUME NEW j \in 1..n, NEW c \in 1..Len(ss[j])
               PROVE  ~OfSystem(ms[j]) /\ c = 1 /\ ss[j][c] = ForAnthropic(ms[j])
    OBVIOUS
  <2>1. CASE ~OfSystem(ms[j])
    <3>1. ss[j] = <<ForAnthropic(ms[j])>>
      BY <2>1
    <3> HIDE DEF ss
    <3> QED
      BY <2>1, <3>1
  <2>2. CASE OfSystem(ms[j])
    <3>1. ss[j] = <<>>
      BY <2>2
    <3> HIDE DEF ss
    <3> QED
      BY <3>1
  <2> QED
    BY <2>1, <2>2
<1>5. \A j \in 1..n : ~OfSystem(ms[j]) => 1 \in 1..Len(ss[j]) /\ ss[j][1] = ForAnthropic(ms[j])
  OBVIOUS
<1> HIDE DEF ss
<1>6. s \in Seq(SentMessage) /\ Spread(s, ss, n)
  BY <1>2, <1>3, FlattenSpreads
<1>7. ASSUME NEW a \in 1..Len(s) PROVE \E i \in 1..n : ~OfSystem(ms[i]) /\ s[a] = ForAnthropic(ms[i])
  <2>1. PICK k \in 1..n : \E c \in 1..Len(ss[k]) : s[a] = ss[k][c]
    BY <1>6 DEF Spread
  <2> QED
    BY <2>1, <1>4
<1>8. ASSUME NEW i \in 1..n, ~OfSystem(ms[i]) PROVE \E a \in 1..Len(s) : s[a] = ForAnthropic(ms[i])
  <2>1. 1 \in 1..Len(ss[i]) /\ ss[i][1] = ForAnthropic(ms[i])
    BY <1>8, <1>5
  <2> QED
    BY <2>1, <1>6 DEF Spread
<1>9. ASSUME NEW a \in 1..Len(s), NEW b \in 1..Len(s), a < b
      PROVE  \E i, j \in 1..n : i < j /\ s[a] = ForAnthropic(ms[i]) /\ s[b] = ForAnthropic(ms[j])
  <2>0. Before(s[a], s[b], ss, n)
    BY <1>6, <1>9 DEF Spread
  <2>1. PICK k, l \in 1..n : \E c \in 1..Len(ss[k]), d \in 1..Len(ss[l]) :
            s[a] = ss[k][c] /\ s[b] = ss[l][d] /\ (k < l \/ (k = l /\ c < d))
    BY <2>0 DEF Before
  <2>2. PICK c \in 1..Len(ss[k]), d \in 1..Len(ss[l]) :
            s[a] = ss[k][c] /\ s[b] = ss[l][d] /\ (k < l \/ (k = l /\ c < d))
    BY <2>1
  <2>3. c = 1 /\ d = 1 /\ s[a] = ForAnthropic(ms[k]) /\ s[b] = ForAnthropic(ms[l])
    BY <2>2, <1>4
  <2> QED
    BY <2>2, <2>3
<1> QED
  BY <1>6, <1>7, <1>8, <1>9 DEF s, n

\* The parts of messages, of whatever kind.
SpreadOver(s, ms) ==
    /\ \A a \in 1..Len(s) : \E i \in 1..Len(ms) : \E c \in 1..Len(ms[i].parts) : s[a] = ms[i].parts[c]
    /\ \A i \in 1..Len(ms) : \A c \in 1..Len(ms[i].parts) : \E a \in 1..Len(s) : s[a] = ms[i].parts[c]
    /\ \A a, b \in 1..Len(s) : a < b =>
          \E i, j \in 1..Len(ms) : \E c \in 1..Len(ms[i].parts), d \in 1..Len(ms[j].parts) :
             s[a] = ms[i].parts[c] /\ s[b] = ms[j].parts[d] /\ (i < j \/ (i = j /\ c < d))

LEMMA PartsSpread ==
    ASSUME NEW P, NEW ms \in Seq(MessageOf(P))
    PROVE  PartsOf(ms) \in Seq(P) /\ SpreadOver(PartsOf(ms), ms)
<1> DEFINE n == Len(ms)
           ss == [i \in 1..n |-> ms[i].parts]
           s == PartsOf(ms)
<1>0. \A m \in MessageOf(P) : m.parts \in Seq(P)
  BY DEF MessageOf
<1>1. n \in Nat /\ DOMAIN ms = 1..n /\ \A i \in 1..n : ms[i] \in MessageOf(P)
  BY <1>0
<1>2. s = FlattenSeq(ss)
  BY <1>1 DEF PartsOf
<1> HIDE DEF s, n
<1>3. ss \in Seq(Seq(P)) /\ Len(ss) = n
  <2>0. \A i \in 1..n : ms[i].parts \in Seq(P)
    BY <1>0, <1>1
  <2>1. ss \in [1..n -> Seq(P)]
    BY <2>0
  <2> HIDE DEF ss
  <2> QED
    BY <2>1, <1>1
<1>4. \A i \in 1..n : ss[i] = ms[i].parts
  OBVIOUS
<1> HIDE DEF ss
<1>5. s \in Seq(P) /\ Spread(s, ss, n)
  BY <1>2, <1>3, FlattenSpreads
<1>6. ASSUME NEW a \in 1..Len(s), NEW b \in 1..Len(s), a < b
      PROVE  \E i, j \in 1..n : \E c \in 1..Len(ms[i].parts), d \in 1..Len(ms[j].parts) :
                 s[a] = ms[i].parts[c] /\ s[b] = ms[j].parts[d] /\ (i < j \/ (i = j /\ c < d))
  <2>0. Before(s[a], s[b], ss, n)
    BY <1>5, <1>6 DEF Spread
  <2>1. PICK k, l \in 1..n : \E c \in 1..Len(ss[k]), d \in 1..Len(ss[l]) :
            s[a] = ss[k][c] /\ s[b] = ss[l][d] /\ (k < l \/ (k = l /\ c < d))
    BY <2>0 DEF Before
  <2> QED
    BY <2>1, <1>4
<1>7. ASSUME NEW a \in 1..Len(s) PROVE \E i \in 1..n : \E c \in 1..Len(ms[i].parts) : s[a] = ms[i].parts[c]
  <2>1. PICK k \in 1..n : \E c \in 1..Len(ss[k]) : s[a] = ss[k][c]
    BY <1>5 DEF Spread
  <2> QED
    BY <2>1, <1>4
<1>8. ASSUME NEW i \in 1..n, NEW c \in 1..Len(ms[i].parts) PROVE \E a \in 1..Len(s) : s[a] = ms[i].parts[c]
  <2>1. c \in 1..Len(ss[i]) /\ ss[i][c] = ms[i].parts[c]
    BY <1>4
  <2>2. \E a \in 1..Len(s) : s[a] = ss[i][c]
    BY <2>1, <1>5 DEF Spread
  <2> QED
    BY <2>1, <2>2
<1> QED
  BY <1>5, <1>6, <1>7, <1>8 DEF s, n, SpreadOver

Among(s) == {s[i] : i \in 1..Len(s)}
Said(role, id) == [role |-> role, parts |-> <<Text(id)>>]

LEMMA JoinAmong ==
    ASSUME NEW S, NEW s \in Seq(S), NEW t \in Seq(S)
    PROVE  s \o t \in Seq(S) /\ Among(s \o t) = Among(s) \cup Among(t)
<1> DEFINE u == s \o t
<1>1. /\ u \in Seq(S) /\ Len(u) = Len(s) + Len(t) /\ Len(s) \in Nat /\ Len(t) \in Nat
      /\ \A a \in 1..Len(s) : u[a] = s[a]
      /\ \A b \in 1..Len(t) : u[Len(s) + b] = t[b]
  BY JoinShape
<1> HIDE DEF u
<1>2. ASSUME NEW i \in 1..Len(u) PROVE u[i] \in Among(s) \cup Among(t)
  <2>1. i \in 1..Len(s) \/ (i - Len(s) \in 1..Len(t) /\ i = Len(s) + (i - Len(s)))
    BY <1>1
  <2> QED
    BY <1>1, <2>1 DEF Among
<1>3. ASSUME NEW j \in 1..Len(s) PROVE s[j] \in Among(u)
  <2>1. j \in 1..Len(u)
    BY <1>1
  <2> QED
    BY <1>1, <2>1 DEF Among
<1>4. ASSUME NEW j \in 1..Len(t) PROVE t[j] \in Among(u)
  <2>1. Len(s) + j \in 1..Len(u)
    BY <1>1
  <2> QED
    BY <1>1, <2>1 DEF Among
<1>5. Among(u) = Among(s) \cup Among(t)
  BY <1>2, <1>3, <1>4 DEF Among
<1> QED
  BY <1>1, <1>5 DEF u

LEMMA InstructedAmong ==
    ASSUME NEW role \in {"system", "developer"}, NEW ids \in Seq(Nat)
    PROVE  /\ Instructed(role, ids) \in Seq(Message)
           /\ Among(Instructed(role, ids)) = {Said(role, id) : id \in Among(ids)}
<1> DEFINE s == Instructed(role, ids)
           n == Len(ids)
<1>1. n \in Nat /\ DOMAIN ids = 1..n /\ \A i \in 1..n : ids[i] \in Nat
  OBVIOUS
<1>2. s = [i \in 1..n |-> Said(role, ids[i])]
  BY <1>1 DEF Instructed, Said
<1>3. \A i \in 1..n : Said(role, ids[i]) \in Message
  <2> SUFFICES ASSUME NEW i \in 1..n PROVE Said(role, ids[i]) \in Message
    OBVIOUS
  <2>1. Text(ids[i]) \in Part
    BY <1>1 DEF Text, Part, PartKinds
  <2>2. <<Text(ids[i])>> \in Seq(Part)
    BY <2>1
  <2> QED
    BY <2>2 DEF Message, MessageOf, Said
<1> HIDE DEF n, s
<1>4. s \in [1..n -> Message]
  BY <1>2, <1>3
<1>5. s \in Seq(Message) /\ Len(s) = n
  BY <1>1, <1>4
<1>6. \A j \in 1..n : s[j] = Said(role, ids[j])
  BY <1>2
<1>7. Among(s) = {Said(role, id) : id \in Among(ids)}
  BY <1>5, <1>6 DEF Among, n
<1> QED
  BY <1>5, <1>7 DEF s

\* The messages of a request: instructions of the system and of the developer,
\* then what the client wrote.
LEMMA RequestMessages ==
    ASSUME NEW r \in ChatRequests
    PROVE  /\ translate_request(r) \in Seq(Message) /\ IdsIncrease(translate_request(r)) /\ r.input \in Seq(Message)
           /\ r.instructions \in Seq(Nat) /\ r.developer \in Seq(Nat)
           /\ Among(translate_request(r)) = Among(r.input) \cup {Said("system", id) : id \in Among(r.instructions)}
                                              \cup {Said("developer", id) : id \in Among(r.developer)}
<1> DEFINE ms == translate_request(r)
           x == Instructed("system", r.instructions)
           y == Instructed("developer", r.developer)
           z == r.input
           xy == x \o y
<1>1. r.instructions \in Seq(Nat) /\ r.developer \in Seq(Nat) /\ z \in Seq(Message)
  <2> DEFINE M == [role : STRING, parts : Seq(Part)]
  <2>1. r.instructions \in Seq(Nat) /\ r.developer \in Seq(Nat) /\ z \in Seq(M)
    BY RequestsAssumption DEF Part
  <2>2. \A m \in M : m \in Message
    BY DEF Message, MessageOf
  <2> HIDE DEF M, z
  <2>3. z \in Seq(Message)
    BY <2>1, <2>2
  <2> QED
    BY <2>1, <2>3
<1>2. x \in Seq(Message) /\ Among(x) = {Said("system", id) : id \in Among(r.instructions)}
  BY <1>1, InstructedAmong
<1>3. y \in Seq(Message) /\ Among(y) = {Said("developer", id) : id \in Among(r.developer)}
  BY <1>1, InstructedAmong
<1>4. ms = xy \o z
  BY DEF translate_request
<1> HIDE DEF x, y, z
<1>5. xy \in Seq(Message) /\ Among(xy) = Among(x) \cup Among(y)
  BY <1>2, <1>3, JoinAmong
<1> HIDE DEF xy, ms
<1>6. ms \in Seq(Message) /\ Among(ms) = Among(xy) \cup Among(z)
  BY <1>1, <1>4, <1>5, JoinAmong
<1>7. IdsIncrease(ms)
  <2>1. \A i, j \in DOMAIN ms : i <= j =>
          \A c \in DOMAIN ms[i].parts, d \in DOMAIN ms[j].parts :
              i < j \/ c < d => ms[i].parts[c].id < ms[j].parts[d].id
    BY RequestsAssumption DEF ms
  <2>2. DOMAIN ms = 1..Len(ms) /\ Len(ms) \in Nat /\ \A i \in 1..Len(ms) : ms[i] \in Message
    BY <1>6
  <2>3. \A i \in 1..Len(ms) : DOMAIN ms[i].parts = 1..Len(ms[i].parts)
    BY <2>2 DEF Message, MessageOf
  <2> SUFFICES ASSUME NEW i \in 1..Len(ms), NEW j \in 1..Len(ms),
                      NEW c \in 1..Len(ms[i].parts), NEW d \in 1..Len(ms[j].parts), i < j \/ (i = j /\ c < d)
               PROVE  ms[i].parts[c].id < ms[j].parts[d].id
    BY DEF IdsIncrease
  <2>4. i <= j /\ (i < j \/ c < d)
    BY <2>2
  <2> QED
    BY <2>1, <2>2, <2>3, <2>4
<1>8. Among(ms) = Among(z) \cup Among(x) \cup Among(y)
  BY <1>5, <1>6
<1>9. Among(ms) = Among(z) \cup {Said("system", id) : id \in Among(r.instructions)}
                       \cup {Said("developer", id) : id \in Among(r.developer)}
  BY <1>2, <1>3, <1>8
<1> QED
  BY <1>1, <1>6, <1>7, <1>9 DEF ms, z

LEMMA PartsAmong ==
    ASSUME NEW P, NEW ms \in Seq(MessageOf(P))
    PROVE  /\ Parts(ms) = Among(PartsOf(ms)) /\ PartsOf(ms) \in Seq(P)
           /\ \A p : p \in Parts(ms) <=> \E m \in Among(ms) : p \in Among(m.parts)
<1> DEFINE s == PartsOf(ms)
<1>0. s \in Seq(P) /\ SpreadOver(s, ms)
  BY PartsSpread
<1>1. /\ s \in Seq(P)
      /\ \A a \in 1..Len(s) : \E i \in 1..Len(ms) : \E c \in 1..Len(ms[i].parts) : s[a] = ms[i].parts[c]
      /\ \A i \in 1..Len(ms) : \A c \in 1..Len(ms[i].parts) : \E a \in 1..Len(s) : s[a] = ms[i].parts[c]
  BY <1>0 DEF SpreadOver
<1>2. Parts(ms) = {s[a] : a \in DOMAIN s}
  BY DEF Parts
<1> HIDE DEF s
<1>3. DOMAIN s = 1..Len(s)
  BY <1>1
<1>4. Parts(ms) = Among(s)
  BY <1>2, <1>3 DEF Among
<1>5. ASSUME NEW p PROVE p \in Among(s) <=> \E m \in Among(ms) : p \in Among(m.parts)
  <2>1. ASSUME p \in Among(s) PROVE \E m \in Among(ms) : p \in Among(m.parts)
    <3>1. PICK a \in 1..Len(s) : p = s[a]
      BY <2>1 DEF Among
    <3>2. PICK i \in 1..Len(ms) : \E c \in 1..Len(ms[i].parts) : s[a] = ms[i].parts[c]
      BY <1>1
    <3>3. ms[i] \in Among(ms) /\ p \in Among(ms[i].parts)
      BY <3>1, <3>2 DEF Among
    <3> QED
      BY <3>3
  <2>2. ASSUME NEW m \in Among(ms), p \in Among(m.parts) PROVE p \in Among(s)
    <3>1. PICK i \in 1..Len(ms) : m = ms[i]
      BY DEF Among
    <3>2. PICK c \in 1..Len(m.parts) : p = m.parts[c]
      BY <2>2 DEF Among
    <3>3. \E a \in 1..Len(s) : s[a] = ms[i].parts[c]
      BY <3>1, <3>2, <1>1
    <3> QED
      BY <3>1, <3>2, <3>3 DEF Among
  <2> QED
    BY <2>1, <2>2
<1> QED
  BY <1>1, <1>4, <1>5 DEF s

\* The parts for Anthropic: in order, and made of those of the messages.
LEMMA SentInOrder ==
    ASSUME NEW ms \in Seq(Message), IdsIncrease(ms)
    PROVE  Increasing(Ids(PartsOf(chat_completions_to_anthropic(ms).messages)))
<1> DEFINE out == chat_completions_to_anthropic(ms).messages
           s == PartsOf(out)
<1>1. /\ out \in Seq(SentMessage)
      /\ \A k \in 1..Len(out) : \E i \in 1..Len(ms) : ~OfSystem(ms[i]) /\ out[k] = ForAnthropic(ms[i])
      /\ \A k, l \in 1..Len(out) : k < l => \E i, j \in 1..Len(ms) :
            i < j /\ out[k] = ForAnthropic(ms[i]) /\ out[l] = ForAnthropic(ms[j])
  BY SentConversation
<1> HIDE DEF out
<1>0. s \in Seq(SentPart) /\ SpreadOver(s, out)
  BY <1>1, PartsSpread DEF SentMessage
<1>2. /\ s \in Seq(SentPart)
      /\ \A a, b \in 1..Len(s) : a < b =>
            \E i, j \in 1..Len(out) : \E c \in 1..Len(out[i].parts), d \in 1..Len(out[j].parts) :
               s[a] = out[i].parts[c] /\ s[b] = out[j].parts[d] /\ (i < j \/ (i = j /\ c < d))
  BY <1>0 DEF SpreadOver
<1> HIDE DEF s
<1>3. ASSUME NEW i \in 1..Len(ms)
      PROVE  /\ Len(ForAnthropic(ms[i]).parts) = Len(ms[i].parts)
             /\ \A c \in 1..Len(ms[i].parts) : ForAnthropic(ms[i]).parts[c].id = ms[i].parts[c].id
  <2>1. ms[i] \in Message
    OBVIOUS
  <2> QED
    BY <2>1, SentParts
<1>4. ASSUME NEW a \in 1..Len(s), NEW b \in 1..Len(s), a < b PROVE s[a].id < s[b].id
  <2>1. PICK k, l \in 1..Len(out) : \E c \in 1..Len(out[k].parts), d \in 1..Len(out[l].parts) :
               s[a] = out[k].parts[c] /\ s[b] = out[l].parts[d] /\ (k < l \/ (k = l /\ c < d))
    BY <1>2, <1>4
  <2>2. PICK c \in 1..Len(out[k].parts), d \in 1..Len(out[l].parts) :
               s[a] = out[k].parts[c] /\ s[b] = out[l].parts[d] /\ (k < l \/ (k = l /\ c < d))
    BY <2>1
  <2>3. CASE k < l
    <3>1. PICK i, j \in 1..Len(ms) : i < j /\ out[k] = ForAnthropic(ms[i]) /\ out[l] = ForAnthropic(ms[j])
      BY <2>3, <1>1
    <3>2. c \in 1..Len(ms[i].parts) /\ d \in 1..Len(ms[j].parts)
      BY <2>2, <3>1, <1>3
    <3>3. ms[i].parts[c].id < ms[j].parts[d].id
      BY <3>1, <3>2 DEF IdsIncrease
    <3>4. s[a].id = ms[i].parts[c].id /\ s[b].id = ms[j].parts[d].id
      BY <2>2, <3>1, <3>2, <1>3
    <3> QED
      BY <3>3, <3>4
  <2>4. CASE k = l /\ c < d
    <3>1. PICK i \in 1..Len(ms) : out[k] = ForAnthropic(ms[i])
      BY <1>1
    <3>2. c \in 1..Len(ms[i].parts) /\ d \in 1..Len(ms[i].parts)
      BY <2>2, <2>4, <3>1, <1>3
    <3>3. ms[i].parts[c].id < ms[i].parts[d].id
      BY <2>4, <3>2 DEF IdsIncrease
    <3>4. s[a].id = ms[i].parts[c].id /\ s[b].id = ms[i].parts[d].id
      BY <2>2, <2>4, <3>1, <3>2, <1>3
    <3> QED
      BY <3>3, <3>4
  <2> QED
    BY <2>2, <2>3, <2>4
<1>5. DOMAIN s = 1..Len(s)
  BY <1>2
<1>6. Increasing(Ids(s))
  BY <1>4, <1>5 DEF Increasing, Ids
<1> QED
  BY <1>6 DEF s, out

\* What is sent of a request: the parts of its other messages, and for the
\* system the texts of its own.
LEMMA SentAmong ==
    ASSUME NEW ms \in Seq(Message), IdsIncrease(ms)
    PROVE  LET out == chat_completions_to_anthropic(ms)
           IN  /\ \A q : q \in Parts(out.messages) <=>
                      \E m \in Among(ms) : ~OfSystem(m) /\ q \in Among(ForAnthropic(m).parts)
               /\ \A q : q \in Among(out.system) <=>
                      \E m \in Among(ms) : OfSystem(m) /\ q \in Among(m.parts) /\ q.kind = "text"
               /\ out.system \in Seq(Part)
<1> DEFINE o == chat_completions_to_anthropic(ms)
           out == o.messages
           sys == o.system
<1>1. /\ out \in Seq(SentMessage)
      /\ \A k \in 1..Len(out) : \E i \in 1..Len(ms) : ~OfSystem(ms[i]) /\ out[k] = ForAnthropic(ms[i])
      /\ \A i \in 1..Len(ms) : ~OfSystem(ms[i]) => \E k \in 1..Len(out) : out[k] = ForAnthropic(ms[i])
  BY SentConversation
<1>2. /\ sys \in Seq(Part)
      /\ \A a \in 1..Len(sys) : \E i \in 1..Len(ms) : \E c \in 1..Len(ms[i].parts) :
            OfSystem(ms[i]) /\ ms[i].parts[c].kind = "text" /\ sys[a] = ms[i].parts[c]
      /\ \A i \in 1..Len(ms) : \A c \in 1..Len(ms[i].parts) :
            OfSystem(ms[i]) /\ ms[i].parts[c].kind = "text" => \E a \in 1..Len(sys) : sys[a] = ms[i].parts[c]
  BY SystemTexts
<1> HIDE DEF o
<1>3. \A q : q \in Parts(out) <=> \E m \in Among(out) : q \in Among(m.parts)
  <2>1. out \in Seq(MessageOf(SentPart))
    BY <1>1 DEF SentMessage
  <2> HIDE DEF out
  <2> QED
    BY <2>1, PartsAmong
<1> HIDE DEF out, sys
<1>4. \A m : m \in Among(out) <=> \E i \in 1..Len(ms) : ~OfSystem(ms[i]) /\ m = ForAnthropic(ms[i])
  <2>1. ASSUME NEW m \in Among(out) PROVE \E i \in 1..Len(ms) : ~OfSystem(ms[i]) /\ m = ForAnthropic(ms[i])
    <3>1. PICK k \in 1..Len(out) : m = out[k]
      BY DEF Among
    <3> QED
      BY <3>1, <1>1
  <2>2. ASSUME NEW i \in 1..Len(ms), ~OfSystem(ms[i]) PROVE ForAnthropic(ms[i]) \in Among(out)
    <3>1. PICK k \in 1..Len(out) : out[k] = ForAnthropic(ms[i])
      BY <2>2, <1>1
    <3> QED
      BY <3>1 DEF Among
  <2> QED
    BY <2>1, <2>2
<1>5. ASSUME NEW q
      PROVE  q \in Parts(out) <=> \E m \in Among(ms) : ~OfSystem(m) /\ q \in Among(ForAnthropic(m).parts)
  <2>1. ASSUME q \in Parts(out) PROVE \E m \in Among(ms) : ~OfSystem(m) /\ q \in Among(ForAnthropic(m).parts)
    <3>1. PICK w \in Among(out) : q \in Among(w.parts)
      BY <2>1, <1>3
    <3>2. PICK i \in 1..Len(ms) : ~OfSystem(ms[i]) /\ w = ForAnthropic(ms[i])
      BY <1>4
    <3>3. ms[i] \in Among(ms)
      BY DEF Among
    <3> QED
      BY <3>1, <3>2, <3>3
  <2>2. ASSUME NEW m \in Among(ms), ~OfSystem(m), q \in Among(ForAnthropic(m).parts) PROVE q \in Parts(out)
    <3>1. PICK i \in 1..Len(ms) : m = ms[i]
      BY DEF Among
    <3>2. ForAnthropic(m) \in Among(out)
      BY <2>2, <3>1, <1>4
    <3> QED
      BY <2>2, <3>2, <1>3
  <2> QED
    BY <2>1, <2>2
<1>6. ASSUME NEW q
      PROVE  q \in Among(sys) <=> \E m \in Among(ms) : OfSystem(m) /\ q \in Among(m.parts) /\ q.kind = "text"
  <2>1. ASSUME q \in Among(sys) PROVE \E m \in Among(ms) : OfSystem(m) /\ q \in Among(m.parts) /\ q.kind = "text"
    <3>1. PICK a \in 1..Len(sys) : q = sys[a]
      BY <2>1 DEF Among
    <3>2. PICK i \in 1..Len(ms) : \E c \in 1..Len(ms[i].parts) :
              OfSystem(ms[i]) /\ ms[i].parts[c].kind = "text" /\ sys[a] = ms[i].parts[c]
      BY <1>2
    <3>3. ms[i] \in Among(ms) /\ q \in Among(ms[i].parts)
      BY <3>1, <3>2 DEF Among
    <3> QED
      BY <3>1, <3>2, <3>3
  <2>2. ASSUME NEW m \in Among(ms), OfSystem(m), q \in Among(m.parts), q.kind = "text" PROVE q \in Among(sys)
    <3>1. PICK i \in 1..Len(ms) : m = ms[i]
      BY DEF Among
    <3>2. PICK c \in 1..Len(m.parts) : q = m.parts[c]
      BY <2>2 DEF Among
    <3>3. \E a \in 1..Len(sys) : sys[a] = ms[i].parts[c]
      BY <2>2, <3>1, <3>2, <1>2
    <3> QED
      BY <3>1, <3>2, <3>3 DEF Among
  <2> QED
    BY <2>1, <2>2
<1> QED
  BY <1>2, <1>5, <1>6 DEF sys, out, o

LEMMA TextIsItself ==
    ASSUME NEW p \in Part, p.kind = "text"
    PROVE  p = Text(p.id)
BY DEF Part, Text

LEMMA SaidByTheSystem ==
    ASSUME NEW role \in {"system", "developer"}, NEW id
    PROVE  OfSystem(Said(role, id)) /\ Among(Said(role, id).parts) = {Text(id)} /\ Text(id).kind = "text"
<1>1. Said(role, id).role = role /\ Said(role, id).parts = <<Text(id)>>
  BY DEF Said
<1>2. Among(<<Text(id)>>) = {Text(id)}
  BY DEF Among
<1>3. OfSystem(Said(role, id))
  BY <1>1 DEF OfSystem
<1> QED
  BY <1>1, <1>2, <1>3 DEF Text

LEMMA RequestIsKept ==
    ASSUME request \in ChatRequests
    PROVE  RequestKept
<1> DEFINE z == request.input
           ms == translate_request(request)
           out == chat_completions_to_anthropic(ms)
           said == Parts(out.messages)
           sys == out.system
<1>1. /\ ms \in Seq(Message) /\ IdsIncrease(ms) /\ z \in Seq(Message)
      /\ request.instructions \in Seq(Nat) /\ request.developer \in Seq(Nat)
      /\ Among(ms) = Among(z) \cup {Said("system", id) : id \in Among(request.instructions)}
                         \cup {Said("developer", id) : id \in Among(request.developer)}
  BY RequestMessages
<1>2. DOMAIN request.instructions = 1..Len(request.instructions) /\ DOMAIN request.developer = 1..Len(request.developer)
  BY <1>1
<1>3. TextIds(request) = {p.id : p \in {q \in Parts(z) : q.kind = "text"}}
                            \cup Among(request.instructions) \cup Among(request.developer)
  BY <1>2 DEF TextIds, Among
<1> HIDE DEF ms, z
<1>4. /\ \A q : q \in said <=> \E m \in Among(ms) : ~OfSystem(m) /\ q \in Among(ForAnthropic(m).parts)
      /\ \A q : q \in Among(sys) <=> \E m \in Among(ms) : OfSystem(m) /\ q \in Among(m.parts) /\ q.kind = "text"
      /\ sys \in Seq(Part)
  BY <1>1, SentAmong
<1>5. Increasing(Ids(sys))
  BY <1>1, SystemTexts
<1>6. Increasing(Ids(PartsOf(out.messages)))
  BY <1>1, SentInOrder
<1>7. \A p : p \in Parts(z) <=> \E m \in Among(z) : p \in Among(m.parts)
  <2>1. z \in Seq(MessageOf(Part))
    BY <1>1 DEF Message
  <2> QED
    BY <2>1, PartsAmong
<1> HIDE DEF out
<1>8. {sys[i] : i \in DOMAIN sys} = Among(sys)
  <2> HIDE DEF sys
  <2>1. DOMAIN sys = 1..Len(sys)
    BY <1>4
  <2> QED
    BY <2>1 DEF Among
<1> HIDE DEF said, sys
<1>9. \A m \in Among(z) : m \in Message
  BY <1>1 DEF Among
<1>10. ASSUME NEW m \in Among(ms), ~OfSystem(m) PROVE m \in Among(z)
  BY <1>1, <1>10, SaidByTheSystem
\* The parts of one message, before and after.
<1>11. ASSUME NEW m \in Among(z), NEW q \in Among(ForAnthropic(m).parts)
       PROVE  \E p \in Among(m.parts) :
                 /\ p \in Part /\ q.id = p.id /\ (q.kind = "text" => q = p /\ p.kind = "text")
                 /\ q.kind \in ImageKinds \cup {"image"} => p.kind \in ImageKinds
  <2>1. m \in Message
    BY <1>9
  <2>2. PICK c \in 1..Len(ForAnthropic(m).parts) : q = ForAnthropic(m).parts[c]
    BY DEF Among
  <2>3. c \in 1..Len(m.parts)
    BY <2>1, <2>2, SentParts
  <2>4. m.parts[c] \in Among(m.parts)
    BY <2>3 DEF Among
  <2>5. /\ m.parts[c] \in Part /\ q.id = m.parts[c].id
        /\ (m.parts[c].kind = "text" => q = m.parts[c])
        /\ (q.kind = "text" => m.parts[c].kind = "text")
        /\ (q.kind \in ImageKinds \cup {"image"} => m.parts[c].kind \in ImageKinds)
    BY <2>1, <2>2, <2>3, SentParts
  <2> QED
    BY <2>4, <2>5
<1>12. ASSUME NEW m \in Among(z), NEW p \in Among(m.parts)
       PROVE  \E q \in Among(ForAnthropic(m).parts) : q.id = p.id /\ (p.kind = "text" => q = p)
  <2>1. m \in Message
    BY <1>9
  <2>2. PICK c \in 1..Len(m.parts) : p = m.parts[c]
    BY DEF Among
  <2>3. c \in 1..Len(ForAnthropic(m).parts)
    BY <2>1, <2>2, SentParts
  <2>4. ForAnthropic(m).parts[c] \in Among(ForAnthropic(m).parts)
    BY <2>3 DEF Among
  <2>5. ForAnthropic(m).parts[c].id = p.id /\ (p.kind = "text" => ForAnthropic(m).parts[c] = p)
    BY <2>1, <2>2, SentParts
  <2> QED
    BY <2>4, <2>5
<1>13. \A p \in Parts(z) : p \in Part
  <2> SUFFICES ASSUME NEW p \in Parts(z) PROVE p \in Part
    OBVIOUS
  <2>1. PICK m \in Among(z) : p \in Among(m.parts)
    BY <1>7
  <2>2. m.parts \in Seq(Part)
    BY <1>9, SentParts
  <2> QED
    BY <2>1, <2>2 DEF Among
<1>14. ASSUME NEW q \in said, q.kind = "text" PROVE q \in {Text(id) : id \in TextIds(request)}
  <2>1. PICK m \in Among(ms) : ~OfSystem(m) /\ q \in Among(ForAnthropic(m).parts)
    BY <1>4
  <2>2. m \in Among(z)
    BY <2>1, <1>10
  <2>3. q \in Parts(z) /\ q \in Part
    BY <2>1, <2>2, <1>7, <1>11, <1>14
  <2>4. q = Text(q.id) /\ q.id \in TextIds(request)
    BY <2>3, <1>3, <1>14, TextIsItself
  <2> QED
    BY <2>4
<1>15. ASSUME NEW q \in Among(sys) PROVE q \in {Text(id) : id \in TextIds(request)}
  <2>1. PICK m \in Among(ms) : OfSystem(m) /\ q \in Among(m.parts) /\ q.kind = "text"
    BY <1>4
  <2>2. CASE m \in Among(z)
    <3>1. q \in Parts(z) /\ q \in Part
      BY <2>1, <2>2, <1>7, <1>13
    <3>2. q = Text(q.id) /\ q.id \in TextIds(request)
      BY <2>1, <3>1, <1>3, TextIsItself
    <3> QED
      BY <3>2
  <2>3. ASSUME NEW id \in Among(request.instructions), m = Said("system", id) PROVE q = Text(id) /\ id \in TextIds(request)
    BY <2>1, <2>3, <1>3, SaidByTheSystem
  <2>4. ASSUME NEW id \in Among(request.developer), m = Said("developer", id) PROVE q = Text(id) /\ id \in TextIds(request)
    BY <2>1, <2>4, <1>3, SaidByTheSystem
  <2> QED
    BY <2>2, <2>3, <2>4, <1>1
<1>16. ASSUME NEW id \in TextIds(request) PROVE Text(id) \in Among(sys) \/ (Text(id) \in said /\ Text(id).kind = "text")
  <2>1. ASSUME NEW p \in Parts(z), p.kind = "text", id = p.id
        PROVE  Text(id) \in Among(sys) \/ (Text(id) \in said /\ Text(id).kind = "text")
    <3>1. Text(id) = p
      BY <2>1, <1>13, TextIsItself
    <3>2. PICK m \in Among(z) : p \in Among(m.parts)
      BY <1>7
    <3>3. m \in Among(ms)
      BY <1>1
    <3>4. CASE OfSystem(m)
      BY <2>1, <3>1, <3>2, <3>3, <3>4, <1>4
    <3>5. CASE ~OfSystem(m)
      <4>1. p \in Among(ForAnthropic(m).parts)
        BY <2>1, <3>2, <1>12
      <4> QED
        BY <2>1, <3>1, <3>3, <3>5, <4>1, <1>4
    <3> QED
      BY <3>4, <3>5
  <2>2. ASSUME NEW role \in {"system", "developer"}, Said(role, id) \in Among(ms) PROVE Text(id) \in Among(sys)
    BY <2>2, <1>4, SaidByTheSystem
  <2>3. id \in Among(request.instructions) => Said("system", id) \in Among(ms)
    BY <1>1
  <2>4. id \in Among(request.developer) => Said("developer", id) \in Among(ms)
    BY <1>1
  <2> QED
    BY <2>1, <2>2, <2>3, <2>4, <1>3
<1>17. {p \in said : p.kind = "text"} \cup {sys[i] : i \in DOMAIN sys} = {Text(id) : id \in TextIds(request)}
  BY <1>8, <1>14, <1>15, <1>16
<1>18. ASSUME NEW i \in DOMAIN z, z[i].role = "user", NEW p \in Parts(<<z[i]>>) PROVE \E q \in said : q.id = p.id
  <2> DEFINE m == z[i]
  <2>1. m \in Among(z)
    BY <1>1 DEF Among
  <2>2. m \in Among(ms) /\ m \in Message /\ m.role = "user"
    BY <2>1, <1>1, <1>9, <1>18
  <2> HIDE DEF m
  <2>3. <<m>> \in Seq(MessageOf(Part)) /\ Among(<<m>>) = {m}
    BY <2>2 DEF Message, Among
  <2>4. p \in Among(m.parts)
    <3>1. p \in Parts(<<m>>)
      BY DEF m
    <3>2. \E w \in Among(<<m>>) : p \in Among(w.parts)
      BY <2>3, <3>1, PartsAmong
    <3> QED
      BY <2>3, <3>2
  <2>5. ~OfSystem(m)
    BY <2>2 DEF OfSystem
  <2>6. PICK q \in Among(ForAnthropic(m).parts) : q.id = p.id
    BY <2>1, <2>4, <1>12
  <2> QED
    BY <2>2, <2>5, <2>6, <1>4
<1>19. ASSUME NEW q \in said, q.kind \in ImageKinds \cup {"image"} PROVE "vision" \in detect_capability(request)
  <2>1. PICK m \in Among(ms) : ~OfSystem(m) /\ q \in Among(ForAnthropic(m).parts)
    BY <1>4
  <2>2. m \in Among(z)
    BY <2>1, <1>10
  <2>3. \E p \in Parts(z) : p.kind \in ImageKinds
    BY <2>1, <2>2, <1>7, <1>11, <1>19
  <2> QED
    BY <2>3 DEF detect_capability, z
<1> QED
  BY <1>5, <1>6, <1>17, <1>18, <1>19 DEF RequestKept, said, sys, out, ms, z

-----------------------------------------------------------------------------
(* Answers: what was heard so far, and what the whole has.                 *)

Opening(s, m) == SubSeq(s, 1, m)
Piece(s, m, n) == SubSeq(s, m + 1, n)

LEMMA Pieces ==
    ASSUME NEW S, NEW s \in Seq(S), NEW n \in 0..Len(s), NEW m \in 0..n
    PROVE  /\ Opening(s, m) \in Seq(S) /\ Piece(s, m, n) \in Seq(S)
           /\ Opening(s, m) \o Piece(s, m, n) = Opening(s, n)
           /\ Opening(s, 0) = <<>> /\ Opening(s, Len(s)) = s
<1> DEFINE x == Opening(s, m)
           y == Piece(s, m, n)
           z == Opening(s, n)
<1>0. m \in Nat /\ n \in Nat /\ Len(s) \in Nat
  OBVIOUS
<1>1. x \in Seq(S) /\ Len(x) = m /\ \A i \in 1..m : x[i] = s[i]
  BY <1>0 DEF Opening
<1>2. z \in Seq(S) /\ Len(z) = n /\ \A i \in 1..n : z[i] = s[i]
  BY <1>0 DEF Opening
<1>3. y \in Seq(S) /\ Len(y) = n - m /\ \A i \in 1..n - m : y[i] = s[m + i]
  BY <1>0 DEF Piece
<1> HIDE DEF x, y, z
<1>4. x \o y = z
  <2> DEFINE u == x \o y
  <2>1. /\ u \in Seq(S) /\ Len(u) = n
        /\ \A a \in 1..m : u[a] = x[a]
        /\ \A b \in 1..n - m : u[m + b] = y[b]
    <3>1. /\ u \in Seq(S) /\ Len(u) = Len(x) + Len(y)
          /\ \A a \in 1..Len(x) : u[a] = x[a]
          /\ \A b \in 1..Len(y) : u[Len(x) + b] = y[b]
      <4>1. x \in Seq(S) /\ y \in Seq(S)
        BY <1>1, <1>3
      <4> QED
        BY ONLY <4>1, JoinShape
    <3> HIDE DEF u
    <3> QED
      BY <3>1, <1>0, <1>1, <1>3
  <2> HIDE DEF u
  <2>2. \A i \in 1..n : u[i] = z[i]
    <3> SUFFICES ASSUME NEW i \in 1..n PROVE u[i] = z[i]
      OBVIOUS
    <3>1. CASE i \in 1..m
      BY <3>1, <2>1, <1>1, <1>2
    <3>2. CASE i \notin 1..m
      <4>1. i - m \in 1..n - m /\ m + (i - m) = i
        BY <3>2, <1>0
      <4> QED
        BY <4>1, <2>1, <1>2, <1>3
    <3> QED
      BY <3>1, <3>2
  <2> QED
    BY <2>1, <2>2, <1>2 DEF u
<1>5. Opening(s, 0) = <<>> /\ Opening(s, Len(s)) = s
  BY <1>0 DEF Opening
<1> QED
  BY <1>1, <1>3, <1>4, <1>5 DEF x, y, z

LEMMA JoiningJoined ==
    ASSUME NEW S, NEW x \in Seq(S), NEW y \in Seq(S), NEW z \in Seq(S)
    PROVE  (x \o y) \o z = x \o (y \o z) /\ x \o <<>> = x /\ <<>> \o x = x
OBVIOUS

Block == [kind : STRING, symbols : Seq(STRING)]

\* What each block has of one kind, and how it joins from block to block.
OfKind(b, want) == IF b.kind = want THEN b.symbols ELSE <<>>
EachOf(a, want) == [i \in 1..Len(a.blocks) |-> OfKind(a.blocks[i], want)]
Joins(f, a, want) ==
    /\ JoinedUp(f, EachOf(a, want)) /\ SymbolsOf(a, want) = f[Len(a.blocks)]
    /\ \A k \in 0..Len(a.blocks) : f[k] \in Seq(STRING)
Joining(a, want) == CHOOSE f : Joins(f, a, want)

\* What was sent of one kind, if the stream stands at s.
SoFar(a, want, s) ==
    IF s.block \in 1..Len(a.blocks)
    THEN Joining(a, want)[s.block - 1] \o Opening(OfKind(a.blocks[s.block], want), IF a.blocks[s.block].kind = want THEN s.symbol ELSE 0)
    ELSE SymbolsOf(a, want)

LEMMA AnswerShape ==
    ASSUME NEW a \in Answers
    PROVE  /\ a.protocol \in {"openai", "anthropic"} /\ a.blocks \in Seq(Block) /\ a.stop \in STRING
           /\ a.input \in Int /\ a.output \in Int /\ a.input >= Absent /\ a.output >= Absent
           /\ Len(a.blocks) \in Nat /\ DOMAIN a.blocks = 1..Len(a.blocks)
           /\ \A i \in 1..Len(a.blocks) : a.blocks[i] \in Block /\ a.blocks[i].symbols \in Seq(STRING)
<1>1. /\ a.protocol \in {"openai", "anthropic"} /\ a.blocks \in Seq(Block) /\ a.stop \in STRING
      /\ a.input \in Int /\ a.output \in Int /\ a.input >= Absent /\ a.output >= Absent
  BY AnswersAssumption DEF Block
<1>2. Len(a.blocks) \in Nat /\ DOMAIN a.blocks = 1..Len(a.blocks) /\ \A i \in 1..Len(a.blocks) : a.blocks[i] \in Block
  BY <1>1
<1>3. \A b \in Block : b.symbols \in Seq(STRING)
  BY DEF Block
<1> QED
  BY <1>1, <1>2, <1>3

LEMMA KindShape ==
    ASSUME NEW a \in Answers, NEW want, NEW i \in 1..Len(a.blocks)
    PROVE  OfKind(a.blocks[i], want) \in Seq(STRING)
<1>1. a.blocks[i].symbols \in Seq(STRING) /\ <<>> \in Seq(STRING)
  BY AnswerShape
<1> QED
  BY <1>1 DEF OfKind

LEMMA AnswerJoins ==
    ASSUME NEW a \in Answers, NEW want
    PROVE  Joins(Joining(a, want), a, want)
<1> DEFINE n == Len(a.blocks)
           ss == EachOf(a, want)
<1>1. n \in Nat /\ DOMAIN a.blocks = 1..n
  BY AnswerShape
<1>2. SymbolsOf(a, want) = FlattenSeq(ss)
  BY <1>1 DEF SymbolsOf, EachOf, OfKind, Nothing
<1>3. ss \in [1..n -> Seq(STRING)]
  BY KindShape DEF EachOf
<1> HIDE DEF n, ss
<1>4. ss \in Seq(Seq(STRING)) /\ Len(ss) = n
  BY <1>1, <1>3
<1>5. PICK f : /\ JoinedUp(f, ss) /\ FlattenSeq(ss) = f[Len(ss)]
               /\ \A k \in 0..Len(ss) : f[k] \in Seq(STRING)
  BY <1>4, FlattenJoins
<1>6. Joins(f, a, want)
  BY <1>2, <1>4, <1>5 DEF Joins, n, ss
<1> QED
  BY <1>6 DEF Joining

\* The three ways on: the first block begins, a block goes on, a block ends.
LEMMA SoFarBegins ==
    ASSUME NEW a \in Answers, NEW want, NEW s, s.block = 1, s.symbol = 0
    PROVE  SoFar(a, want, s) = <<>>
<1> DEFINE n == Len(a.blocks)
           f == Joining(a, want)
<1>1. n \in Nat /\ Joins(f, a, want)
  BY AnswerShape, AnswerJoins
<1>2. f[0] = <<>> /\ SymbolsOf(a, want) = f[n]
  BY <1>1 DEF Joins, JoinedUp
<1>3. CASE 1 \in 1..n
  <2>1. OfKind(a.blocks[1], want) \in Seq(STRING)
    BY <1>3, KindShape
  <2>2. 0 \in 0..0 /\ 0 \in 0..Len(OfKind(a.blocks[1], want))
    BY <2>1
  <2>3. Opening(OfKind(a.blocks[1], want), 0) = <<>>
    BY <2>1, <2>2, Pieces
  <2>4. SoFar(a, want, s) = f[1 - 1] \o Opening(OfKind(a.blocks[1], want), 0)
    BY <1>3 DEF SoFar
  <2>5. 1 - 1 = 0 /\ <<>> \o <<>> = <<>>
    OBVIOUS
  <2> HIDE DEF f
  <2> QED
    BY <1>2, <2>3, <2>4, <2>5
<1>4. CASE 1 \notin 1..n
  <2>1. n = 0
    BY <1>1, <1>4
  <2> QED
    BY <1>2, <1>4, <2>1 DEF SoFar
<1> QED
  BY <1>3, <1>4

LEMMA SoFarGoesOn ==
    ASSUME NEW a \in Answers, NEW want, NEW s, NEW t, s.block \in 1..Len(a.blocks), t.block = s.block,
           t.symbol \in 0..Len(a.blocks[s.block].symbols), s.symbol \in 0..t.symbol
    PROVE  SoFar(a, want, t)
             = SoFar(a, want, s) \o (IF a.blocks[s.block].kind = want
                                     THEN Piece(a.blocks[s.block].symbols, s.symbol, t.symbol) ELSE <<>>)
<1> DEFINE n == Len(a.blocks)
           f == Joining(a, want)
           k == s.block
           b == a.blocks[k]
           x == f[k - 1]
<1>1. n \in Nat /\ Joins(f, a, want) /\ b.symbols \in Seq(STRING) /\ k \in 1..n
  BY AnswerShape, AnswerJoins
<1>2. k - 1 \in 0..n
  BY <1>1
<1>3. x \in Seq(STRING)
  BY <1>1, <1>2 DEF Joins
<1>4. CASE b.kind = want
  <2> DEFINE w == b.symbols
             p == s.symbol
             q == t.symbol
             y == Opening(w, p)
             z == Piece(w, p, q)
  <2>1. SoFar(a, want, s) = x \o y /\ SoFar(a, want, t) = x \o Opening(w, q)
    BY <1>4 DEF SoFar, OfKind
  <2>2. y \in Seq(STRING) /\ z \in Seq(STRING) /\ y \o z = Opening(w, q)
    <3>1. w \in Seq(STRING) /\ q \in 0..Len(w) /\ p \in 0..q
      BY <1>1
    <3> HIDE DEF w, p, q, x, b, k, f, n
    <3> QED
      BY ONLY <3>1, Pieces
  <2> HIDE DEF x, y, z, b, k, f, n, w, p, q
  <2>3. (x \o y) \o z = x \o (y \o z)
    <3>1. x \in Seq(STRING) /\ y \in Seq(STRING) /\ z \in Seq(STRING)
      BY <1>3, <2>2
    <3> QED
      BY ONLY <3>1, JoiningJoined
  <2>4. SoFar(a, want, t) = SoFar(a, want, s) \o z
    BY <2>1, <2>2, <2>3
  <2> QED
    BY <1>4, <2>4 DEF b, k, z, w, p, q
<1>5. CASE b.kind # want
  <2>1. SoFar(a, want, s) = x \o Opening(<<>>, 0) /\ SoFar(a, want, t) = x \o Opening(<<>>, 0)
    BY <1>5 DEF SoFar, OfKind
  <2>2. Opening(<<>>, 0) = <<>>
    BY DEF Opening
  <2> HIDE DEF x
  <2>3. SoFar(a, want, s) = x /\ SoFar(a, want, t) = x /\ x \o <<>> = x
    BY <1>3, <2>1, <2>2, JoiningJoined
  <2> QED
    BY <1>5, <2>3
<1> QED
  BY <1>4, <1>5

LEMMA SoFarEnds ==
    ASSUME NEW a \in Answers, NEW want, NEW s, NEW t, s.block \in 1..Len(a.blocks),
           s.symbol = Len(a.blocks[s.block].symbols), t.block = s.block + 1, t.symbol = 0
    PROVE  SoFar(a, want, t) = SoFar(a, want, s)
<1> DEFINE n == Len(a.blocks)
           f == Joining(a, want)
           k == s.block
           b == a.blocks[k]
<1>1. n \in Nat /\ Joins(f, a, want) /\ b.symbols \in Seq(STRING) /\ k \in 1..n /\ k \in Nat
  BY AnswerShape, AnswerJoins
<1>2. k - 1 \in 0..n - 1 /\ (k - 1) + 1 = k /\ k \in 0..n
  BY <1>1
<1>3. f[k] = f[k - 1] \o OfKind(b, want)
  <2>1. Len(EachOf(a, want)) = n /\ EachOf(a, want)[k] = OfKind(b, want)
    BY <1>1 DEF EachOf
  <2> HIDE DEF f, k, n, b
  <2>2. f[(k - 1) + 1] = f[k - 1] \o EachOf(a, want)[(k - 1) + 1]
    BY <1>1, <1>2, <2>1 DEF Joins, JoinedUp, n
  <2> QED
    BY <1>2, <2>1, <2>2
<1>4. SoFar(a, want, s) = f[k]
  <2>1. Opening(OfKind(b, want), IF b.kind = want THEN s.symbol ELSE 0) = OfKind(b, want)
    <3>1. CASE b.kind = want
      <4>1. Opening(b.symbols, Len(b.symbols)) = b.symbols
        <5>1. Len(b.symbols) \in 0..Len(b.symbols) /\ 0 \in 0..Len(b.symbols)
          BY <1>1
        <5> HIDE DEF b
        <5> QED
          BY <1>1, <5>1, Pieces
      <4> QED
        BY <3>1, <4>1 DEF OfKind
    <3>2. CASE b.kind # want
      BY <3>2 DEF OfKind, Opening
    <3> QED
      BY <3>1, <3>2
  <2>2. SoFar(a, want, s) = f[k - 1] \o Opening(OfKind(b, want), IF b.kind = want THEN s.symbol ELSE 0)
    BY <1>1 DEF SoFar
  <2> HIDE DEF f, b, k
  <2> QED
    BY <1>3, <2>1, <2>2
<1>5. SoFar(a, want, t) = f[k]
  <2>1. f[k] \in Seq(STRING)
    BY <1>1, <1>2 DEF Joins
  <2>2. CASE k + 1 \in 1..n
    <3>1. OfKind(a.blocks[k + 1], want) \in Seq(STRING)
      BY <2>2, KindShape
    <3>2. Opening(OfKind(a.blocks[k + 1], want), 0) = <<>>
      <4>1. 0 \in 0..Len(OfKind(a.blocks[k + 1], want)) /\ 0 \in 0..0
        BY <3>1
      <4> QED
        BY <3>1, <4>1, Pieces
    <3>3. SoFar(a, want, t) = f[(k + 1) - 1] \o Opening(OfKind(a.blocks[k + 1], want), 0)
      BY <2>2 DEF SoFar
    <3>4. (k + 1) - 1 = k
      BY <1>1
    <3> HIDE DEF f, k
    <3>5. f[k] \o <<>> = f[k]
      BY <2>1, JoiningJoined
    <3> QED
      BY <3>2, <3>3, <3>4, <3>5
  <2>3. CASE k + 1 \notin 1..n
    <3>1. k = n
      BY <1>1, <2>3
    <3> QED
      BY <1>1, <2>3, <3>1 DEF SoFar, Joins
  <2> QED
    BY <2>2, <2>3
<1> QED
  BY <1>4, <1>5

ChunkOf(p, e) == IF p = "anthropic" THEN translate_anthropic_sse_event(e) ELSE OpenAiChunk(e)

FinishHeard(a) == IF a.protocol = "anthropic" THEN FinishOfDelta(a.stop) ELSE a.stop

LEMMA AnthropicEvents ==
    ASSUME NEW e
    PROVE  translate_anthropic_sse_event(e) =
              IF e.type = "message_start" THEN Chunk(Nothing, Nothing, "none", e.input, e.output)
              ELSE IF e.type = "message_delta" THEN Chunk(Nothing, Nothing, FinishOfDelta(e.stop), e.input, e.output)
              ELSE IF e.type \in {"content_block_start", "content_block_delta"} /\ e.kind = "text"
                   THEN Chunk(e.symbols, Nothing, "none", Absent, Absent)
              ELSE Chunk(Nothing, Nothing, "none", Absent, Absent)
BY Zenon DEF translate_anthropic_sse_event

LEMMA StartIsHeard ==
    ASSUME NEW p, NEW i, NEW o
    PROVE  ChunkOf(p, Event("message_start", "none", Nothing, "none", i, o)) = Chunk(<<>>, <<>>, "none", i, o)
BY AnthropicEvents DEF ChunkOf, OpenAiChunk, Event, Nothing

LEMMA StopIsHeard ==
    ASSUME NEW a \in Answers, NEW i, NEW o
    PROVE  ChunkOf(a.protocol, Event("message_delta", "none", Nothing, a.stop, i, o))
             = Chunk(<<>>, <<>>, FinishHeard(a), i, o)
BY AnthropicEvents DEF ChunkOf, OpenAiChunk, Event, Nothing, FinishHeard

LEMMA SymbolsAreHeard ==
    ASSUME NEW p \in {"openai", "anthropic"}, NEW type \in {"content_block_start", "content_block_delta"}, NEW k, NEW x
    PROVE  ChunkOf(p, Event(type, k, x, "none", Absent, Absent))
             = Chunk(IF k = "text" THEN x ELSE <<>>, IF p = "openai" /\ k = "refusal" THEN x ELSE <<>>,
                     "none", Absent, Absent)
<1> DEFINE e == Event(type, k, x, "none", Absent, Absent)
<1>1. /\ e.type = type /\ e.kind = k /\ e.symbols = x /\ e.stop = "none" /\ e.input = Absent /\ e.output = Absent
  BY DEF Event
<1> HIDE DEF e
<1>2. CASE p = "anthropic"
  <2>1. ChunkOf(p, e) = translate_anthropic_sse_event(e)
    BY <1>2 DEF ChunkOf
  <2>2. translate_anthropic_sse_event(e) = IF k = "text" THEN Chunk(x, Nothing, "none", Absent, Absent)
                                           ELSE Chunk(Nothing, Nothing, "none", Absent, Absent)
    BY <1>1, AnthropicEvents
  <2> QED
    BY <1>2, <2>1, <2>2 DEF Nothing, e
<1>3. CASE p = "openai"
  <2>1. ChunkOf(p, e) = OpenAiChunk(e)
    BY <1>3 DEF ChunkOf
  <2> QED
    BY <1>1, <1>3, <2>1 DEF OpenAiChunk, Nothing, e
<1> QED
  BY <1>2, <1>3

Finishes == STRING \cup {"none", "stop", "length"}
Hearing == [text : Seq(STRING), refusal : Seq(STRING), finish : Finishes, input : Int, output : Int, done : BOOLEAN]

Hears(g, h, x, y, w, i, o) ==
    /\ g \in Hearing
    /\ g.text = h.text \o x /\ g.refusal = h.refusal \o y
    /\ g.finish = IF w = "none" THEN h.finish ELSE w
    /\ g.input = IF i = Absent THEN h.input ELSE i
    /\ g.output = IF o = Absent THEN h.output ELSE o

LEMMA HearChunk ==
    ASSUME NEW h \in Hearing, NEW x \in Seq(STRING), NEW y \in Seq(STRING), NEW w \in Finishes, NEW i \in Int, NEW o \in Int
    PROVE  Hears(Hear(h, Chunk(x, y, w, i, o)), h, x, y, w, i, o)
<1> DEFINE c == Chunk(x, y, w, i, o)
           g == Hear(h, c)
           t == h.text \o x
           r == h.refusal \o y
           v == IF w = "none" THEN h.finish ELSE w
           m == IF i = Absent THEN h.input ELSE i
           k == IF o = Absent THEN h.output ELSE o
<1>1. /\ h.text \in Seq(STRING) /\ h.refusal \in Seq(STRING) /\ h.finish \in Finishes
      /\ h.input \in Int /\ h.output \in Int
  BY DEF Hearing
<1>2. t \in Seq(STRING) /\ r \in Seq(STRING)
  BY <1>1, JoinShape
<1>3. v \in Finishes /\ m \in Int /\ k \in Int
  BY <1>1
<1>4. g = [h EXCEPT !.text = t, !.refusal = r, !.finish = v, !.input = m, !.output = k]
  <2>1. c.content = x /\ c.refusal = y /\ c.finish = w /\ c.input = i /\ c.output = o
    BY DEF Chunk
  <2> HIDE DEF c
  <2> QED
    BY <2>1 DEF Hear
<1> HIDE DEF t, r, v, m, k, g
<1>5. g \in Hearing /\ g.text = t /\ g.refusal = r /\ g.finish = v /\ g.input = m /\ g.output = k
  BY <1>2, <1>3, <1>4 DEF Hearing
<1> QED
  BY <1>5 DEF t, r, v, m, k, g, c, Hears

\* Where the stream stands in the answer.
SentShape ==
    /\ sent \in [at : {"start", "blocks", "stopped", "over"}, block : Nat, symbol : Nat, open : BOOLEAN]
    /\ sent.block \in 1..Len(answer.blocks) + 1
    /\ sent.block \in 1..Len(answer.blocks) => sent.symbol \in 0..Len(answer.blocks[sent.block].symbols)
    /\ ~sent.open => sent.symbol = 0
    /\ sent.open => sent.block \in 1..Len(answer.blocks)
    /\ sent.at = "start" => sent.block = 1 /\ ~sent.open
    /\ sent.at \in {"stopped", "over"} => sent.block = Len(answer.blocks) + 1

\* What was heard is what was sent.
HeardIsSent ==
    /\ heard.text = SoFar(answer, "text", sent)
    /\ heard.refusal = IF answer.protocol = "openai" THEN SoFar(answer, "refusal", sent) ELSE <<>>

\* The reason and the numbers, by where the stream stands.
HeardReports ==
    /\ heard.finish = IF sent.at \in {"stopped", "over"} THEN FinishHeard(answer) ELSE "none"
    /\ sent.at = "start" => heard.input = 0 /\ heard.output = 0
    /\ sent.at = "blocks" => heard.input = IF answer.protocol = "anthropic" THEN Reported(answer.input) ELSE 0
    /\ sent.at = "blocks" /\ answer.output = Absent => heard.output = 0
    /\ sent.at \in {"stopped", "over"} => heard.input = Reported(answer.input) /\ heard.output = Reported(answer.output)
    /\ sent.at = "over" => heard.done

AnswerInv ==
    /\ answer \in Answers /\ request \in ChatRequests /\ batch \in EmbeddingBatches
    /\ SentShape /\ heard \in Hearing /\ HeardIsSent /\ HeardReports

LEMMA DeliverHears ==
    ASSUME NEW e, Deliver(e)
    PROVE  heard' = Hear(heard, ChunkOf(answer.protocol, e))
BY DEF Deliver, ChunkOf

LEMMA HeardFinishShape ==
    ASSUME NEW a \in Answers
    PROVE  FinishHeard(a) \in Finishes
<1>1. FinishOfDelta(a.stop) = IF a.stop \in {"end_turn", "stop_sequence"} THEN "stop"
                              ELSE IF a.stop = "max_tokens" THEN "length" ELSE "none"
  BY Zenon DEF FinishOfDelta
<1>2. FinishOfDelta(a.stop) \in Finishes /\ a.stop \in Finishes
  BY <1>1, AnswerShape DEF Finishes
<1> QED
  BY <1>2 DEF FinishHeard

LEMMA AnswerBegins == TranslationInit => AnswerInv
<1> SUFFICES ASSUME TranslationInit PROVE AnswerInv
  OBVIOUS
<1>1. answer \in Answers /\ request \in ChatRequests /\ batch \in EmbeddingBatches /\ sent = Unsent /\ heard = Silence
  BY DEF TranslationInit
<1>2. /\ sent \in [at : {"start", "blocks", "stopped", "over"}, block : Nat, symbol : Nat, open : BOOLEAN]
      /\ sent.at = "start" /\ sent.block = 1 /\ sent.symbol = 0 /\ ~sent.open
  BY <1>1 DEF Unsent
<1>3. Len(answer.blocks) \in Nat
  BY <1>1, AnswerShape
<1>4. SentShape
  <2>1. 1 \in 1..Len(answer.blocks) + 1
    BY <1>3
  <2>2. sent.block \in 1..Len(answer.blocks) => sent.symbol \in 0..Len(answer.blocks[sent.block].symbols)
    <3> SUFFICES ASSUME 1 \in 1..Len(answer.blocks) PROVE 0 \in 0..Len(answer.blocks[1].symbols)
      BY <1>2
    <3>1. answer.blocks[1].symbols \in Seq(STRING)
      BY <1>1, AnswerShape
    <3> QED
      BY <3>1
  <2> QED
    BY <1>2, <2>1, <2>2 DEF SentShape
<1>5. /\ heard.text = <<>> /\ heard.refusal = <<>> /\ heard.finish = "none" /\ heard.input = 0 /\ heard.output = 0
      /\ heard \in Hearing
  BY <1>1 DEF Silence, Nothing, Hearing, Finishes
<1>6. HeardIsSent
  BY <1>1, <1>2, <1>5, SoFarBegins DEF HeardIsSent
<1>7. HeardReports
  BY <1>2, <1>5 DEF HeardReports
<1> QED
  BY <1>1, <1>4, <1>5, <1>6, <1>7 DEF AnswerInv

LEMMA StartKeeps == AnswerInv /\ ProviderStarts => AnswerInv'
<1> SUFFICES ASSUME AnswerInv, ProviderStarts PROVE AnswerInv'
  OBVIOUS
<1> USE DEF AnswerInv
<1> DEFINE p == answer.protocol
           i == IF p = "anthropic" THEN answer.input ELSE Absent
           o == IF p = "anthropic" /\ answer.output # Absent THEN 1 ELSE Absent
<1>1. /\ sent.at = "start" /\ answer' = answer /\ request' = request /\ batch' = batch
      /\ sent' = [sent EXCEPT !.at = "blocks"]
      /\ Deliver(Event("message_start", "none", Nothing, "none", i, o))
  BY DEF ProviderStarts
<1>2. heard' = Hear(heard, Chunk(<<>>, <<>>, "none", i, o))
  BY <1>1, DeliverHears, StartIsHeard
<1>3. i \in Int /\ o \in Int /\ p \in {"openai", "anthropic"} /\ answer.input \in Int
  BY AnswerShape DEF Absent
<1>4. <<>> \in Seq(STRING) /\ "none" \in Finishes
  BY DEF Finishes
<1>5. /\ heard' \in Hearing /\ heard'.text = heard.text \o <<>> /\ heard'.refusal = heard.refusal \o <<>>
      /\ heard'.finish = heard.finish
      /\ heard'.input = (IF i = Absent THEN heard.input ELSE i)
      /\ heard'.output = (IF o = Absent THEN heard.output ELSE o)
  <2> HIDE DEF i, o
  <2>1. Hears(heard', heard, <<>>, <<>>, "none", i, o)
    BY <1>2, <1>3, <1>4, HearChunk
  <2> QED
    BY <2>1 DEF Hears
<1>6. heard'.text = heard.text /\ heard'.refusal = heard.refusal
  <2>1. heard.text \in Seq(STRING) /\ heard.refusal \in Seq(STRING)
    BY DEF Hearing
  <2> QED
    BY <1>5, <2>1, JoiningJoined
<1>7. /\ sent' \in [at : {"start", "blocks", "stopped", "over"}, block : Nat, symbol : Nat, open : BOOLEAN]
      /\ sent'.at = "blocks" /\ sent'.block = sent.block /\ sent'.symbol = sent.symbol /\ sent'.open = sent.open
  BY <1>1 DEF SentShape
<1>8. SentShape'
  BY <1>1, <1>7 DEF SentShape
<1>9. HeardIsSent'
  BY <1>1, <1>6, <1>7 DEF HeardIsSent, SoFar
<1>10. HeardReports'
  BY <1>1, <1>3, <1>5, <1>7 DEF HeardReports, Reported
<1> QED
  BY <1>1, <1>5, <1>8, <1>9, <1>10

LEMMA SymbolsKeep == AnswerInv /\ ProviderContinues => AnswerInv'
<1> SUFFICES ASSUME AnswerInv, ProviderContinues PROVE AnswerInv'
  OBVIOUS
<1> USE DEF AnswerInv
<1> DEFINE p == answer.protocol
           b == answer.blocks[sent.block]
<1>1. /\ sent.at = "blocks" /\ sent.block <= Len(answer.blocks)
      /\ answer' = answer /\ request' = request /\ batch' = batch
  BY DEF ProviderContinues
<1>2. PICK n \in sent.symbol..Len(b.symbols) :
        /\ Deliver(Event(IF sent.open THEN "content_block_delta" ELSE "content_block_start", b.kind,
                         SubSeq(b.symbols, sent.symbol + 1, n), "none", Absent, Absent))
        /\ sent' = [sent EXCEPT !.open = TRUE, !.symbol = n]
  BY DEF ProviderContinues
<1>3. p \in {"openai", "anthropic"} /\ Len(answer.blocks) \in Nat
  BY AnswerShape
<1>4. sent.block \in 1..Len(answer.blocks)
  BY <1>1, <1>3 DEF SentShape
<1>5. b.symbols \in Seq(STRING) /\ sent.symbol \in 0..Len(b.symbols)
  BY <1>4, AnswerShape DEF SentShape
<1>6. n \in 0..Len(b.symbols) /\ sent.symbol \in 0..n /\ n \in Nat
  BY <1>5
<1> DEFINE x == Piece(b.symbols, sent.symbol, n)
           t == IF b.kind = "text" THEN x ELSE <<>>
           r == IF p = "openai" /\ b.kind = "refusal" THEN x ELSE <<>>
<1>7. x \in Seq(STRING)
  <2> DEFINE s == b.symbols
             m == sent.symbol
  <2>1. s \in Seq(STRING) /\ n \in 0..Len(s) /\ m \in 0..n
    BY <1>5, <1>6
  <2> HIDE DEF s, m
  <2>2. Piece(s, m, n) \in Seq(STRING)
    BY ONLY <2>1, Pieces
  <2> QED
    BY <2>2 DEF s, m
<1>8. heard' = Hear(heard, Chunk(t, r, "none", Absent, Absent))
  <2> DEFINE type == IF sent.open THEN "content_block_delta" ELSE "content_block_start"
             k == b.kind
  <2>1. type \in {"content_block_start", "content_block_delta"}
    OBVIOUS
  <2>2. heard' = Hear(heard, ChunkOf(p, Event(type, k, x, "none", Absent, Absent)))
    BY <1>2, DeliverHears DEF Piece
  <2> HIDE DEF type, k, x, p
  <2>3. ChunkOf(p, Event(type, k, x, "none", Absent, Absent))
          = Chunk(IF k = "text" THEN x ELSE <<>>, IF p = "openai" /\ k = "refusal" THEN x ELSE <<>>, "none", Absent, Absent)
    BY <2>1, <1>3, SymbolsAreHeard
  <2> QED
    BY <2>2, <2>3 DEF k
<1>9. t \in Seq(STRING) /\ r \in Seq(STRING) /\ "none" \in Finishes /\ Absent \in Int
  <2> HIDE DEF x
  <2>1. <<>> \in Seq(STRING)
    OBVIOUS
  <2>2. t \in Seq(STRING) /\ r \in Seq(STRING)
    BY <1>7, <2>1
  <2>3. "none" \in Finishes /\ Absent \in Int
    BY DEF Finishes, Absent
  <2> QED
    BY <2>2, <2>3
<1> HIDE DEF x
<1>10. /\ heard' \in Hearing /\ heard'.text = heard.text \o t /\ heard'.refusal = heard.refusal \o r
       /\ heard'.finish = heard.finish /\ heard'.input = heard.input /\ heard'.output = heard.output
  <2> HIDE DEF t, r
  <2>1. Hears(heard', heard, t, r, "none", Absent, Absent)
    BY <1>8, <1>9, HearChunk
  <2> QED
    BY <2>1 DEF Hears
<1>11. /\ sent' \in [at : {"start", "blocks", "stopped", "over"}, block : Nat, symbol : Nat, open : BOOLEAN]
       /\ sent'.at = "blocks" /\ sent'.block = sent.block /\ sent'.symbol = n /\ sent'.open
  BY <1>1, <1>2, <1>6 DEF SentShape
<1>12. SentShape'
  BY <1>1, <1>4, <1>6, <1>11 DEF SentShape
<1>13. ASSUME NEW want
       PROVE  SoFar(answer, want, sent') = SoFar(answer, want, sent) \o (IF b.kind = want THEN x ELSE <<>>)
  <2> DEFINE a == answer
             s == sent
             z == sent'
  <2>1. /\ a \in Answers /\ s.block \in 1..Len(a.blocks) /\ z.block = s.block
        /\ z.symbol \in 0..Len(a.blocks[s.block].symbols) /\ s.symbol \in 0..z.symbol
    BY <1>4, <1>6, <1>11
  <2> HIDE DEF a, s, z
  <2>2. SoFar(a, want, z) = SoFar(a, want, s) \o (IF a.blocks[s.block].kind = want
                                 THEN Piece(a.blocks[s.block].symbols, s.symbol, z.symbol) ELSE <<>>)
    BY ONLY <2>1, SoFarGoesOn
  <2> QED
    BY <2>2, <1>11 DEF x, a, s, z
<1>14. heard'.text = SoFar(answer, "text", sent')
  BY <1>10, <1>13 DEF HeardIsSent
<1>15. heard'.refusal = IF p = "openai" THEN SoFar(answer, "refusal", sent') ELSE <<>>
  <2>1. CASE p = "openai"
    BY <2>1, <1>10, <1>13 DEF HeardIsSent
  <2>2. CASE p # "openai"
    <3>1. heard.refusal = <<>> /\ r = <<>> /\ <<>> \o <<>> = <<>>
      BY <2>2 DEF HeardIsSent
    <3> HIDE DEF r, p
    <3> QED
      BY <2>2, <3>1, <1>10
  <2> QED
    BY <2>1, <2>2
<1>16. HeardIsSent'
  BY <1>1, <1>14, <1>15 DEF HeardIsSent
<1>17. HeardReports'
  BY <1>1, <1>10, <1>11 DEF HeardReports
<1> QED
  BY <1>1, <1>10, <1>12, <1>16, <1>17

LEMMA BlockEndKeeps == AnswerInv /\ ProviderEndsBlock => AnswerInv'
<1> SUFFICES ASSUME AnswerInv, ProviderEndsBlock PROVE AnswerInv'
  OBVIOUS
<1> USE DEF AnswerInv
<1>1. /\ sent.at = "blocks" /\ sent.open /\ sent.symbol = Len(answer.blocks[sent.block].symbols)
      /\ sent' = [sent EXCEPT !.open = FALSE, !.symbol = 0, !.block = sent.block + 1]
      /\ answer' = answer /\ request' = request /\ batch' = batch /\ heard' = heard
  BY DEF ProviderEndsBlock
<1>2. Len(answer.blocks) \in Nat /\ sent.block \in 1..Len(answer.blocks)
  BY <1>1, AnswerShape DEF SentShape
<1>3. sent.block + 1 \in Nat /\ sent.block + 1 \in 1..Len(answer.blocks) + 1
  BY <1>2
<1>4. /\ sent' \in [at : {"start", "blocks", "stopped", "over"}, block : Nat, symbol : Nat, open : BOOLEAN]
      /\ sent'.at = "blocks" /\ sent'.block = sent.block + 1 /\ sent'.symbol = 0 /\ ~sent'.open
  BY <1>1, <1>3 DEF SentShape
<1>5. SentShape'
  <2>1. sent'.block \in 1..Len(answer.blocks) => 0 \in 0..Len(answer.blocks[sent'.block].symbols)
    <3> SUFFICES ASSUME sent'.block \in 1..Len(answer.blocks) PROVE 0 \in 0..Len(answer.blocks[sent'.block].symbols)
      OBVIOUS
    <3>1. answer.blocks[sent'.block].symbols \in Seq(STRING)
      BY AnswerShape
    <3> QED
      BY <3>1
  <2> QED
    BY <1>1, <1>3, <1>4, <2>1 DEF SentShape
<1>6. \A want : SoFar(answer, want, sent') = SoFar(answer, want, sent)
  <2> DEFINE a == answer
             s == sent
             z == sent'
  <2>1. /\ a \in Answers /\ s.block \in 1..Len(a.blocks) /\ s.symbol = Len(a.blocks[s.block].symbols)
        /\ z.block = s.block + 1 /\ z.symbol = 0
    BY <1>1, <1>2, <1>4
  <2> HIDE DEF a, s, z
  <2>2. \A want : SoFar(a, want, z) = SoFar(a, want, s)
    BY ONLY <2>1, SoFarEnds
  <2> QED
    BY <2>2 DEF a, s, z
<1>7. HeardIsSent'
  BY <1>1, <1>6 DEF HeardIsSent
<1>8. HeardReports'
  BY <1>1, <1>4 DEF HeardReports
<1> QED
  BY <1>1, <1>5, <1>7, <1>8

LEMMA StopKeeps == ASSUME NEW repeats \in BOOLEAN PROVE AnswerInv /\ ProviderStops(repeats) => AnswerInv'
<1> SUFFICES ASSUME AnswerInv, ProviderStops(repeats) PROVE AnswerInv'
  OBVIOUS
<1> USE DEF AnswerInv
<1> DEFINE i == IF repeats \/ answer.protocol = "openai" THEN answer.input ELSE Absent
           o == answer.output
           w == FinishHeard(answer)
<1>1. /\ sent.at = "blocks" /\ sent.block > Len(answer.blocks)
      /\ answer' = answer /\ request' = request /\ batch' = batch
      /\ sent' = [sent EXCEPT !.at = "stopped"]
      /\ Deliver(Event("message_delta", "none", Nothing, answer.stop, i, o))
  BY DEF ProviderStops
<1>2. heard' = Hear(heard, Chunk(<<>>, <<>>, w, i, o))
  <2> HIDE DEF i, o
  <2> QED
    BY <1>1, DeliverHears, StopIsHeard
<1>3. /\ i \in Int /\ o \in Int /\ answer.input \in Int /\ answer.protocol \in {"openai", "anthropic"}
      /\ Len(answer.blocks) \in Nat
  BY AnswerShape DEF Absent
<1>4. <<>> \in Seq(STRING) /\ w \in Finishes
  BY HeardFinishShape
<1>5. /\ heard' \in Hearing /\ heard'.text = heard.text \o <<>> /\ heard'.refusal = heard.refusal \o <<>>
      /\ heard'.finish = (IF w = "none" THEN heard.finish ELSE w)
      /\ heard'.input = (IF i = Absent THEN heard.input ELSE i)
      /\ heard'.output = (IF o = Absent THEN heard.output ELSE o)
  <2> HIDE DEF i, o, w
  <2>1. Hears(heard', heard, <<>>, <<>>, w, i, o)
    BY <1>2, <1>3, <1>4, HearChunk
  <2> QED
    BY <2>1 DEF Hears
<1>6. heard'.text = heard.text /\ heard'.refusal = heard.refusal
  <2>1. heard.text \in Seq(STRING) /\ heard.refusal \in Seq(STRING)
    BY DEF Hearing
  <2> QED
    BY <1>5, <2>1, JoiningJoined
<1>7. /\ sent' \in [at : {"start", "blocks", "stopped", "over"}, block : Nat, symbol : Nat, open : BOOLEAN]
      /\ sent'.at = "stopped" /\ sent'.block = sent.block /\ sent'.symbol = sent.symbol /\ sent'.open = sent.open
  BY <1>1 DEF SentShape
<1>8. SentShape'
  <2>1. sent.block = Len(answer.blocks) + 1
    BY <1>1, <1>3 DEF SentShape
  <2> QED
    BY <1>1, <1>7, <2>1 DEF SentShape
<1>9. HeardIsSent'
  BY <1>1, <1>6, <1>7 DEF HeardIsSent, SoFar
<1>10. heard.finish = "none" /\ heard'.finish = w
  BY <1>1, <1>5 DEF HeardReports
<1>11. heard'.input = Reported(answer.input)
  <2>1. CASE i = Absent
    BY <2>1, <1>1, <1>3, <1>5 DEF HeardReports, Reported
  <2>2. CASE i # Absent
    BY <2>2, <1>5 DEF Reported
  <2> QED
    BY <2>1, <2>2
<1>12. heard'.output = Reported(answer.output)
  BY <1>1, <1>5 DEF HeardReports, Reported
<1>13. HeardReports'
  BY <1>1, <1>7, <1>10, <1>11, <1>12 DEF HeardReports
<1> QED
  BY <1>1, <1>5, <1>8, <1>9, <1>13

LEMMA DoneKeeps == AnswerInv /\ ProviderDone => AnswerInv'
<1> SUFFICES ASSUME AnswerInv, ProviderDone PROVE AnswerInv'
  OBVIOUS
<1> USE DEF AnswerInv
<1>1. /\ sent.at = "stopped" /\ heard' = [heard EXCEPT !.done = TRUE] /\ sent' = [sent EXCEPT !.at = "over"]
      /\ answer' = answer /\ request' = request /\ batch' = batch
  BY DEF ProviderDone
<1>2. /\ heard' \in Hearing /\ heard'.done /\ heard'.text = heard.text /\ heard'.refusal = heard.refusal
      /\ heard'.finish = heard.finish /\ heard'.input = heard.input /\ heard'.output = heard.output
  BY <1>1 DEF Hearing
<1>3. /\ sent' \in [at : {"start", "blocks", "stopped", "over"}, block : Nat, symbol : Nat, open : BOOLEAN]
      /\ sent'.at = "over" /\ sent'.block = sent.block /\ sent'.symbol = sent.symbol /\ sent'.open = sent.open
  BY <1>1 DEF SentShape
<1>4. SentShape'
  BY <1>1, <1>3 DEF SentShape
<1>5. HeardIsSent'
  BY <1>1, <1>2, <1>3 DEF HeardIsSent, SoFar
<1>6. HeardReports'
  BY <1>1, <1>2, <1>3 DEF HeardReports
<1> QED
  BY <1>1, <1>2, <1>4, <1>5, <1>6

LEMMA AnswerStutters == AnswerInv /\ UNCHANGED translationVars => AnswerInv'
BY DEF AnswerInv, translationVars, streamedVars, SentShape, HeardIsSent, HeardReports

LEMMA Reasons ==
    ASSUME NEW finish
    PROVE  IncompleteReason(finish) = IF finish = "length" THEN "max_output_tokens"
                                      ELSE IF finish = "content_filter" THEN "content_filter" ELSE "none"
BY Zenon DEF IncompleteReason

\* The two tables of Anthropic's reasons differ, but not for the client.
LEMMA SameReason ==
    ASSUME NEW a
    PROVE  IncompleteReason(FinishHeard(a)) = IncompleteReason(ChatCompletion(a).finish)
<1>1. CASE a.protocol = "anthropic"
  <2> DEFINE x == FinishOfDelta(a.stop)
             y == AnthropicFinish(a.stop)
  <2>1. x = IF a.stop \in {"end_turn", "stop_sequence"} THEN "stop"
            ELSE IF a.stop = "max_tokens" THEN "length" ELSE "none"
    BY Zenon DEF FinishOfDelta
  <2>2. y = IF a.stop \in {"end_turn", "stop_sequence"} THEN "stop"
            ELSE IF a.stop = "max_tokens" THEN "length"
            ELSE IF a.stop = "tool_use" THEN "tool_calls" ELSE "unknown"
    BY Zenon DEF AnthropicFinish
  <2>3. FinishHeard(a) = x /\ ChatCompletion(a).finish = y
    BY <1>1 DEF FinishHeard, ChatCompletion, anthropic_response_to_chat_completions
  <2> HIDE DEF x, y
  <2> QED
    BY <2>1, <2>2, <2>3, Reasons
<1>2. CASE a.protocol # "anthropic"
  BY <1>2 DEF FinishHeard, ChatCompletion
<1> QED
  BY <1>1, <1>2

LEMMA CloseDone ==
    ASSUME NEW h, h.done
    PROVE  /\ Closing(h).reason = IncompleteReason(h.finish)
           /\ Closing(h).status = IF IncompleteReason(h.finish) = "none" THEN "completed" ELSE "incomplete"
           /\ Closing(h).text = h.text
           /\ Closing(h).refusal = IF h.text = Nothing THEN h.refusal ELSE Nothing
           /\ h.input # 0 => Closing(h).input = h.input
           /\ h.output # 0 => Closing(h).output = h.output
<1> DEFINE reason == IF h.done THEN IncompleteReason(h.finish) ELSE "none"
           status == CASE ~h.done -> "failed" [] reason # "none" -> "incomplete" [] OTHER -> "completed"
           produced == Larger(Len(h.text), Len(h.refusal))
           in == IF h.input = 0 THEN InputEstimate ELSE h.input
           out == IF h.output = 0 /\ produced > 0 THEN Larger(1, produced \div 4) ELSE h.output
           refusal == IF h.text = Nothing THEN h.refusal ELSE Nothing
<1>1. reason = IncompleteReason(h.finish)
  OBVIOUS
<1>2. status = IF IncompleteReason(h.finish) = "none" THEN "completed" ELSE "incomplete"
  <2>1. status = IF ~h.done THEN "failed" ELSE IF reason # "none" THEN "incomplete" ELSE "completed"
    BY Zenon
  <2> HIDE DEF status
  <2> QED
    BY <2>1
<1>3. (h.input # 0 => in = h.input) /\ (h.output # 0 => out = h.output)
  <2> HIDE DEF produced
  <2> QED
    OBVIOUS
<1>4. Closing(h) = [status |-> status, reason |-> reason, text |-> h.text, refusal |-> refusal, input |-> in, output |-> out]
  BY Zenon DEF Closing
<1> HIDE DEF reason, status, produced, in, out
<1> QED
  BY <1>1, <1>2, <1>3, <1>4

LEMMA InvImpliesStreamedAsWhole == AnswerInv => StreamedAsWhole
<1> SUFFICES ASSUME AnswerInv, sent.at = "over"
             PROVE  LET whole == translate_response(ChatCompletion(answer))
                        end == Closing(heard)
                    IN  /\ end.status = whole.status /\ end.reason = whole.reason
                        /\ end.text = whole.text /\ end.refusal = whole.refusal
                        /\ whole.input > 0 => end.input = whole.input
                        /\ whole.output > 0 => end.output = whole.output
  BY DEF StreamedAsWhole
<1> USE DEF AnswerInv
<1> DEFINE chat == ChatCompletion(answer)
           whole == translate_response(chat)
           end == Closing(heard)
<1>1. /\ heard.done /\ heard.finish = FinishHeard(answer)
      /\ heard.input = Reported(answer.input) /\ heard.output = Reported(answer.output)
  BY DEF HeardReports
<1>2. answer.protocol \in {"openai", "anthropic"} /\ answer.input \in Int /\ answer.output \in Int
      /\ answer.input >= Absent /\ answer.output >= Absent /\ Len(answer.blocks) \in Nat
  BY AnswerShape
<1>3. sent.block \notin 1..Len(answer.blocks)
  BY <1>2 DEF SentShape
<1>4. /\ heard.text = SymbolsOf(answer, "text")
      /\ heard.refusal = IF answer.protocol = "openai" THEN SymbolsOf(answer, "refusal") ELSE <<>>
  BY <1>3 DEF HeardIsSent, SoFar
<1>5. /\ chat.content = SymbolsOf(answer, "text")
      /\ chat.refusal = IF answer.protocol = "openai" THEN SymbolsOf(answer, "refusal") ELSE <<>>
  <2>1. CASE answer.protocol = "anthropic"
    BY <2>1 DEF ChatCompletion, anthropic_response_to_chat_completions, Nothing
  <2>2. CASE answer.protocol = "openai"
    BY <2>2 DEF ChatCompletion
  <2> QED
    BY <2>1, <2>2, <1>2
<1>6. /\ chat.input \in {answer.input, Reported(answer.input)}
      /\ chat.output \in {answer.output, Reported(answer.output)}
  BY DEF ChatCompletion, anthropic_response_to_chat_completions
<1>7. (chat.input > 0 => heard.input = chat.input /\ heard.input # 0)
      /\ (chat.output > 0 => heard.output = chat.output /\ heard.output # 0)
  <2> HIDE DEF chat
  <2> QED
    BY <1>1, <1>2, <1>6 DEF Reported, Absent
<1>8. IncompleteReason(heard.finish) = IncompleteReason(chat.finish)
  BY <1>1, SameReason
<1>9. /\ end.reason = IncompleteReason(heard.finish)
      /\ end.status = IF IncompleteReason(heard.finish) = "none" THEN "completed" ELSE "incomplete"
      /\ end.text = heard.text
      /\ end.refusal = IF heard.text = Nothing THEN heard.refusal ELSE Nothing
      /\ heard.input # 0 => end.input = heard.input
      /\ heard.output # 0 => end.output = heard.output
  BY <1>1, CloseDone
<1> HIDE DEF chat, end
<1>10. /\ whole.reason = IncompleteReason(chat.finish)
       /\ whole.status = IF IncompleteReason(chat.finish) = "none" THEN "completed" ELSE "incomplete"
       /\ whole.text = chat.content
       /\ whole.refusal = IF chat.content = Nothing THEN chat.refusal ELSE Nothing
       /\ whole.input = chat.input /\ whole.output = chat.output
  BY DEF translate_response
<1> HIDE DEF whole
<1>11. chat.content = heard.text /\ chat.refusal = heard.refusal
  BY <1>4, <1>5
<1>12. /\ end.status = whole.status /\ end.reason = whole.reason
       /\ end.text = whole.text /\ end.refusal = whole.refusal
  BY <1>8, <1>9, <1>10, <1>11
<1>13. (whole.input > 0 => end.input = whole.input) /\ (whole.output > 0 => end.output = whole.output)
  BY <1>7, <1>9, <1>10
<1> QED
  BY <1>12, <1>13 DEF whole, end, chat

\* Whatever answers, requests and batches there are: the translations lose and
\* reorder nothing.
LEMMA TranslationsHold == TranslationSpec => []TranslationHolds
<1>1. TranslationInit => AnswerInv
  BY AnswerBegins
<1>2. AnswerInv /\ [TranslationNext]_translationVars => AnswerInv'
  BY StartKeeps, SymbolsKeep, BlockEndKeeps, StopKeeps, DoneKeeps, AnswerStutters DEF TranslationNext
<1>3. AnswerInv => TranslationHolds
  <2> SUFFICES ASSUME AnswerInv PROVE TranslationHolds
    OBVIOUS
  <2>1. StreamedAsWhole
    BY InvImpliesStreamedAsWhole
  <2>2. RequestKept
    BY RequestIsKept DEF AnswerInv
  <2>3. EmbeddingsInPlace
    BY EmbeddingsHold DEF AnswerInv
  <2> QED
    BY <2>1, <2>2, <2>3 DEF TranslationHolds
<1> QED
  BY <1>1, <1>2, <1>3, PTL DEF TranslationSpec

\* An answer reaches the client as the provider gave it.  What a client reads
\* as completed is complete, whatever the capacities of the queues between the
\* reading task, the translator and the client and whenever one of them stops
\* (proxy_stream, handle_streaming); a streamed answer ends as the same answer
\* does when it is not streamed, however the provider cuts it into events
\* (translate_streaming_chunk, translate_response); a request keeps its texts,
\* their order and its images (translate_request, chat_completions_to_anthropic);
\* and each vector goes to its input (normalize_embedding_batch, embeddings).
THEOREM AnswersStayFaithful == StreamSpec /\ TranslationSpec => []AnswersAreFaithful
<1>1. StreamSpec => []CompletedIsWhole
  BY CompletedAnswersAreWhole
<1>2. TranslationSpec => []TranslationHolds
  BY TranslationsHold
<1>3. CompletedIsWhole /\ TranslationHolds => AnswersAreFaithful
  BY DEF AnswersAreFaithful
<1> QED
  BY <1>1, <1>2, <1>3, PTL

=============================================================================
