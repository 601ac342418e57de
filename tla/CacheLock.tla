----------------------------- MODULE CacheLock -----------------------------
(***************************************************************************)
(* One cached entity and the lock of its recomputation: the callers of     *)
(* CacheService::get_or_insert, get_or_insert_with_lock and of             *)
(* UserService::get_user, the writers that invalidate, and the purchase    *)
(* handler that takes the same kind of lock (services/cache.rs, lock.rs,   *)
(* user.rs, handlers/plan.rs).                                             *)
(*                                                                         *)
(* The entity is its version number.  Redis holds the value, the ":null"   *)
(* marker and the lock; each key may expire, each call may fail.           *)
(***************************************************************************)
EXTENDS Naturals, FiniteSets

CONSTANTS
    Callers,      \* readers and buyers, one call each
    Writers,      \* updates and deletions, one each
    MaxRetries,   \* max_retries of get_or_insert_with_lock
    Mixes         \* the entry points the callers use, [Callers -> Ways]

VARIABLES
    db,       \* [ver, exists] : the row
    cached,   \* the value's version + 1, 0 when absent
    null,     \* the ":null" marker
    lock,     \* the caller whose token the lock holds, "" when free
    call,     \* call[p] : where caller p is
    write,    \* write[w] : where writer w is
    lapsed,   \* ghost: callers whose lock expired while they held it
    excuse    \* ghost: how the cached value may have become stale

cacheVars == <<db, cached, null, lock, call, write, lapsed, excuse>>

\* get_or_insert, get_or_insert_with_lock, get_user, purchase_plan.  Buyers
\* lock a key of their own, so a mix holds either buyers or the others.
Ways == {"insert", "locked", "user", "buy"}

ASSUME CacheAssumption ==
    /\ MaxRetries \in Nat \ {0} /\ "" \notin Callers
    /\ Mixes \subseteq [Callers -> Ways \ {"buy"}] \cup [Callers -> {"buy"}]

Call == [way : Ways,
         pc : {"idle", "get", "null", "acquire", "double", "poll", "compute",
               "fill", "release", "drop", "done"},
         tries : 0..MaxRetries - 1, guard : BOOLEAN, found : BOOLEAN,
         val : 0..Cardinality(Writers)]

CacheTypeOK ==
    /\ db \in [ver : 0..Cardinality(Writers), exists : BOOLEAN]
    /\ cached \in 0..Cardinality(Writers) + 1
    /\ null \in BOOLEAN
    /\ lock \in Callers \cup {""}
    /\ call \in [Callers -> Call]
    /\ write \in [Writers -> {"idle", "written", "done"}]
    /\ lapsed \subseteq Callers
    /\ excuse \in {"none", "late", "lost"}

CacheInit ==
    /\ db = [ver |-> 0, exists |-> TRUE]
    /\ cached = 0 /\ null = FALSE /\ lock = "" /\ lapsed = {} /\ excuse = "none"
    /\ write = [w \in Writers |-> "idle"]
    /\ \E ways \in Mixes :
         call = [p \in Callers |-> [way |-> ways[p], pc |-> "idle", tries |-> 0,
                                    guard |-> FALSE, found |-> FALSE, val |-> 0]]

-----------------------------------------------------------------------------
(* Callers. *)

CallTo(p, pc) == call' = [call EXCEPT ![p].pc = pc]

\* A return drops the guard, which spawns the release.
Leave(p) == IF call[p].guard THEN "drop" ELSE "done"

\* conn: without a connection to Redis everything reads as absent.
Seen(present) == {present, FALSE}

\* The fast path; a buyer goes straight to the lock.  An error of Redis is
\* returned to the caller, except by get_user, which goes on to the database.
GetFast(p) ==
    /\ call[p].pc = "idle"
    /\ \/ /\ call[p].way # "buy"
          /\ \/ \E hit \in Seen(cached > 0) : CallTo(p, IF hit THEN "done" ELSE "null")
             \/ CallTo(p, IF call[p].way = "user" THEN "null" ELSE "done")
       \/ call[p].way = "buy" /\ CallTo(p, "acquire")
    /\ UNCHANGED <<db, cached, null, lock, write, lapsed, excuse>>

\* The negative-cache marker; get_user takes an error as its absence.
GetNull(p) ==
    /\ call[p].pc = "null"
    /\ LET next == IF call[p].way = "locked" THEN "acquire" ELSE "compute" IN
       \/ \E absent \in Seen(null) : CallTo(p, IF absent THEN "done" ELSE next)
       \/ CallTo(p, IF call[p].way = "user" THEN "compute" ELSE "done")
    /\ UNCHANGED <<db, cached, null, lock, write, lapsed, excuse>>

\* A buyer makes one attempt.
Attempts(p) == IF call[p].way = "buy" THEN 1 ELSE MaxRetries

\* try_acquire_with_retry: SET NX EX with a fresh token, retried while held.
\* A held lock turns a buyer away and makes a reader poll; an error of Redis
\* lets both go on unprotected.
Acquire(p) ==
    /\ call[p].pc = "acquire"
    /\ \/ /\ lock = ""
          /\ lock' = p
          /\ call' = [call EXCEPT ![p] =
                        [@ EXCEPT !.guard = TRUE, !.tries = 0,
                                  !.pc = IF call[p].way = "locked"
                                         THEN "double" ELSE "compute"]]
       \/ /\ lock # ""
          /\ call' = [call EXCEPT ![p] =
                        IF @.tries + 1 < Attempts(p)
                          THEN [call[p] EXCEPT !.tries = @ + 1]
                          ELSE [@ EXCEPT !.tries = 0,
                                  !.pc = IF call[p].way = "buy" THEN "done"
                                         ELSE "poll"]]
          /\ UNCHANGED lock
       \/ /\ call' = [call EXCEPT ![p].pc = "compute", ![p].tries = 0]
          /\ UNCHANGED lock
    /\ UNCHANGED <<db, cached, null, write, lapsed, excuse>>

\* The winner looks again before it computes.
DoubleCheck(p) ==
    /\ call[p].pc = "double"
    /\ \/ \E hit \in Seen(cached > 0) : CallTo(p, IF hit THEN "drop" ELSE "compute")
       \/ CallTo(p, "drop")       \* an error of Redis
    /\ UNCHANGED <<db, cached, null, lock, write, lapsed, excuse>>

\* The others wait for it, max_retries times.
Poll(p) ==
    /\ call[p].pc = "poll"
    /\ \/ /\ FALSE \in Seen(cached > 0)
          /\ call' = [call EXCEPT ![p] =
                        IF @.tries + 1 < MaxRetries THEN [call[p] EXCEPT !.tries = @ + 1]
                        ELSE [@ EXCEPT !.tries = 0, !.pc = "compute"]]
       \/ CallTo(p, "done")       \* a hit, or an error of Redis
    /\ UNCHANGED <<db, cached, null, lock, write, lapsed, excuse>>

\* The fallback reads the database, or fails.  get_user keeps the absence of
\* the row; the other two return it as the fallback's error.
Compute(p) ==
    /\ call[p].pc = "compute"
    /\ \/ /\ call[p].way # "buy" /\ (db.exists \/ call[p].way = "user")
          /\ call' = [call EXCEPT ![p].pc = "fill",
                                  ![p].val = db.ver, ![p].found = db.exists]
       \/ call[p].way # "buy" /\ CallTo(p, Leave(p))
       \/ call[p].way = "buy" /\ CallTo(p, IF call[p].guard THEN "release" ELSE "done")
    /\ UNCHANGED <<db, cached, null, lock, write, lapsed, excuse>>

Pending == \E w \in Writers : write[w] = "written"

\* set and set_null are best effort.
Fill(p) ==
    /\ call[p].pc = "fill"
    /\ \/ /\ call[p].found
          /\ cached' = call[p].val + 1
          /\ excuse' = IF call[p].val < db.ver THEN "late" ELSE "none"
          /\ UNCHANGED null
       \/ ~call[p].found /\ null' = TRUE /\ UNCHANGED <<cached, excuse>>
       \/ UNCHANGED <<cached, null, excuse>>
    /\ CallTo(p, Leave(p))
    /\ UNCHANGED <<db, lock, write, lapsed>>

\* Mutation: DEL without comparing the token.
release_any(p) == ""

\* SAFE_RELEASE_SCRIPT: DEL if the token is still the caller's.
release_lock(p) == IF lock = p THEN "" ELSE lock

\* LockGuard::release; a call that fails leaves the release to Drop.
ReleaseNow(p) ==
    /\ call[p].pc = "release"
    /\ \/ lock' = release_lock(p) /\ CallTo(p, "done")
       \/ CallTo(p, "drop") /\ UNCHANGED lock
    /\ UNCHANGED <<db, cached, null, write, lapsed, excuse>>

\* The task that Drop spawns, if the runtime still runs it.
ReleaseLater(p) ==
    /\ call[p].pc = "drop"
    /\ lock' \in {lock, release_lock(p)}
    /\ CallTo(p, "done")
    /\ UNCHANGED <<db, cached, null, write, lapsed, excuse>>

-----------------------------------------------------------------------------
(* Writers: the row, then DEL of the value and the marker, best effort. *)

\* update_user, change_password or delete_user commits.
Write(w) ==
    /\ write[w] = "idle" /\ db.exists
    /\ \E e \in BOOLEAN : db' = [ver |-> db.ver + 1, exists |-> e]
    /\ write' = [write EXCEPT ![w] = "written"]
    /\ UNCHANGED <<cached, null, lock, call, lapsed, excuse>>

Invalidate(w) ==
    /\ write[w] = "written"
    /\ write' = [write EXCEPT ![w] = "done"]
    /\ \/ cached' = 0 /\ null' = FALSE /\ excuse' = "none"
       \/ excuse' = "lost" /\ UNCHANGED <<cached, null>>
    /\ UNCHANGED <<db, lock, call, lapsed>>

-----------------------------------------------------------------------------
(* A key's time to live ends. *)

ExpireKey ==
    /\ \/ cached > 0 /\ cached' = 0 /\ excuse' = "none" /\ UNCHANGED <<null, lock, lapsed>>
       \/ null /\ null' = FALSE /\ UNCHANGED <<cached, excuse, lock, lapsed>>
       \/ /\ lock # "" /\ lock' = "" /\ lapsed' = lapsed \cup {lock}
          /\ UNCHANGED <<cached, null, excuse>>
    /\ UNCHANGED <<db, call, write>>

CallStep(p) ==
    GetFast(p) \/ GetNull(p) \/ Acquire(p) \/ DoubleCheck(p) \/ Poll(p)
        \/ Compute(p) \/ Fill(p) \/ ReleaseNow(p) \/ ReleaseLater(p)

CacheNext ==
    \/ \E p \in Callers : CallStep(p)
    \/ \E w \in Writers : Write(w) \/ Invalidate(w)
    \/ ExpireKey

CacheSpec == CacheInit /\ [][CacheNext]_cacheVars

-----------------------------------------------------------------------------
(* Properties. *)

Guarded(p) == call[p].guard /\ call[p].pc \in {"double", "compute", "fill", "release"}

\* Two callers recompute, or two purchases run, under the lock at once only
\* if the lock of one of them expired: no release, explicit or by Drop, late
\* or repeated, ever frees a lock that has passed to another caller.
RecomputeAlone ==
    \A p, q \in Callers :
        Guarded(p) /\ Guarded(q) /\ p # q => p \in lapsed \/ q \in lapsed

\* A cached value older than the row, with no invalidation under way, was
\* left by an invalidation that failed or was put there by a fill that had
\* read the row before the write.  Nothing else makes the cache stale, and
\* the marker of an absent row is never wrong.
StaleOnlyByLateFill ==
    /\ cached > 0 /\ cached <= db.ver => Pending \/ excuse # "none"
    /\ null => ~db.exists

\* Both, with callers, writers, expiry and lost calls in any order.
CacheHolds == RecomputeAlone /\ StaleOnlyByLateFill

=============================================================================
