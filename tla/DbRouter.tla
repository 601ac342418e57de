------------------------------ MODULE DbRouter ------------------------------
(***************************************************************************)
(* AutoRouter (utils/db_router.rs): statements go to the writer or to one  *)
(* of N replicas, with a mark per replica that keeps a failed one out of   *)
(* selection for a while, retries, a fallback to the writer, and a task    *)
(* that probes marked replicas.  Marks are changed under a mutex; the      *)
(* statements and pings between are awaits.                                *)
(***************************************************************************)
EXTENDS Naturals, FiniteSets

CONSTANTS
    N,               \* replicas that connected at start-up
    Queries,         \* statements, one each
    RetryAttempts,   \* routing.retry_attempts
    Statements       \* the kinds of the statements, [Queries -> Kinds]

\* A SELECT, a locking one, INSERT/UPDATE/DELETE .. RETURNING, a WITH whose
\* main statement writes, and one that writes only inside its definitions.
Kinds == {"select", "locking", "write", "with_write", "with_inner_write"}

ASSUME RouterAssumption ==
    /\ N \in Nat /\ RetryAttempts \in Nat
    /\ Statements \subseteq [Queries -> Kinds]

Replicas == 0..N - 1
Writer == N          \* the writer's place among the servers
Servers == 0..N

VARIABLES
    fallback,  \* routing.fallback_to_write
    mark,      \* mark[i] : down_until None, in the future, in the past
    query,     \* query[q] : where statement q is
    probe      \* replicas the prober still has to ping

routerVars == <<fallback, mark, query, probe>>

Query ==
    [kind : Kinds,
     pc : {"idle", "pick", "ask", "retry", "fall", "ok", "refused", "lost"},
     at : Servers, tried : SUBSET Replicas, round : 0..N + RetryAttempts,
     last_err : BOOLEAN,
     asked : SUBSET Servers,   \* ghost: servers that were asked
     shut : SUBSET Replicas]   \* ghost: replicas marked down at the last pick

RouterTypeOK ==
    /\ fallback \in BOOLEAN
    /\ mark \in [Replicas -> {"up", "down", "lapsed"}]
    /\ query \in [Queries -> Query]
    /\ probe \subseteq Replicas

RouterInit ==
    /\ fallback \in BOOLEAN
    /\ mark = [i \in Replicas |-> "up"]
    /\ probe = {}
    /\ \E kinds \in Statements :
         query = [q \in Queries |->
                    [kind |-> kinds[q], pc |-> "idle", at |-> Writer, tried |-> {},
                     round |-> 0, last_err |-> FALSE, asked |-> {}, shut |-> {}]]

-----------------------------------------------------------------------------
(* Routing. *)

is_locking_select(k) == k = "locking"

\* cte_main_stmt_is_write looks outside of the parentheses only.
is_write_statement(k) == k \in {"write", "with_write"}

ElsewhereQuery == UNCHANGED <<fallback, probe>>

\* query_one and query_all; with no replica at all everything goes to the
\* writer.
Route(q) ==
    /\ query[q].pc = "idle"
    /\ query' = [query EXCEPT ![q].pc =
                   IF is_write_statement(query[q].kind)
                        \/ is_locking_select(query[q].kind) \/ N = 0
                   THEN "fall" ELSE "pick"]
    /\ UNCHANGED mark /\ ElsewhereQuery

\* Mutation: a replica that failed is picked again.
AnyHealthy(q) == {i \in Replicas : mark[i] # "down"}

\* The replicas pick_next_read may return.
Healthy(q) == {i \in Replicas : mark[i] # "down" /\ i \notin query[q].tried}

\* Phase 1.  A mark whose time is over is removed on the way; the strategies
\* choose any healthy one.  With none left the first phase ends.
PickNextRead(q) ==
    /\ query[q].pc = "pick"
    /\ mark' = [i \in Replicas |->
                  IF mark[i] = "lapsed" /\ i \notin query[q].tried THEN "up"
                  ELSE mark[i]]
    /\ \/ /\ query[q].round < N
          /\ \E i \in Healthy(q) :
               query' = [query EXCEPT ![q] =
                           [query[q] EXCEPT !.pc = "ask", !.at = i, !.round = @ + 1,
                                     !.tried = @ \cup {i}]]
       \/ /\ Healthy(q) = {} \/ query[q].round = N
          /\ query' = [query EXCEPT ![q] =
                         [@ EXCEPT !.pc = IF query[q].last_err /\ RetryAttempts > 0
                                            THEN "retry" ELSE "fall",
                                   !.round = 0,
                                   !.shut = {i \in Replicas : mark[i] = "down"}]]
    /\ ElsewhereQuery

\* What a server makes of a statement.  Any may be unreachable, or its pool
\* exhausted, at any moment; a replica may cancel for a recovery conflict.
Outcomes(i) ==
    {"ok", "query", "connection"} \cup (IF i = Writer THEN {} ELSE {"conflict"})

\* An answer or an error of the statement itself is final.
PcAfter(o, otherwise) ==
    IF o = "ok" THEN "ok" ELSE IF o = "query" THEN "refused" ELSE otherwise

MarkDown(i, o) == mark' = IF o = "connection" THEN [mark EXCEPT ![i] = "down"] ELSE mark

\* The attempt of phase 1.
Ask(q) ==
    /\ query[q].pc = "ask"
    /\ \E o \in Outcomes(query[q].at) :
         /\ query' = [query EXCEPT ![q] =
                        [query[q] EXCEPT !.asked = @ \cup {query[q].at},
                                  !.last_err = @ \/ o \in {"connection", "conflict"},
                                  !.pc = PcAfter(o, "pick")]]
         /\ MarkDown(query[q].at, o)
    /\ ElsewhereQuery

\* Phase 2: (|tried| + retry) % N, past the marks.
Retry(q) ==
    /\ query[q].pc = "retry"
    /\ LET i == (Cardinality(query[q].tried) + query[q].round) % N
           n == query[q].round + 1 IN
       \E o \in Outcomes(i) :
         /\ query' = [query EXCEPT ![q] =
                        [query[q] EXCEPT !.asked = @ \cup {i}, !.at = i, !.round = n,
                                  !.pc = PcAfter(o, IF n < RetryAttempts THEN "retry"
                                                    ELSE "fall")]]
         /\ MarkDown(i, o)
    /\ ElsewhereQuery

\* The writer: what was routed to it, and the fallback of a read.
Reading(q) == N > 0 /\ ~is_write_statement(query[q].kind)
                    /\ ~is_locking_select(query[q].kind)

AskWriter(q) ==
    /\ query[q].pc = "fall"
    /\ \/ /\ Reading(q) /\ ~fallback
          /\ query' = [query EXCEPT ![q].pc = "lost"]
       \/ /\ Reading(q) => fallback
          /\ \E o \in Outcomes(Writer) :
               query' = [query EXCEPT ![q] =
                           [query[q] EXCEPT !.asked = @ \cup {Writer}, !.at = Writer,
                                     !.pc = PcAfter(o, "lost")]]
    /\ UNCHANGED mark /\ ElsewhereQuery

-----------------------------------------------------------------------------
(* The prober and the environment. *)

\* The marks whose time is over are collected under the lock.
ProbeCollect ==
    /\ probe = {}
    /\ probe' = {i \in Replicas : mark[i] = "lapsed"}
    /\ probe' # {}
    /\ UNCHANGED <<fallback, mark, query>>

\* A ping, and the mark it sets: also over a mark made since the collection.
ProbePing ==
    /\ \E i \in probe :
         /\ probe' = probe \ {i}
         /\ mark' \in {[mark EXCEPT ![i] = m] : m \in {"up", "down"}}
    /\ UNCHANGED <<fallback, query>>

\* circuit_break_ms passes.
Lapse ==
    /\ \E i \in Replicas : mark[i] = "down" /\ mark' = [mark EXCEPT ![i] = "lapsed"]
    /\ UNCHANGED <<fallback, query, probe>>

RouterNext ==
    \/ \E q \in Queries : Route(q) \/ PickNextRead(q) \/ Ask(q) \/ Retry(q) \/ AskWriter(q)
    \/ ProbeCollect \/ ProbePing \/ Lapse

RouterSpec == RouterInit /\ [][RouterNext]_routerVars

-----------------------------------------------------------------------------
(* Properties. *)

\* A statement that locks or whose main part writes never reaches a replica.
\* A read fails for want of a connection only after every replica was asked
\* or was shut out when the read last looked; and with fallback_to_write
\* only after the writer, too, failed it (execute_read_retry).
ReadsSurviveReplicaLoss ==
    \A q \in Queries :
        /\ query[q].kind \in {"locking", "write", "with_write"} =>
               query[q].asked \subseteq {Writer}
        /\ query[q].pc = "lost" =>
               /\ fallback => Writer \in query[q].asked
               /\ Reading(q) => Replicas \subseteq query[q].asked \cup query[q].shut

=============================================================================
