------------------------------ MODULE Gateway ------------------------------
(***************************************************************************)
(* The AI gateway: channel selection, the quota checks, the circuit        *)
(* breaker, metering, and the administration of channels, statement by     *)
(* statement (services/gateway.rs, quota.rs, metering.rs and the window    *)
(* limiter of crates/distributed-ratelimit).                               *)
(*                                                                         *)
(* Channel rows and usage rows live in PostgreSQL; candidates are read     *)
(* from a replica that lags behind.  Breaker keys and windows live in      *)
(* Redis, where every call may fail and every key may expire.              *)
(***************************************************************************)
EXTENDS Naturals, FiniteSets

CONSTANTS
    Channels,       \* channel ids (uuids: never reused)
    GwRequests,     \* AI requests, each made once
    Threshold,      \* cb_failure_threshold
    FailOpen,       \* the limiter's errors let requests pass
    Limit,          \* Limit[w]: budget of a window of kind w
    Cost,           \* Cost[r]: TPM units of r, div_ceil(estimate, 1000)
    NoChannel       \* no channel

ASSUME GatewayAssumption ==
    /\ NoChannel \notin Channels
    /\ IsFiniteSet(GwRequests) /\ Threshold \in Nat

VARIABLES
    limiter,   \* whether a window limiter is configured
    row,       \* row[c] : "none", "active", "inactive", "deleted"
    replica,   \* the rows the read replica shows
    usage,     \* usage[r] : the channel r's token_usage row names
    usageSeen, \* the usage rows the replica shows
    failures,  \* failures[c] : cb:channel:<c>:failures, 0 when absent
    tripped,   \* channels with cb:channel:<c>:tripped
    window,    \* window[k] : the limiter's counters, 0 when absent
    rq,        \* rq[r] : where request r is
    admin,     \* the administrator's update or delete in progress
    blame,     \* ghost: channel-health failures met, per channel
    counted    \* ghost: usage rows there were when a deletion counted them

gwVars == <<limiter, row, replica, usage, usageSeen, failures, tripped, window, rq,
            admin, blame, counted>>
dbVars == <<limiter, row, replica, usage, usageSeen, admin, counted>>

Windows == {"rpm", "tpm", "tenant"}
Keys == ({"rpm", "tpm"} \X Channels) \cup {<<"tenant", NoChannel>>}
KeyOf(w, c) == IF w = "tenant" THEN <<w, NoChannel>> ELSE <<w, c>>

Idle == [pc |-> "idle", todo |-> {}, healthy |-> {}, ch |-> NoChannel,
         stream |-> FALSE, owes |-> FALSE]

Request ==
    [pc : {"idle", "probe", "breaker", "rpm", "tpm", "tenant", "sent",
           "clear", "untrip", "count", "trip", "refused", "ended"},
     todo : SUBSET Channels, healthy : SUBSET Channels,
     ch : Channels \cup {NoChannel}, stream : BOOLEAN, owes : BOOLEAN]

GatewayTypeOK ==
    /\ limiter \in BOOLEAN
    /\ row \in [Channels -> {"none", "active", "inactive", "deleted"}]
    /\ replica \in [Channels -> {"none", "active", "inactive", "deleted"}]
    /\ usage \in [GwRequests -> Channels \cup {NoChannel}]
    /\ usageSeen \in [GwRequests -> Channels \cup {NoChannel}]
    /\ failures \in [Channels -> 0..Cardinality(GwRequests)]
    /\ tripped \subseteq Channels
    /\ \A k \in Keys : window[k] \in Nat
    /\ rq \in [GwRequests -> Request]
    /\ admin \in [op : {"none", "update", "count", "delete"},
                  ch : Channels \cup {NoChannel}]
    /\ blame \in [Channels -> 0..Cardinality(GwRequests)]
    /\ counted \in [Channels -> SUBSET GwRequests]

NoAdmin == [op |-> "none", ch |-> NoChannel]

GatewayInit ==
    /\ limiter \in BOOLEAN
    /\ row \in [Channels -> {"none", "active"}]
    /\ replica = row
    /\ usage = [r \in GwRequests |-> NoChannel] /\ usageSeen = usage
    /\ failures = [c \in Channels |-> 0] /\ tripped = {}
    /\ window = [k \in Keys |-> 0]
    /\ rq = [r \in GwRequests |-> Idle]
    /\ admin = NoAdmin
    /\ blame = [c \in Channels |-> 0]
    /\ counted = [c \in Channels |-> {}]

GwTo(r, pc) == rq' = [rq EXCEPT ![r].pc = pc]

-----------------------------------------------------------------------------
(* Selecting a channel. *)

\* candidate_channel_query on the replica.  Capabilities and models are left
\* out: every channel of the tenant serves the request.
SelectLoad(r) ==
    /\ rq[r].pc = "idle"
    /\ \E s \in BOOLEAN :
         LET cs == {c \in Channels : replica[c] = "active"} IN
         rq' = [rq EXCEPT ![r] =
                  [@ EXCEPT !.pc = IF cs = {} THEN "refused" ELSE "probe",
                            !.todo = cs, !.stream = s]]
    /\ UNCHANGED <<failures, tripped, window, blame, dbVars>>

\* retain_healthy_channels, one EXISTS per candidate.  An error of the cache
\* counts as healthy.
RetainHealthy(r) ==
    /\ rq[r].pc = "probe"
    /\ \E c \in rq[r].todo :
         \E broken \in {(c \in tripped), FALSE} :
           rq' = [rq EXCEPT ![r].todo = @ \ {c},
                            ![r].healthy = IF broken THEN @ ELSE @ \cup {c}]
    /\ UNCHANGED <<failures, tripped, window, blame, dbVars>>

\* weighted_select: weights are at least 1, so any of them.
WeightedSelect(r) ==
    /\ rq[r].pc = "probe" /\ rq[r].todo = {}
    /\ \/ /\ rq[r].healthy = {} /\ GwTo(r, "refused")
       \/ \E c \in rq[r].healthy :
            rq' = [rq EXCEPT ![r] = [@ EXCEPT !.pc = "breaker", !.ch = c,
                                              !.healthy = {}]]
    /\ UNCHANGED <<failures, tripped, window, blame, dbVars>>

-----------------------------------------------------------------------------
(* check_all: the breaker, then three windows. *)

CheckBreaker(r) ==
    /\ rq[r].pc = "breaker"
    /\ \E broken \in {(rq[r].ch \in tripped), FALSE} :
         GwTo(r, IF broken THEN "refused" ELSE "rpm")
    /\ UNCHANGED <<failures, tripped, window, blame, dbVars>>

UnitsOf(r, w) == IF w = "tpm" THEN Cost[r] ELSE 1

After(w) == IF w = "rpm" THEN "tpm" ELSE IF w = "tpm" THEN "tenant" ELSE "sent"

\* check and check_n: INCRBY first, then compare; a refused request stays
\* charged.  An estimate of zero units skips the TPM window; an error of the
\* limiter, or none configured, passes as the configuration says.
CheckWindow(r, w) ==
    /\ rq[r].pc = w
    /\ LET k == KeyOf(w, rq[r].ch)
           n == UnitsOf(r, w) IN
       \/ /\ limiter /\ n > 0
          /\ window' = [window EXCEPT ![k] = @ + n]
          /\ GwTo(r, IF window[k] + n <= Limit[w] THEN After(w) ELSE "refused")
       \/ /\ ~limiter \/ n = 0
          /\ GwTo(r, After(w)) /\ UNCHANGED window
       \/ /\ limiter /\ n > 0 /\ GwTo(r, IF FailOpen THEN After(w) ELSE "refused")
          /\ UNCHANGED window
    /\ UNCHANGED <<failures, tripped, blame, dbVars>>

-----------------------------------------------------------------------------
(* The provider's answer, the breaker and metering. *)

is_channel_health_failure(o) == o = "upstream"

\* What is recorded for an outcome: a success, a failure, or nothing.
CircuitOutcome(o) ==
    IF o = "ok" THEN "clear"
    ELSE IF is_channel_health_failure(o) THEN "count" ELSE "ended"

\* ok; upstream: no connection, 429, 5xx, an invalid answer or a stream
\* without its end; client: any other 4xx; neutral: an error on this side
\* before the request is sent; cancelled: the client of a stream is gone.
Blame(r, o) ==
    blame' = IF o = "upstream" THEN [blame EXCEPT ![rq[r].ch] = @ + 1] ELSE blame

\* proxy: the breaker first, then metering, and only of a success.
AnswerDirect(r, o) ==
    /\ rq[r].pc = "sent" /\ ~rq[r].stream
    /\ GwTo(r, CircuitOutcome(o))
    /\ Blame(r, o)
    /\ UNCHANGED <<failures, tripped, window, dbVars>>

\* proxy_stream: the forwarding task settles the breaker, while the handler
\* meters a stream that was opened, however it ended.  An error on this side
\* keeps it from opening, or ends it afterwards (a key that makes no header).
AnswerStream(r, o) ==
    /\ rq[r].pc = "sent" /\ rq[r].stream
    /\ \E opened \in IF o = "neutral" THEN BOOLEAN ELSE {TRUE} :
         rq' = [rq EXCEPT ![r].pc = CircuitOutcome(o), ![r].owes = opened]
    /\ Blame(r, o)
    /\ UNCHANGED <<failures, tripped, window, dbVars>>

\* record_success: two DELs, each of which may be lost.
ClearFailures(r) ==
    /\ rq[r].pc = "clear"
    /\ failures' \in {failures, [failures EXCEPT ![rq[r].ch] = 0]}
    /\ GwTo(r, "untrip")
    /\ UNCHANGED <<tripped, window, blame, dbVars>>

\* A direct answer is metered once the breaker is settled.
ClearTripped(r) ==
    /\ rq[r].pc = "untrip"
    /\ tripped' \in {tripped, tripped \ {rq[r].ch}}
    /\ rq' = [rq EXCEPT ![r].pc = "ended",
                        ![r].owes = rq[r].owes \/ ~rq[r].stream]
    /\ UNCHANGED <<failures, window, blame, dbVars>>

\* record_failure: the counter, then the flag.  A lost INCR reads as 1.
CountFailure(r) ==
    /\ rq[r].pc = "count"
    /\ LET c == rq[r].ch IN
       \/ /\ failures' = [failures EXCEPT ![c] = @ + 1]
          /\ GwTo(r, IF failures[c] + 1 >= Threshold THEN "trip" ELSE "ended")
       \/ /\ GwTo(r, IF 1 >= Threshold THEN "trip" ELSE "ended")
          /\ UNCHANGED failures
    /\ UNCHANGED <<tripped, window, blame, dbVars>>

Trip(r) ==
    /\ rq[r].pc = "trip"
    /\ tripped' \in {tripped, tripped \cup {rq[r].ch}}
    /\ GwTo(r, "ended")
    /\ UNCHANGED <<failures, window, blame, dbVars>>

\* record_usage: an insert that may fail, or nothing to record.
RecordUsage(r) ==
    /\ rq[r].owes
    /\ rq' = [rq EXCEPT ![r].owes = FALSE]
    /\ usage' \in {usage, [usage EXCEPT ![r] = rq[r].ch]}
    /\ UNCHANGED <<limiter, row, replica, usageSeen, admin, counted,
                   failures, tripped, window, blame>>

-----------------------------------------------------------------------------
(* The administrator. *)

ElsewhereAdmin == UNCHANGED <<limiter, failures, tripped, window, rq, blame>>

CreateChannel(c) ==
    /\ row[c] = "none"
    /\ row' \in {[row EXCEPT ![c] = s] : s \in {"active", "inactive"}}
    /\ UNCHANGED <<replica, usage, usageSeen, admin, counted>> /\ ElsewhereAdmin

Exists(c) == row[c] \in {"active", "inactive"}

\* update_channel: find the row, then UPDATE the columns that were given.
UpdateLoad(c) ==
    /\ admin = NoAdmin /\ Exists(c)
    /\ admin' = [op |-> "update", ch |-> c]
    /\ UNCHANGED <<row, replica, usage, usageSeen, counted>> /\ ElsewhereAdmin

UpdateWrite ==
    /\ admin.op = "update"
    /\ admin' = NoAdmin
    /\ IF Exists(admin.ch)
         THEN row' \in {[row EXCEPT ![admin.ch] = s] : s \in {"active", "inactive"}}
         ELSE UNCHANGED row
    /\ UNCHANGED <<replica, usage, usageSeen, counted>> /\ ElsewhereAdmin

\* delete_channel: find the row, count its usage on the primary, delete.
DeleteLoad(c) ==
    /\ admin = NoAdmin /\ Exists(c)
    /\ admin' = [op |-> "count", ch |-> c]
    /\ UNCHANGED <<row, replica, usage, usageSeen, counted>> /\ ElsewhereAdmin

\* Mutation: the count is read from the replica.
UsageOnReplica(c) == {r \in GwRequests : usageSeen[r] = c}

UsageOf(c) == {r \in GwRequests : usage[r] = c}

DeleteCount ==
    /\ admin.op = "count"
    /\ counted' = [counted EXCEPT ![admin.ch] = {r \in GwRequests : usage[r] = admin.ch}]
    /\ admin' = IF UsageOf(admin.ch) = {} THEN [admin EXCEPT !.op = "delete"]
                ELSE NoAdmin
    /\ UNCHANGED <<row, replica, usage, usageSeen>> /\ ElsewhereAdmin

DeleteRow ==
    /\ admin.op = "delete"
    /\ row' = [row EXCEPT ![admin.ch] = "deleted"]
    /\ admin' = NoAdmin
    /\ UNCHANGED <<replica, usage, usageSeen, counted>> /\ ElsewhereAdmin

-----------------------------------------------------------------------------
(* The environment. *)

Replicate ==
    /\ <<replica, usageSeen>> # <<row, usage>>
    /\ replica' = row /\ usageSeen' = usage
    /\ UNCHANGED <<row, usage, admin, counted>> /\ ElsewhereAdmin

\* A TTL ends.
Expire ==
    /\ \/ /\ \E c \in Channels : failures[c] > 0
                 /\ failures' = [failures EXCEPT ![c] = 0]
          /\ UNCHANGED <<tripped, window>>
       \/ /\ \E c \in tripped : tripped' = tripped \ {c}
          /\ UNCHANGED <<failures, window>>
       \/ /\ \E k \in Keys : window[k] > 0 /\ window' = [window EXCEPT ![k] = 0]
          /\ UNCHANGED <<failures, tripped>>
    /\ UNCHANGED <<rq, blame, dbVars>>

RequestStep(r) ==
    \/ SelectLoad(r) \/ RetainHealthy(r) \/ WeightedSelect(r)
    \/ CheckBreaker(r) \/ (\E w \in Windows : CheckWindow(r, w))
    \/ \E o \in {"ok", "upstream", "client", "neutral"} : AnswerDirect(r, o)
    \/ \E o \in {"ok", "upstream", "client", "cancelled", "neutral"} : AnswerStream(r, o)
    \/ ClearFailures(r) \/ ClearTripped(r) \/ CountFailure(r) \/ Trip(r)
    \/ RecordUsage(r)

AdminStep ==
    \/ \E c \in Channels : CreateChannel(c) \/ UpdateLoad(c) \/ DeleteLoad(c)
    \/ UpdateWrite \/ DeleteCount \/ DeleteRow

GatewayNext ==
    \/ \E r \in GwRequests : RequestStep(r)
    \/ AdminStep \/ Replicate \/ Expire

GatewaySpec == GatewayInit /\ [][GatewayNext]_gwVars

-----------------------------------------------------------------------------
(* Properties. *)

\* A channel is shut out of selection only after Threshold requests met a
\* failure that is the provider's own: bad requests, cancelled streams and
\* local errors never add up to an open breaker, however successes, lost
\* cache calls and expiries interleave (is_channel_health_failure,
\* stream_circuit_outcome, record_failure).
OnlyHealthFailuresTrip ==
    \A c \in tripped : blame[c] >= Threshold

\* A usage row that was there when delete_channel looked never loses its
\* channel: the orphans a deletion can leave are rows written after its
\* count.  This is what reading the count from the primary is for.
DeletionSparesCountedUsage ==
    \A c \in Channels : row[c] = "deleted" => counted[c] = {}

\* The gateway under concurrent requests and administration: the breaker
\* opens only for what is the provider's own failure, and a deletion spares
\* the usage it saw (quota.rs, gateway.rs).
GatewayHolds == OnlyHealthFailuresTrip /\ DeletionSparesCountedUsage

=============================================================================
