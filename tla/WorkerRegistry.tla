--------------------------- MODULE WorkerRegistry ---------------------------
(***************************************************************************)
(* The table snowflake_worker, from which every server process takes the   *)
(* worker id that goes into its snowflake ids (server/src/utils/           *)
(* snowflake.rs): registration, heartbeats, shutdown, and the removal of   *)
(* rows without a recent heartbeat.  Heartbeats and deadlines are read     *)
(* from the clock of the process, not of the database, so clocks may       *)
(* differ.  The rows are found by worker id alone, whoever inserted them.  *)
(* Reading the clock and the statement that uses it are one step.          *)
(***************************************************************************)
EXTENDS Integers, FiniteSets

CONSTANTS
    IdServers,      \* server processes
    WorkerIds,      \* 0 .. MAX_WORKER_ID
    StaleAfter,     \* STALE_WORKER_SECS
    MaxSkew,        \* how far apart two clocks may be
    MaxTime         \* bound of the model: the last instant it looks at

ASSUME RegistryAssumption ==
    /\ WorkerIds \subseteq Nat
    /\ StaleAfter \in Nat /\ MaxSkew \in Nat /\ MaxTime \in Nat
    /\ MaxSkew <= StaleAfter    \* or a row is stale as soon as it is written

NoWorker == -1
NoBeat == -1

VARIABLES
    now,        \* real time
    skew,       \* by how much each process is ahead of it
    worker,     \* the heartbeat column of each row, NoBeat where there is none
    server,     \* each process: where it is, its id, its last heartbeat
    late        \* history: a running process let too long pass without one

registryVars == <<now, skew, worker, server, late>>

Down == [at |-> "down", used |-> {}, id |-> NoWorker, beat |-> 0]

RegistryTypeOK ==
    /\ now \in 0 .. MaxTime
    /\ skew \in [IdServers -> 0 .. MaxSkew]
    /\ worker \in [WorkerIds -> NoBeat .. MaxTime + MaxSkew]
    /\ server \in [IdServers -> [at : {"down", "cleaned", "listed", "up"}, used : SUBSET WorkerIds,
                                 id : WorkerIds \cup {NoWorker}, beat : 0 .. MaxTime]]
    /\ late \in BOOLEAN

RegistryInit ==
    /\ now = 0
    /\ skew \in [IdServers -> 0 .. MaxSkew]
    /\ worker = [w \in WorkerIds |-> NoBeat]
    /\ server = [p \in IdServers |-> Down]
    /\ late = FALSE

Registered == {w \in WorkerIds : worker[w] # NoBeat}

LocalTime(p) == now + skew[p]

\* Mutant: the deadline is one second off.
clean_early(p) ==
    [w \in WorkerIds |-> IF worker[w] <= LocalTime(p) - StaleAfter THEN NoBeat ELSE worker[w]]

\* clean_stale_workers: heartbeat < now - STALE_WORKER_SECS.
clean_stale_workers(p) ==
    [w \in WorkerIds |-> IF worker[w] < LocalTime(p) - StaleAfter THEN NoBeat ELSE worker[w]]

\* register_worker begins.
Clean(p) ==
    /\ server[p].at = "down"
    /\ worker' = clean_stale_workers(p)
    /\ server' = [server EXCEPT ![p] = [Down EXCEPT !.at = "cleaned"]]
    /\ UNCHANGED <<now, skew, late>>

\* The ids in use, read by a statement of its own.
List(p) ==
    /\ server[p].at = "cleaned"
    /\ server' = [server EXCEPT ![p] = [@ EXCEPT !.at = "listed", !.used = Registered]]
    /\ UNCHANGED <<now, skew, worker, late>>

\* try_insert_worker for the lowest id that is left: the unique constraint
\* turns away the slower of two processes, which then tries the next.
Insert(p) ==
    LET free == WorkerIds \ server[p].used
        w == CHOOSE v \in free : \A u \in free : v <= u
    IN  /\ server[p].at = "listed"
        /\ \/ /\ free # {} /\ worker[w] = NoBeat
              /\ worker' = [worker EXCEPT ![w] = LocalTime(p)]
              /\ server' = [server EXCEPT ![p] = [Down EXCEPT !.at = "up", !.id = w, !.beat = now]]
           \/ /\ free # {} /\ worker[w] # NoBeat
              /\ server' = [server EXCEPT ![p].used = @ \cup {w}]
              /\ UNCHANGED worker
           \/ /\ free = {}      \* NoAvailableWorker
              /\ server' = [server EXCEPT ![p] = Down]
              /\ UNCHANGED worker
        /\ UNCHANGED <<now, skew, late>>

\* heartbeat, where it succeeds; it may find no row, or another's.
Heartbeat(p) ==
    /\ server[p].at = "up"
    /\ worker' = [w \in WorkerIds |->
                    IF w = server[p].id /\ worker[w] # NoBeat THEN LocalTime(p) ELSE worker[w]]
    /\ server' = [server EXCEPT ![p].beat = now]
    /\ UNCHANGED <<now, skew, late>>

\* The handle is dropped: deregister_worker.
Shutdown(p) ==
    /\ server[p].at = "up"
    /\ worker' = [worker EXCEPT ![server[p].id] = NoBeat]
    /\ server' = [server EXCEPT ![p] = Down]
    /\ UNCHANGED <<now, skew, late>>

\* The process dies, a statement of its registration fails, or its
\* deregistration does: the row stays.
Die(p) ==
    /\ server[p].at # "down"
    /\ server' = [server EXCEPT ![p] = Down]
    /\ UNCHANGED <<now, skew, worker, late>>

\* Time passes; a process that is paused or cannot reach the database becomes
\* late when its row may look stale on another clock.
Pass ==
    /\ now < MaxTime
    /\ now' = now + 1
    /\ late' = (late \/ \E p \in IdServers :
                            server[p].at = "up" /\ now' - server[p].beat > StaleAfter - MaxSkew)
    /\ UNCHANGED <<skew, worker, server>>

RegistryNext ==
    \/ \E p \in IdServers :
           Clean(p) \/ List(p) \/ Insert(p) \/ Heartbeat(p) \/ Shutdown(p) \/ Die(p)
    \/ Pass

RegistrySpec == RegistryInit /\ [][RegistryNext]_registryVars

-----------------------------------------------------------------------------
(* Properties. *)

\* As long as every running process renews its row in time, the difference of
\* the clocks deducted, no two processes have the same worker id, however their
\* registrations, crashes and shutdowns interleave.  (One that was late may
\* come back, renew or delete the row of its successor, and so make even
\* processes share an id that were never late.)
WorkerIdsUnique ==
    late \/ \A p, q \in IdServers :
                server[p].at = "up" /\ server[q].at = "up" /\ server[p].id = server[q].id => p = q

=============================================================================
