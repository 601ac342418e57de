-------------------------- MODULE BackgroundTasks --------------------------
(***************************************************************************)
(* The background task manager of the desktop agent                        *)
(* (crates/rust-agent/src/tasks/mod.rs).  One mutex guards the tables; a   *)
(* step here is what one caller does between taking that mutex and giving  *)
(* it back, or between two awaits that touch nothing shared.               *)
(*                                                                         *)
(* spawn_shell takes the mutex three times (a number, the record, the join *)
(* handle), the closure it starts runs the command and writes the result   *)
(* back, and a consumer copies what the command prints into the record.    *)
(* wait and stop park on a Notify, whose notify_waiters keeps no permit:   *)
(* only futures already enabled are woken.                                 *)
(***************************************************************************)
EXTENDS Naturals, FiniteSets, Sequences, SequencesExt

CONSTANTS
    Spawners,    \* calls of spawn_shell
    TaskCallers, \* calls of wait and stop
    MaxActive,   \* MAX_ACTIVE_TASKS
    MaxRecords,  \* MAX_TASK_RECORDS
    MaxChunks    \* TASK_OUTPUT_MAX_BYTES, in chunks of output

ASSUME TaskAssumption ==
    /\ IsFiniteSet(Spawners)
    /\ MaxActive \in Nat \ {0} /\ MaxRecords \in Nat /\ MaxActive <= MaxRecords

TaskIds == 1..Cardinality(Spawners)

VARIABLES
    taskSeq,    \* State.seq
    tasks,      \* State.tasks: id -> record, "absent" where there is none
    order,      \* State.order
    handles,    \* State.handles: ids that have a JoinHandle
    cancels,    \* State.cancels: ids that have a cancel flag
    cancelFlag, \* id -> the AtomicBool itself, which outlives its table entry
    exec,       \* id -> is exec_shell running
    chunks,     \* id -> [sent, queued]: accepted by the sink, not yet consumed
    spawner,    \* call of spawn_shell -> where it is, and its id
    taskCall    \* call of wait or stop -> where it is

taskVars == <<taskSeq, tasks, order, handles, cancels, cancelFlag, exec, chunks,
              spawner, taskCall>>

Terminal == {"completed", "failed", "killed"}
NoRecord == [status |-> "absent", output |-> 0, progress |-> 0]
Present(t) == {id \in DOMAIN t : t[id].status # "absent"}
Active(t) == {id \in DOMAIN t : t[id].status = "running"}
is_terminal(id) == tasks[id].status \in Terminal

----------------------------------------------------------------------------
(* spawn_shell                                                             *)

\* An empty command, a sandbox without a shell or a cwd outside the workspace
\* is refused before anything changes: such a call is one that never steps.
\* The first section under the mutex only takes a number.
SpawnNumber(s) ==
    /\ spawner[s].at = "called"
    /\ taskSeq' = taskSeq + 1
    /\ spawner' = [spawner EXCEPT ![s] = [at |-> "register", id |-> taskSeq + 1]]
    /\ UNCHANGED <<tasks, order, handles, cancels, cancelFlag, exec, chunks, taskCall>>

\* prune_terminal_tasks: the oldest finished record goes when the history does
\* not fit.  One record is added at a time, so one at most is over.  The
\* position of the one to go, if any.
Pruned(t, o) ==
    LET finished == {i \in DOMAIN o : t[o[i]].status \in Terminal}
    IN  {i \in finished : Cardinality(Present(t)) > MaxRecords /\ \A j \in finished : i <= j}

LimitReached(t) == Cardinality(Active(t)) >= MaxActive

\* The second section: the limit is checked and the record registered at once.
\* tokio::spawn of the closure follows with no await between.
SpawnRegister(s) ==
    LET id == spawner[s].id
        added == [tasks EXCEPT ![id] = [NoRecord EXCEPT !.status = "running"]]
        listed == Append(order, id)
        at == Pruned(added, listed)
        gone == {listed[i] : i \in at}
    IN  /\ spawner[s].at = "register"
        /\ IF LimitReached(tasks)
           THEN /\ spawner' = [spawner EXCEPT ![s].at = "over"]
                /\ UNCHANGED <<tasks, order, handles, cancels, exec>>
           ELSE /\ tasks' = [i \in TaskIds |-> IF i \in gone THEN NoRecord ELSE added[i]]
                /\ order' = IF at = {} THEN listed
                            ELSE RemoveAt(listed, CHOOSE i \in at : TRUE)
                /\ handles' = handles \ gone
                /\ cancels' = (cancels \cup {id}) \ gone
                /\ exec' = [exec EXCEPT ![id] = TRUE]
                /\ spawner' = [spawner EXCEPT ![s].at = "handle"]
        /\ UNCHANGED <<taskSeq, cancelFlag, chunks, taskCall>>

\* The third section stores the handle unless the closure has already ended.
SpawnHandle(s) ==
    LET id == spawner[s].id
    IN  /\ spawner[s].at = "handle"
        /\ handles' = IF is_terminal(id) THEN handles ELSE handles \cup {id}
        /\ spawner' = [spawner EXCEPT ![s].at = "over"]
        /\ UNCHANGED <<taskSeq, tasks, order, cancels, cancelFlag, exec, chunks, taskCall>>

----------------------------------------------------------------------------
(* The closure, its output sink and the consumer                           *)

\* The sink takes what still fits and queues it.
SinkChunk(id) ==
    /\ exec[id] /\ chunks[id].sent < MaxChunks
    /\ chunks' = [chunks EXCEPT ![id] = [sent |-> @.sent + 1, queued |-> @.queued + 1]]
    /\ UNCHANGED <<taskSeq, tasks, order, handles, cancels, cancelFlag, exec, spawner, taskCall>>

\* Mutation: the consumer does not look at the status.
AcceptsAlways(id) == tasks[id].status # "absent"

Accepts(id) == tasks[id].status = "running"

\* The consumer appends to a running task's preview, and outlives the closure.
ConsumeChunk(id) ==
    /\ chunks[id].queued > 0
    /\ chunks' = [chunks EXCEPT ![id].queued = @ - 1]
    /\ tasks' = IF Accepts(id) THEN [tasks EXCEPT ![id].output = @ + 1] ELSE tasks
    /\ UNCHANGED <<taskSeq, order, handles, cancels, cancelFlag, exec, spawner, taskCall>>

\* Futures of `done` that are enabled when notify_waiters is called.
Parked(id) == {c \in TaskCallers : taskCall[c].id = id /\ taskCall[c].at \in {"look", "park"}}

\* Mutation: notify_one, which wakes a single future.
WakeOne(id) ==
    [c \in TaskCallers |->
        IF Parked(id) # {} /\ c = (CHOOSE d \in Parked(id) : TRUE)
        THEN [taskCall[c] EXCEPT !.woken = TRUE] ELSE taskCall[c]]

Wake(id) ==
    [c \in TaskCallers |->
        IF c \in Parked(id) THEN [taskCall[c] EXCEPT !.woken = TRUE] ELSE taskCall[c]]

\* What exec_shell may end with: a result (cancelled only if the flag was
\* raised), an error, or a panic that catch_unwind turns into a failure.
Endings(id) ==
    {"completed", "failed", "error"} \cup (IF cancelFlag[id] THEN {"killed"} ELSE {})

\* The record as the closure leaves it: a result replaces the preview (0
\* stands for the canonical output), an error or a panic keeps it.
Settled(id, ending) ==
    IF tasks[id].status \in {"absent", "killed"} THEN tasks[id]
    ELSE IF ending = "error" THEN [tasks[id] EXCEPT !.status = "failed"]
    ELSE [tasks[id] EXCEPT !.status = ending, !.output = 0]

\* The write-back and the notification are one section under the mutex.
TaskEnds(id) ==
    /\ exec[id]
    /\ exec' = [exec EXCEPT ![id] = FALSE]
    /\ \E ending \in Endings(id) : tasks' = [tasks EXCEPT ![id] = Settled(id, ending)]
    /\ handles' = IF id \in Present(tasks) THEN handles \ {id} ELSE handles
    /\ cancels' = IF id \in Present(tasks) THEN cancels \ {id} ELSE cancels
    /\ taskCall' = Wake(id)
    /\ UNCHANGED <<taskSeq, order, cancelFlag, chunks, spawner>>

\* update: the running task's progress; a finished one is read-only.
UpdateTask(id) ==
    /\ tasks[id].status = "running"
    /\ tasks' = [tasks EXCEPT ![id].progress = 1]
    /\ UNCHANGED <<taskSeq, order, handles, cancels, cancelFlag, exec, chunks, spawner, taskCall>>

----------------------------------------------------------------------------
(* wait and stop.  `stop` is a check, the flag, a wait under a timeout and *)
(* a last section.                                                         *)

Step(c, at) == taskCall' = [taskCall EXCEPT ![c].at = at]
Return(c) == taskCall' = [taskCall EXCEPT ![c].at = "over", ![c].woken = FALSE]
Tables == <<taskSeq, tasks, order, handles, cancels, cancelFlag, exec, chunks, spawner>>

\* A caller names a task that was given a number, registered or not.
CallWait(c) ==
    /\ taskCall[c].at = "idle"
    /\ \E id \in 1..taskSeq, op \in {"wait", "stop"} :
          taskCall' = [taskCall EXCEPT ![c] =
              [@ EXCEPT !.id = id, !.op = op, !.at = IF op = "stop" THEN "stop" ELSE "fetch"]]
    /\ UNCHANGED Tables

\* stop's first section: unknown and finished tasks return at once.
StopCheck(c) ==
    LET id == taskCall[c].id
    IN  /\ taskCall[c].at = "stop"
        /\ IF tasks[id].status # "running" THEN Return(c)
           ELSE Step(c, IF id \in cancels THEN "cancel" ELSE "fetch")
        /\ UNCHANGED Tables

\* The flag is raised outside the mutex.
StopCancel(c) ==
    /\ taskCall[c].at = "cancel"
    /\ cancelFlag' = [cancelFlag EXCEPT ![taskCall[c].id] = TRUE]
    /\ Step(c, "fetch")
    /\ UNCHANGED <<taskSeq, tasks, order, handles, cancels, exec, chunks, spawner>>

\* wait takes the task's Notify, present as long as the record is.
WaitFetch(c) ==
    /\ taskCall[c].at = "fetch"
    /\ IF taskCall[c].id \in Present(tasks) THEN Step(c, "enable") ELSE Return(c)
    /\ UNCHANGED Tables

\* A new future is enabled before the status is read.
WaitEnable(c) ==
    /\ taskCall[c].at = "enable"
    /\ taskCall' = [taskCall EXCEPT ![c].at = "look", ![c].woken = FALSE]
    /\ UNCHANGED Tables

\* A finished task ends the wait, a pruned one too; a running one parks it.
WaitLook(c) ==
    LET id == taskCall[c].id
    IN  /\ taskCall[c].at = "look"
        /\ \/ /\ is_terminal(id) /\ taskCall[c].op = "stop"
              /\ taskCall' = [taskCall EXCEPT ![c].at = "settle", ![c].woken = FALSE]
           \/ is_terminal(id) /\ taskCall[c].op # "stop" /\ Return(c)
           \/ tasks[id].status = "absent" /\ Return(c)
           \/ tasks[id].status = "running" /\ Step(c, "park")
        /\ UNCHANGED Tables

WaitWoken(c) ==
    /\ taskCall[c].at = "park" /\ taskCall[c].woken
    /\ taskCall' = [taskCall EXCEPT ![c].at = "enable", ![c].woken = FALSE]
    /\ UNCHANGED Tables

\* stop's grace period ends while it waits; the task keeps running.
GraceEnds(c) ==
    /\ taskCall[c].op = "stop" /\ taskCall[c].at \in {"fetch", "look", "park"}
    /\ Return(c)
    /\ UNCHANGED Tables

\* stop's last section: a task that is not finished becomes killed.
StopSettle(c) ==
    LET id == taskCall[c].id
    IN  /\ taskCall[c].at = "settle"
        /\ tasks' = IF tasks[id].status = "running"
                    THEN [tasks EXCEPT ![id].status = "killed"] ELSE tasks
        /\ Return(c)
        /\ UNCHANGED <<taskSeq, order, handles, cancels, cancelFlag, exec, chunks, spawner>>

----------------------------------------------------------------------------

TaskInit ==
    /\ taskSeq = 0
    /\ tasks = [id \in TaskIds |-> NoRecord]
    /\ order = <<>>
    /\ handles = {} /\ cancels = {}
    /\ cancelFlag = [id \in TaskIds |-> FALSE]
    /\ exec = [id \in TaskIds |-> FALSE]
    /\ chunks = [id \in TaskIds |-> [sent |-> 0, queued |-> 0]]
    /\ spawner = [s \in Spawners |-> [at |-> "called", id |-> 0]]
    /\ taskCall = [c \in TaskCallers |->
                     [at |-> "idle", op |-> "wait", id |-> 0, woken |-> FALSE]]

SpawnStep(s) ==
    SpawnNumber(s) \/ SpawnRegister(s) \/ SpawnHandle(s)

\* What the runtime runs once it is ready: a call that is not parked.
CallerRuns(c) ==
    StopCheck(c) \/ StopCancel(c) \/ WaitFetch(c) \/ WaitEnable(c) \/ WaitLook(c)
    \/ WaitWoken(c) \/ StopSettle(c)

CallerStep(c) == CallWait(c) \/ CallerRuns(c) \/ GraceEnds(c)

\* What is written to a task while it runs.
OutputStep(id) == SinkChunk(id) \/ ConsumeChunk(id) \/ UpdateTask(id)

TaskNext ==
    \/ \E s \in Spawners : SpawnStep(s)
    \/ \E id \in TaskIds : OutputStep(id) \/ TaskEnds(id)
    \/ \E c \in TaskCallers : CallerStep(c)

TaskSpec == TaskInit /\ [][TaskNext]_taskVars

\* tokio polls every ready future, and a timer fires.  Nothing makes a
\* command end.
TaskFairness ==
    \A c \in TaskCallers : WF_taskVars(CallerRuns(c)) /\ WF_taskVars(GraceEnds(c))

----------------------------------------------------------------------------

TaskTypeOK ==
    /\ taskSeq \in 0..Cardinality(Spawners)
    /\ tasks \in [TaskIds -> [status : {"absent", "running"} \cup Terminal,
                              output : 0..MaxChunks, progress : 0..1]]
    /\ handles \subseteq TaskIds
    /\ taskCall \in [TaskCallers ->
          [at : {"idle", "stop", "cancel", "fetch", "enable", "look", "park", "settle", "over"},
           op : {"wait", "stop"}, id : 0..Cardinality(Spawners), woken : BOOLEAN]]

\* However spawns, endings and stops interleave: no more than MaxActive tasks
\* run and no more than MaxRecords are remembered, though the number is taken
\* long before the limit is checked; every record is listed once, and a task
\* can be cancelled exactly while it runs; and a task that ended with a result
\* shows the backend's output, with no chunk of the preview after it.
TaskRegistryHolds ==
    /\ Cardinality(Active(tasks)) <= MaxActive
    /\ Cardinality(Present(tasks)) <= MaxRecords
    /\ ToSet(order) = Present(tasks) /\ IsInjective(order)
    /\ cancels = Active(tasks)
    /\ \A id \in TaskIds : tasks[id].status \in {"completed", "killed"} => tasks[id].output = 0

\* A wait on a task that ends, and perhaps is pruned, returns, and a stop
\* always does.  notify_waiters keeps no permit and wakes every caller
\* that is enabled, so an ending that falls between the look and the await,
\* or that several callers wait for, is not missed.
WaitersReturn ==
    \A c \in TaskCallers :
        (\/ taskCall[c].at = "stop"
         \/ /\ taskCall[c].at \in {"enable", "look", "park"}
            /\ tasks[taskCall[c].id].status # "running") ~> taskCall[c].at = "over"

=============================================================================
