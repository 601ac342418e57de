----------------------------- MODULE AgentKernel -----------------------------
(***************************************************************************)
(* The agent's event loop (crates/rust-agent/src/kernel/event_loop.rs):    *)
(* one conversation, one queue of events from the host, one interrupt flag *)
(* that the host may raise at any moment, and compaction of the context.   *)
(*                                                                         *)
(* One action is what run() does between two awaits, or between two        *)
(* iterations of its loop.  The model service, the tools and the hooks are *)
(* external: they answer when and as they like.                            *)
(***************************************************************************)
EXTENDS Transcript

CONSTANTS
    Hooks,              \* whether the host configured lifecycle hooks
    AutoCompact,        \* whether a conversation can reach the token threshold
    MaxTurns,           \* config.max_turns (8 by default)
    PreserveRecent,     \* DEFAULT_PRESERVE_RECENT (6)
    MemoryKeepRecent,   \* SESSION_MEMORY_KEEP_RECENT (12)
    MaxFailures,        \* MAX_CONSECUTIVE_AUTOCOMPACT_FAILURES (3)
    MaxPtlRetries,      \* MAX_PTL_RETRIES (3)
    MaxStreamRetries,   \* MAX_COMPACT_STREAMING_RETRIES (2)
    Restored,           \* histories the host may load before run()
    MaxSent,            \* bound of the model: events the host sends
    MaxStops            \* bound of the model: times the user presses Stop

ASSUME KernelAssumption ==
    /\ Hooks \in BOOLEAN /\ AutoCompact \in BOOLEAN
    /\ {MaxTurns, PreserveRecent, MemoryKeepRecent} \subseteq Nat \ {0}
    /\ {MaxFailures, MaxPtlRetries, MaxStreamRetries} \subseteq Nat
    /\ \A c \in Restored : c \in Seq(Written) /\ Tidy(c)
    /\ {MaxSent, MaxStops} \subseteq Nat

VARIABLES
    phase,      \* the AgentState, and inside Querying the await it is at
    turn,       \* model turns of the current query
    event,      \* the event being observed
    conv,       \* context.conversation
    batch,      \* ids of the tool calls being executed
    failures,   \* compact_state.consecutive_failures
    summary,    \* compact_conversation: its request and its retry counters
    interrupt,  \* the shared AtomicBool
    events,     \* the host's event channel
    emitted,    \* the stream events of the last kernel step
    sent,       \* history: how many events the host has sent
    query,      \* history: the number of the message being answered
    stopped,    \* history: the newest message when Stop was last pressed
    stops       \* history: times Stop was pressed

inner == <<turn, event, batch, failures, summary>>
host == <<sent, stopped, stops>>
kernelVars == <<phase, inner, conv, interrupt, events, emitted, query, host>>

-----------------------------------------------------------------------------
\* "closed" stands for the end of the channel, once the host has dropped it.
EventKinds == {"user", "blank", "clear", "startup", "shutdown", "closed"}
Event == [kind : EventKinds, n : Nat]

\* The stream events a host acts on.  Text deltas, retry notices, progress of a
\* compaction and the start of a tool only change what is displayed.
TurnComplete(m) == [kind |-> "turn", msg |-> m]
ToolCompleted(id) == [kind |-> "tool", id |-> id]
Error == [kind |-> "error"]
Interrupted == [kind |-> "interrupted"]
StreamEvent ==
    {Error, Interrupted} \cup {ToolCompleted(id) : id \in ToolIds}
    \cup {TurnComplete(m) : m \in Message}

\* Querying is every phase from "querying" to "haltQuery".
Querying == {"querying", "compacting", "summarizing", "opening", "streaming",
             "tail", "stopHook", "haltQuery"}
Executing == {"executing", "dispatching", "haltBatch"}
Phases == {"created", "idle", "waiting", "observing", "completed"}
          \cup Querying \cup Executing

\* The AgentState of a phase.
StateKind(p) == IF p \in Querying THEN "querying"
                ELSE IF p \in Executing THEN "executing"
                ELSE IF p = "created" THEN "idle" ELSE p

\* Mutant: a tool batch can only go on to the next model turn.
NoWayOutOfTools(from, to) ==
    \/ from = "idle" /\ to \in {"observing", "waiting", "completed"}
    \/ from = "observing" /\ to \in {"querying", "idle", "completed"}
    \/ from = "querying" /\ to \in {"idle", "executing"}
    \/ from = "executing" /\ to = "querying"
    \/ from = "waiting" /\ to = "idle"

\* The table of fsm.rs, without Compacting and Failed, which run() never enters:
\* nobody sends it a compaction, and ContextStore::build never fails.
IsValidTransition(from, to) ==
    \/ from = "idle" /\ to \in {"observing", "waiting", "completed"}
    \/ from = "observing" /\ to \in {"querying", "idle", "completed"}
    \/ from = "querying" /\ to \in {"idle", "executing"}
    \/ from = "executing" /\ to \in {"querying", "idle"}
    \/ from = "waiting" /\ to = "idle"

NoSummary == [asked |-> <<>>, ptl |-> 0, again |-> 0]

KernelInit ==
    /\ phase = "created"
    /\ conv \in Restored
    /\ turn = 0 /\ batch = {} /\ failures = 0 /\ summary = NoSummary
    /\ event = [kind |-> "startup", n |-> 0]
    /\ interrupt = FALSE
    /\ events = <<>> /\ emitted = <<>>
    /\ sent = 0 /\ query = 0 /\ stopped = 0 /\ stops = 0

-----------------------------------------------------------------------------
\* Host calls prepare_continuation before run(): a history that ends in tool
\* results goes straight on to the model.
PrepareContinuation ==
    /\ phase = "created"
    /\ conv' = Sanitize(conv)
    /\ phase' = IF HasPendingContinuation(conv') THEN "querying" ELSE "idle"
    /\ turn' = 0 /\ emitted' = <<>>
    /\ UNCHANGED <<event, batch, failures, summary, interrupt, events, query,
                   host>>

\* The run() loop starts in Idle.
Start ==
    /\ phase = "created"
    /\ phase' = "idle" /\ emitted' = <<>>
    /\ UNCHANGED <<inner, conv, interrupt, events, query, host>>

IdleReceive ==
    /\ phase = "idle" /\ events # <<>> /\ Head(events).kind # "closed"
    /\ phase' = "observing" /\ event' = Head(events) /\ events' = Tail(events)
    /\ emitted' = <<>>
    /\ UNCHANGED <<turn, batch, failures, summary, conv, interrupt, query,
                   host>>

\* The channel is closed: SessionEnd hook, then the loop ends.
IdleClosed ==
    /\ phase = "idle" /\ events # <<>> /\ Head(events).kind = "closed"
    /\ phase' = "completed" /\ emitted' = <<>>
    /\ UNCHANGED <<inner, conv, interrupt, events, query, host>>

\* idle_timeout passes with nothing to receive; WAITING_SLEEP later it is Idle
\* again.
IdleTimeout ==
    /\ phase = "idle" /\ events = <<>>
    /\ phase' = "waiting" /\ emitted' = <<>>
    /\ UNCHANGED <<inner, conv, interrupt, events, query, host>>

WaitingOver ==
    /\ phase = "waiting"
    /\ phase' = "idle" /\ emitted' = <<>>
    /\ UNCHANGED <<inner, conv, interrupt, events, query, host>>

\* Startup runs the SessionStart hook, Shutdown the SessionEnd hook; neither can
\* change anything.
ObserveSystem ==
    /\ phase = "observing" /\ event.kind \in {"startup", "shutdown"}
    /\ phase' = IF event.kind = "startup" THEN "idle" ELSE "completed"
    /\ emitted' = <<>>
    /\ UNCHANGED <<inner, conv, interrupt, events, query, host>>

ObserveClear ==
    /\ phase = "observing" /\ event.kind = "clear"
    /\ phase' = "idle"
    /\ conv' = <<>> /\ failures' = 0 /\ interrupt' = FALSE
    /\ emitted' = <<>>
    /\ UNCHANGED <<turn, event, batch, summary, events, query, host>>

\* A UserPromptSubmit hook refuses the message.
ObserveBlocked ==
    /\ phase = "observing" /\ event.kind \in {"user", "blank"}
    /\ Hooks
    /\ phase' = "idle" /\ emitted' = <<Error>>
    /\ query' = event.n
    /\ UNCHANGED <<inner, conv, interrupt, events, host>>

\* Mutant: the restored or interrupted history is sent as it is.
ObservePromptUnsanitized ==
    /\ phase = "observing" /\ event.kind \in {"user", "blank"}
    /\ conv' = IF event.kind = "user" THEN Append(conv, UserText) ELSE conv
    /\ phase' = IF conv' = <<>> THEN "idle" ELSE "querying"
    /\ turn' = 0 /\ query' = event.n /\ emitted' = <<>>
    /\ UNCHANGED <<event, batch, failures, summary, interrupt, events, host>>

\* The history is sanitized, then ContextStore::build appends the message; blank
\* input appends nothing, and only an empty conversation is not sent.
ObservePrompt ==
    /\ phase = "observing" /\ event.kind \in {"user", "blank"}
    /\ conv' = IF event.kind = "user"
               THEN Append(Sanitize(conv), UserText) ELSE Sanitize(conv)
    /\ phase' = IF conv' = <<>> THEN "idle" ELSE "querying"
    /\ turn' = 0 /\ query' = event.n /\ emitted' = <<>>
    /\ UNCHANGED <<event, batch, failures, summary, interrupt, events, host>>

-----------------------------------------------------------------------------
\* The query is aborted at a turn boundary; the Stop hook runs before Idle.
QueryInterrupted ==
    /\ phase = "querying" /\ interrupt
    /\ interrupt' = FALSE /\ emitted' = <<Interrupted>>
    /\ phase' = IF Hooks THEN "haltQuery" ELSE "idle"
    /\ UNCHANGED <<inner, conv, events, query, host>>

QueryLimit ==
    /\ phase = "querying" /\ ~interrupt
    /\ turn >= MaxTurns
    /\ phase' = "idle" /\ emitted' = <<Error>>
    /\ UNCHANGED <<inner, conv, interrupt, events, query, host>>

\* should_autocompact: the estimate is over the threshold and the breaker of
\* consecutive failures is closed.
QueryTurn ==
    /\ phase = "querying" /\ ~interrupt
    /\ turn < MaxTurns
    /\ \/ phase' = "opening"
       \/ AutoCompact /\ failures < MaxFailures /\ phase' = "compacting"
    /\ emitted' = <<>>
    /\ UNCHANGED <<inner, conv, interrupt, events, query, host>>

\* A PreCompact hook refuses: the turn goes on uncompacted.
CompactBlocked ==
    /\ phase = "compacting" /\ Hooks
    /\ phase' = "opening" /\ emitted' = <<Error>>
    /\ UNCHANGED <<inner, conv, interrupt, events, query, host>>

\* What the collapse level makes of the conversation, if it applies at all.
Collapsed(c) ==
    {c} \cup {ContextCollapse(d, PreserveRecent) :
                d \in {e \in {c} : CanCollapse(e, PreserveRecent)}}

\* The local levels of auto_compact_if_needed, up to the first that brings the
\* estimate under the threshold: clearing old results leaves the messages in
\* place, collapsing sanitizes the newer part, condensing replaces the older
\* part by one message.
CompactLocally ==
    /\ phase = "compacting"
    /\ \E c \in Collapsed(conv) :
          LET keep == Max({PreserveRecent, MemoryKeepRecent}) IN
          \/ conv' = c
          \/ CanCondense(c, keep) /\ conv' = Condense(c, keep)
    /\ failures' = 0
    /\ phase' = "opening" /\ emitted' = <<>>
    /\ UNCHANGED <<turn, event, batch, summary, interrupt, events, query,
                   host>>

\* No local level was enough: the older part goes to the model for a summary.
\* With nothing old enough the conversation stays as it is (compact_noop).
CompactBySummary ==
    /\ phase = "compacting"
    /\ \E c \in Collapsed(conv) :
          LET older == Split(c, PreserveRecent).older IN
          /\ ~CanCondense(c, Max({PreserveRecent, MemoryKeepRecent}))
          /\ conv' = c
          /\ phase' = IF older = <<>> THEN "opening" ELSE "summarizing"
          /\ summary' = IF older = <<>> THEN NoSummary
                        ELSE [NoSummary EXCEPT
                                 !.asked = Append(older, UserText)]
    /\ emitted' = <<>>
    /\ UNCHANGED <<turn, event, batch, failures, interrupt, events, query,
                   host>>

SummaryDone ==
    /\ phase = "summarizing"
    /\ conv' = Condense(conv, PreserveRecent)
    /\ failures' = 0 /\ summary' = NoSummary
    /\ phase' = "opening" /\ emitted' = <<>>
    /\ UNCHANGED <<turn, event, batch, interrupt, events, query, host>>

\* The prompt was too long: drop the oldest rounds and ask again.
SummaryRetryShorter ==
    LET shorter == TruncateHead(Front(summary.asked)) IN
    /\ phase = "summarizing"
    /\ summary.ptl < MaxPtlRetries /\ shorter # <<>>
    /\ summary' = [summary EXCEPT !.ptl = summary.ptl + 1,
                                  !.asked = Append(shorter, UserText)]
    /\ emitted' = <<>>
    /\ UNCHANGED <<phase, turn, event, batch, failures, conv, interrupt, events,
                   query, host>>

SummaryRetry ==
    /\ phase = "summarizing"
    /\ summary.again < MaxStreamRetries
    /\ summary' = [summary EXCEPT !.again = summary.again + 1]
    /\ emitted' = <<>>
    /\ UNCHANGED <<phase, turn, event, batch, failures, conv, interrupt, events,
                   query, host>>

\* A terminal failure, or no retry of its kind is left.
SummaryFails ==
    /\ phase = "summarizing"
    /\ failures' = failures + 1 /\ summary' = NoSummary
    /\ phase' = "opening" /\ emitted' = <<>>
    /\ UNCHANGED <<turn, event, batch, conv, interrupt, events, query, host>>

-----------------------------------------------------------------------------
\* build_system_prompt and stream_response: the flag is not looked at here.
OpenStream ==
    /\ phase = "opening"
    /\ phase' = "streaming" /\ emitted' = <<>>
    /\ UNCHANGED <<inner, conv, interrupt, events, query, host>>

OpenFails ==
    /\ phase = "opening"
    /\ phase' = "idle" /\ emitted' = <<Error>>
    /\ UNCHANGED <<inner, conv, interrupt, events, query, host>>

\* Mutant: stream.next() without the poll, on a stream that stays silent.
StreamNotPolled == FALSE /\ UNCHANGED kernelVars

\* The poll of STREAM_INTERRUPT_POLL, or the check on every event of the stream.
StreamInterrupted ==
    /\ phase = "streaming" /\ interrupt
    /\ interrupt' = FALSE
    /\ phase' = "idle" /\ emitted' = <<Interrupted>>
    /\ UNCHANGED <<inner, conv, events, query, host>>

\* A Retry event says that no attempt is left.
StreamGivesUp ==
    /\ phase = "streaming" /\ ~interrupt
    /\ phase' = "idle" /\ emitted' = <<Error>>
    /\ UNCHANGED <<inner, conv, interrupt, events, query, host>>

\* The stream ends without Complete; an end of stream is not an event, so the
\* flag is not looked at.
StreamEnds ==
    /\ phase = "streaming"
    /\ phase' = "idle" /\ emitted' = <<Error>>
    /\ UNCHANGED <<inner, conv, interrupt, events, query, host>>

\* Complete: wait for the stream to close, STREAM_COMPLETE_TAIL_TIMEOUT at most.
StreamComplete ==
    /\ phase = "streaming" /\ ~interrupt
    /\ phase' = "tail" /\ emitted' = <<>>
    /\ UNCHANGED <<inner, conv, interrupt, events, query, host>>

\* The message was empty: the turn is ignored.
AnswerEmpty ==
    /\ phase = "tail"
    /\ phase' = "idle" /\ emitted' = <<Error>>
    /\ UNCHANGED <<inner, conv, interrupt, events, query, host>>

\* validate_tool_use_ids refuses the batch; a flag raised meanwhile is dropped.
AnswerInvalid ==
    /\ phase = "tail"
    /\ interrupt' = FALSE
    /\ phase' = "idle" /\ emitted' = <<Error>>
    /\ UNCHANGED <<inner, conv, events, query, host>>

\* The final answer.  The Stop hook runs, then a flag raised meanwhile is
\* dropped; without hooks nothing can happen in between.
AnswerFinal ==
    /\ phase = "tail"
    /\ conv' = Append(conv, Answer(TRUE, {}))
    /\ emitted' = <<TurnComplete(Answer(TRUE, {}))>>
    /\ phase' = IF Hooks THEN "stopHook" ELSE "idle"
    /\ interrupt' = (interrupt /\ Hooks)
    /\ UNCHANGED <<inner, events, query, host>>

StopHookDone ==
    /\ phase = "stopHook"
    /\ interrupt' = FALSE
    /\ phase' = "idle" /\ emitted' = <<>>
    /\ UNCHANGED <<inner, conv, events, query, host>>

\* Whether text comes with the calls makes no difference to anyone.
AnswerWithTools ==
    /\ phase = "tail"
    /\ \E ids \in (SUBSET ToolIds) \ {{}} :
          /\ batch' = ids
          /\ conv' = Append(conv, Answer(FALSE, ids))
          /\ emitted' = <<TurnComplete(Answer(FALSE, ids))>>
    /\ phase' = "executing"
    /\ UNCHANGED <<turn, event, failures, summary, interrupt, events, query,
                   host>>

-----------------------------------------------------------------------------
\* The batch is not dispatched, but every call gets an "interrupted" result.
BatchInterrupted ==
    /\ phase = "executing" /\ interrupt
    /\ interrupt' = FALSE
    /\ conv' = Append(conv, ToolResults(batch))
    /\ emitted' = <<Interrupted>>
    /\ phase' = IF Hooks THEN "haltBatch" ELSE "idle"
    /\ UNCHANGED <<inner, events, query, host>>

BatchDispatch ==
    /\ phase = "executing" /\ ~interrupt
    /\ phase' = "dispatching" /\ emitted' = <<>>
    /\ UNCHANGED <<inner, conv, interrupt, events, query, host>>

\* dispatch_many returns; failed and refused calls have a result too.
BatchDone ==
    /\ phase = "dispatching"
    /\ conv' = Append(conv, ToolResults(batch))
    /\ emitted' = [i \in 1..Cardinality(batch) |->
                      ToolCompleted(SetToSeq(batch)[i])]
    /\ turn' = turn + 1
    /\ phase' = "querying"
    /\ UNCHANGED <<event, batch, failures, summary, interrupt, events, query,
                   host>>

\* The Stop hook of an interrupted query is over.
HaltHookDone ==
    /\ phase \in {"haltQuery", "haltBatch"}
    /\ phase' = "idle" /\ emitted' = <<>>
    /\ UNCHANGED <<inner, conv, interrupt, events, query, host>>

-----------------------------------------------------------------------------
\* What the loop, the hooks and the tools do.
KernelRuns ==
    \/ Start
    \/ IdleReceive \/ IdleClosed \/ IdleTimeout \/ WaitingOver
    \/ ObserveSystem \/ ObserveClear \/ ObserveBlocked \/ ObservePrompt
    \/ QueryInterrupted \/ QueryLimit \/ QueryTurn
    \/ CompactBlocked \/ CompactLocally \/ CompactBySummary
    \/ OpenStream \/ OpenFails \/ StreamInterrupted
    \/ AnswerEmpty \/ AnswerInvalid \/ AnswerFinal \/ AnswerWithTools
    \/ StopHookDone \/ BatchInterrupted \/ BatchDispatch \/ HaltHookDone

\* What the model service brings about.
ModelSpeaks ==
    \/ StreamGivesUp \/ StreamEnds \/ StreamComplete
    \/ SummaryDone \/ SummaryRetryShorter \/ SummaryRetry \/ SummaryFails

\* Where the kernel never stays.  Hooks, tools, the opening of a stream and a
\* request for a summary are taken to end, and an idle kernel receives what is
\* there.  Nothing makes the stream of a turn say anything.
Transient ==
    \/ phase \in Phases \ {"idle", "streaming", "dispatching", "completed"}
    \/ phase = "idle" /\ events # <<>>

\* The kernel leaves the phase it is in, by whichever action KernelNext allows.
Leaves == phase' \in Phases \ {phase}

\* The host sends an event; they are numbered for the properties.
HostSend(kind) ==
    /\ sent < MaxSent
    /\ \A i \in 1..Len(events) : events[i].kind # "closed"
    /\ sent' = sent + 1
    /\ events' = Append(events, [kind |-> kind, n |-> sent + 1])
    /\ UNCHANGED <<phase, inner, conv, interrupt, emitted, query, stopped,
                   stops>>

\* The newest message of the user: queued, being observed or being answered.
Newest ==
    Max({query} \cup {events[i].n : i \in {j \in 1..Len(events) :
                                              events[j].kind = "user"}}
        \cup (IF phase = "observing" /\ event.kind = "user" THEN {event.n}
              ELSE {}))

\* interrupt_handle: the host raises the flag whenever it wants.
HostInterrupt ==
    /\ stops < MaxStops
    /\ interrupt' = TRUE /\ stops' = stops + 1
    /\ stopped' = Newest
    /\ UNCHANGED <<phase, inner, conv, events, emitted, query, sent>>

KernelNext ==
    \/ PrepareContinuation \/ KernelRuns \/ ModelSpeaks \/ BatchDone
    \/ \E kind \in EventKinds : HostSend(kind)
    \/ HostInterrupt

KernelFairness ==
    /\ WF_phase(Transient /\ Leaves)
    /\ WF_phase(phase = "dispatching" /\ Leaves)
    /\ WF_kernelVars(StreamInterrupted)

KernelSpec == KernelInit /\ [][KernelNext]_kernelVars /\ KernelFairness

-----------------------------------------------------------------------------
KernelTypeOK ==
    /\ phase \in Phases
    /\ turn \in 0..MaxTurns
    /\ event \in Event
    /\ conv \in Seq(Message)
    /\ batch \in SUBSET ToolIds
    /\ failures \in 0..MaxFailures
    /\ summary \in [asked : Seq(Message), ptl : 0..MaxPtlRetries,
                    again : 0..MaxStreamRetries]
    /\ interrupt \in BOOLEAN
    /\ events \in Seq(Event)
    /\ emitted \in Seq(StreamEvent)
    /\ {sent, query, stopped, stops} \subseteq Nat

\* Every conversation sent to the model, for a turn or for a summary, has each
\* tool call answered in full by the next message and no other tool results:
\* after interrupted batches, restored histories, clears and every level of
\* compaction.  The model services refuse anything else.  And no query sends
\* more turns than max_turns.
RequestWellPaired ==
    /\ turn <= MaxTurns
    /\ phase \in {"opening", "streaming"} => WellPaired(conv)
    /\ phase = "summarizing" => WellPaired(summary.asked)

\* run() changes its state only along the table, as it asserts in debug builds;
\* prepare_continuation, outside run(), may also enter a query at once.
StateChangesValid ==
    [][LET from == StateKind(phase)  to == StateKind(phase')
       IN  (phase # "created" /\ from # to)
              => IsValidTransition(from, to)]_kernelVars

\* A raised flag ends the query, even when the model stream never says anything
\* again (interrupt_wakes_silent_model_stream tests one schedule of it).
StopEndsQuery ==
    (interrupt /\ phase \in Querying \cup Executing)
        ~> phase \notin Querying \cup Executing

\* A query is aborted only by a Stop that was pressed when it had been sent
\* already ("stale interrupt flag must not abort the next query",
\* tests/kernel_loop.rs).  A host that presses Stop only while a query is open,
\* as the chat page does, can count on it.
StopHitsItsQuery == emitted = <<Interrupted>> => stopped >= query

\* A flag raised after a message was queued is still there when that message
\* reaches Querying ("must be kept", says the comment where a finished query
\* drops the flag): it is not dropped without aborting anything.
PresetStopKept ==
    [][(interrupt /\ ~interrupt' /\ emitted' # <<Interrupted>>)
          => stopped <= query]_kernelVars

\* A query aborted by Stop runs the Stop hook, as a finished one does
\* (interrupt_at_tool_boundary_fires_stop_hook, tests/kernel_loop.rs).
InterruptRunsStopHook ==
    (Hooks /\ emitted = <<Interrupted>>) => phase \in {"haltQuery", "haltBatch"}
=============================================================================
