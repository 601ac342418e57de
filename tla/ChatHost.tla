------------------------------ MODULE ChatHost ------------------------------
(***************************************************************************)
(* The chat page (app/web/src/views/agent_chat.rs, agent/view_model.rs,    *)
(* agent/permission_bridge.rs) around the agent kernel: what the user may  *)
(* press, the tasks the page spawns, the pump that applies the kernel's    *)
(* stream events, the mirror it saves and the one-shot grant of            *)
(* /skill-create.                                                          *)
(*                                                                         *)
(* The page and the kernel are tasks of one executor: an action is what    *)
(* one of them does between two awaits.  The page configures no hooks.     *)
(***************************************************************************)
EXTENDS AgentKernel

CONSTANT MaxClears      \* bound of the model: times the user clears the chat

ASSUME ChatAssumption == ~Hooks /\ MaxClears \in Nat /\ IsFiniteSet(ToolIds)

VARIABLES
    busy,           \* ChatViewState.busy: Stop is shown instead of Send
    stopping,       \* ChatViewState.interrupt_pending
    outbox,         \* messages whose send task has not run yet
    loading,        \* epochs of the /skill commands still loading their skill
    pipe,           \* stream events the pump has not taken
    pump,           \* what the stream pump is at
    mirror,         \* ConversationMirror
    saved,          \* the session snapshot in storage
    gate,           \* who holds session_operation_gate
    epoch,          \* session_epoch
    clearing,       \* progress of on_clear_conversation
    grant,          \* SkillCreateTool.authorized: 0, or the message that set it
    dialog,         \* the permission or question dialog of the running batch
    base,           \* history: messages sent before the last clear
    overlap,        \* history: a skill prompt was queued behind another query
    wiped           \* history: ObserveClear dropped a flag (PresetStopKept)

view == <<busy, stopping>>
tasks == <<outbox, loading>>
store == <<pump, saved, gate>>
session == <<epoch, clearing, base>>
asks == <<grant, dialog>>
chatPage == <<view, tasks, mirror, store, session, asks, overlap>>
chatVars == <<kernelVars, pipe, chatPage, wiped>>

NoMirror == [msgs |-> <<>>, open |-> {}, done |-> {}]
PumpReady == [pc |-> "ready", epoch |-> 0, snap |-> <<>>]

ChatInit ==
    /\ KernelInit
    /\ busy = FALSE /\ stopping = FALSE
    /\ outbox = <<>> /\ loading = {} /\ pipe = <<>>
    /\ pump = PumpReady
    /\ mirror = [NoMirror EXCEPT !.msgs = conv]
    /\ saved = conv
    /\ gate = "free" /\ epoch = 0 /\ clearing = "no"
    /\ grant = 0 /\ dialog = "none"
    /\ base = 0 /\ overlap = FALSE /\ wiped = FALSE

-----------------------------------------------------------------------------
\* flush_pending_as_interrupted, then the text: the results of an open tool
\* round go in front of a new message of the user.
FlushPending(m) ==
    IF m.open = {} THEN m
    ELSE [NoMirror EXCEPT !.msgs = Append(m.msgs, ToolResults(m.open))]

\* Mutant: an open tool round stays open behind the new message.
PushTextOnly(m) == [m EXCEPT !.msgs = Append(m.msgs, UserText)]

PushUserText(m) ==
    [FlushPending(m) EXCEPT !.msgs = Append(FlushPending(m).msgs, UserText)]

OnTurnComplete(m, msg) ==
    [msgs |-> Append(m.msgs, msg), open |-> msg.uses, done |-> {}]

\* The last result of a round closes it.
OnToolCompleted(m, id) ==
    LET done == m.done \cup ({id} \cap m.open)
    IN  IF m.open # {} /\ done = m.open
        THEN [NoMirror EXCEPT !.msgs = Append(m.msgs, ToolResults(m.open))]
        ELSE [m EXCEPT !.done = done]

-----------------------------------------------------------------------------
\* The composer accepts input.
InputEnabled == ~busy /\ ~stopping /\ clearing = "no"

\* on_send of a plain message, or of /skill-create, which grants one creation.
OnSend(create) ==
    /\ InputEnabled /\ phase # "created"
    /\ sent < MaxSent /\ sent' = sent + 1
    /\ busy' = TRUE
    /\ outbox' = Append(outbox, sent + 1)
    /\ grant' = IF create THEN sent + 1 ELSE grant
    /\ UNCHANGED <<phase, inner, conv, interrupt, events, emitted, query,
                   stopped, stops, pipe, stopping, loading, mirror, store,
                   session, dialog, overlap, wiped>>

\* The spawned task: the event is in the channel, then in the mirror.
SendTask ==
    /\ outbox # <<>>
    /\ events' = Append(events, [kind |-> "user", n |-> Head(outbox)])
    /\ outbox' = Tail(outbox)
    /\ mirror' = PushUserText(mirror)
    /\ UNCHANGED <<phase, inner, conv, interrupt, emitted, query, host,
                   pipe, view, loading, store, session, asks, overlap, wiped>>

\* on_send of /skill <name>: the skill is read from storage first, and the
\* composer stays open meanwhile.
OnSkill ==
    /\ InputEnabled /\ phase # "created"
    /\ loading = {}
    /\ sent < MaxSent
    /\ loading' = {epoch}
    /\ UNCHANGED <<kernelVars, pipe, view, outbox, mirror, store, session, asks,
                   overlap, wiped>>

SkillLoaded ==
    /\ epoch \in loading /\ sent < MaxSent
    /\ loading' = {}
    /\ sent' = sent + 1
    /\ busy' = TRUE
    /\ events' = Append(events, [kind |-> "user", n |-> sent + 1])
    /\ mirror' = PushUserText(mirror)
    /\ overlap' = (overlap \/ ~InputEnabled)
    /\ UNCHANGED <<phase, inner, conv, interrupt, emitted, query, stopped,
                   stops, pipe, stopping, outbox, store, session, asks,
                   wiped>>

\* The skill cannot be loaded, or the chat was cleared since.
SkillDropped ==
    /\ loading # {}
    /\ loading' = {}
    /\ UNCHANGED <<kernelVars, pipe, view, outbox, mirror, store, session, asks,
                   overlap, wiped>>

\* Mutant: an open dialog waits for the user as before.
OnInterruptDialogOpen ==
    /\ busy /\ stops < MaxStops
    /\ interrupt' = TRUE /\ stopped' = sent /\ stops' = stops + 1
    /\ grant' = 0
    /\ stopping' = TRUE /\ busy' = FALSE
    /\ UNCHANGED <<phase, inner, conv, events, emitted, query, sent, pipe,
                   tasks, mirror, store, session, dialog, overlap, wiped>>

\* on_interrupt: the Stop button, shown while busy.  An open dialog is refused.
OnInterrupt ==
    /\ busy /\ stops < MaxStops
    /\ interrupt' = TRUE /\ stopped' = sent /\ stops' = stops + 1
    /\ grant' = 0
    /\ dialog' = IF dialog = "shown" THEN "answered" ELSE dialog
    /\ stopping' = TRUE /\ busy' = FALSE
    /\ UNCHANGED <<phase, inner, conv, events, emitted, query, sent, pipe,
                   tasks, mirror, store, session, overlap, wiped>>

-----------------------------------------------------------------------------
\* A tool of the batch asks for permission or asks the user a question (once in
\* a batch).  A cancelled query is refused the permission at once; its question
\* is queued all the same.
AskUser ==
    /\ phase = "dispatching" /\ dialog = "none"
    /\ dialog' \in {"queued"} \cup {d \in {"answered"} : interrupt}
    /\ UNCHANGED <<kernelVars, pipe, view, tasks, mirror, store, session, grant,
                   overlap, wiped>>

\* The permission and question pumps refuse what arrives after Stop.
DialogPump ==
    /\ dialog = "queued"
    /\ dialog' = IF interrupt THEN "answered" ELSE "shown"
    /\ UNCHANGED <<kernelVars, pipe, view, tasks, mirror, store, session, grant,
                   overlap, wiped>>

AnswerDialog ==
    /\ dialog = "shown"
    /\ dialog' = "answered"
    /\ UNCHANGED <<kernelVars, pipe, view, tasks, mirror, store, session, grant,
                   overlap, wiped>>

\* The skill_create tool runs in the batch and uses the grant up.
CreateSkill ==
    /\ phase = "dispatching" /\ grant # 0
    /\ grant' = 0
    /\ UNCHANGED <<kernelVars, pipe, view, tasks, mirror, store, session,
                   dialog, overlap, wiped>>

-----------------------------------------------------------------------------
\* A turn without tool calls is the last of its query.
FinalTurn(e) == e.kind = "turn" /\ e.msg.uses = {}

\* apply_stream_event and settle_idle: the query is over.  The calls of a batch
\* complete before the next turn arrives, so no tool card is running still.
UnlocksInput(e) == FinalTurn(e) \/ e.kind \in {"error", "interrupted"}

\* Mutant: only a final turn revokes the grant.
RevokedByFinalTurn(e) == FinalTurn(e)

\* The events on which the pump revokes the grant of /skill-create.
RevokesGrant(e) == FinalTurn(e) \/ e.kind \in {"error", "interrupted"}

\* Mutant: a query that ended in an error leaves the flag of a late Stop.
EndedByFinalTurn(e) == FinalTurn(e)

\* The query has ended without consuming the flag of a Stop.
EndedUnstopped(e) == FinalTurn(e) \/ e.kind = "error"

\* The stream pump takes one event: mirror, view, grant, and the flag that a
\* Stop has left behind when the query ended by itself.
PumpTake ==
    LET e == Head(pipe)
        seen == IF e.kind = "turn" THEN OnTurnComplete(mirror, e.msg)
                ELSE IF e.kind = "tool" THEN OnToolCompleted(mirror, e.id)
                ELSE mirror
        persist == \/ e.kind = "turn"
                   \/ e.kind = "tool" /\ mirror.open # {} /\ seen.open = {}
    IN
    /\ pump.pc = "ready" /\ pipe # <<>>
    /\ pipe' = Tail(pipe)
    /\ mirror' = seen
    /\ busy' = (busy /\ ~UnlocksInput(e))
    /\ stopping' = (stopping /\ ~UnlocksInput(e))
    /\ grant' = IF RevokesGrant(e) THEN 0 ELSE grant
    /\ interrupt' = (interrupt /\ ~(stopping /\ EndedUnstopped(e)))
    /\ pump' = IF persist THEN [pc |-> "save", epoch |-> epoch, snap |-> <<>>]
               ELSE PumpReady
    /\ UNCHANGED <<phase, inner, conv, events, emitted, query, host,
                   tasks, saved, gate, session, dialog, overlap, wiped>>

\* Mutant: the snapshot is saved without the gate.
PumpLockNoGate ==
    /\ pump.pc = "save"
    /\ pump' = IF pump.epoch = epoch
               THEN [pump EXCEPT !.pc = "write", !.snap = mirror.msgs]
               ELSE PumpReady
    /\ UNCHANGED <<kernelVars, pipe, view, tasks, mirror, saved, gate, session, asks,
                   overlap, wiped>>

\* The pump gets the gate; a clear that was there first has moved the epoch.
PumpLock ==
    /\ pump.pc = "save" /\ gate = "free"
    /\ IF pump.epoch = epoch
       THEN gate' = "pump" /\ pump' = [pump EXCEPT !.pc = "write",
                                                   !.snap = mirror.msgs]
       ELSE gate' = gate /\ pump' = PumpReady
    /\ UNCHANGED <<kernelVars, pipe, view, tasks, mirror, saved, session, asks,
                   overlap, wiped>>

\* SessionStore::save sanitizes what it writes; a failed save is only logged.
PumpSaved ==
    /\ pump.pc = "write"
    /\ saved' \in {saved, Sanitize(pump.snap)}
    /\ gate' = "free" /\ pump' = PumpReady
    /\ UNCHANGED <<kernelVars, pipe, view, tasks, mirror, session, asks,
                   overlap, wiped>>

-----------------------------------------------------------------------------
\* on_clear_conversation, once there is a session to clear.
OnClear ==
    /\ InputEnabled /\ epoch < MaxClears
    /\ saved # <<>> \/ epoch > 0
    /\ clearing' = "waiting"
    /\ UNCHANGED <<kernelVars, pipe, view, tasks, mirror, store, epoch, base,
                   asks, overlap, wiped>>

ClearLock ==
    /\ clearing = "waiting" /\ gate = "free"
    /\ gate' = "clear" /\ clearing' = "locked"
    /\ UNCHANGED <<kernelVars, pipe, view, tasks, mirror, pump, saved, epoch,
                   base, asks, overlap, wiped>>

\* Clearing the durable memory or the snapshot fails: nothing has changed.
ClearFails ==
    /\ clearing = "locked"
    /\ gate' = "free" /\ clearing' = "no"
    /\ UNCHANGED <<kernelVars, pipe, view, tasks, mirror, pump, saved, epoch,
                   base, asks, overlap, wiped>>

ClearDelete ==
    /\ clearing = "locked"
    /\ saved' = <<>> /\ clearing' = "deleted"
    /\ UNCHANGED <<kernelVars, pipe, view, tasks, mirror, pump, gate, epoch,
                   base, asks, overlap, wiped>>

\* A new epoch, ClearConversation for the kernel, an empty mirror and view.
ClearCommit ==
    /\ clearing = "deleted"
    /\ epoch' = epoch + 1
    /\ events' = Append(events, [kind |-> "clear", n |-> sent])
    /\ mirror' = NoMirror
    /\ busy' = FALSE /\ stopping' = FALSE
    /\ gate' = "free" /\ clearing' = "no"
    /\ base' = sent
    /\ UNCHANGED <<phase, inner, conv, interrupt, emitted, query, host,
                   pipe, tasks, pump, saved, asks, overlap, wiped>>

-----------------------------------------------------------------------------
\* A step of the kernel; what it emits is in the pipe.
Kernel ==
    /\ KernelRuns \/ ModelSpeaks
    /\ pipe' = pipe \o emitted'
    /\ wiped' = (wiped \/ (event.kind = "clear" /\ interrupt /\ ~interrupt'))
    /\ UNCHANGED chatPage

\* A batch with an open dialog is not done.
KernelBatchDone ==
    /\ dialog \in {"none", "answered"}
    /\ BatchDone
    /\ pipe' = pipe \o emitted'
    /\ dialog' = "none"
    /\ UNCHANGED <<view, tasks, mirror, store, session, grant, overlap,
                   wiped>>

User == OnSend(TRUE) \/ OnSend(FALSE) \/ OnSkill \/ OnInterrupt
        \/ AnswerDialog \/ OnClear

PageTasks == SendTask \/ SkillLoaded \/ SkillDropped \/ DialogPump
             \/ PumpTake \/ PumpLock \/ PumpSaved
             \/ ClearLock \/ ClearFails \/ ClearDelete \/ ClearCommit

ChatNext == Kernel \/ KernelBatchDone \/ AskUser \/ CreateSkill
            \/ User \/ PageTasks

\* Spawned tasks run, storage answers, tools end unless a dialog holds them up,
\* and the kernel goes on; the user and the model stream owe nothing.
Fairness ==
    /\ WF_phase(Transient /\ Leaves)
    /\ WF_chatVars(KernelBatchDone)
    /\ WF_chatVars(StreamInterrupted /\ pipe' = pipe \o emitted'
                   /\ UNCHANGED <<chatPage, wiped>>)
    /\ WF_chatVars(SendTask) /\ WF_chatVars(DialogPump)
    /\ WF_chatVars(PumpTake) /\ WF_chatVars(PumpLock)
    /\ WF_pump(pump.pc = "write" /\ pump' = PumpReady)
    /\ WF_chatVars(ClearLock) /\ WF_chatVars(ClearDelete)
    /\ WF_chatVars(ClearCommit)

ChatSpec == ChatInit /\ [][ChatNext]_chatVars /\ Fairness

-----------------------------------------------------------------------------
ChatTypeOK ==
    /\ KernelTypeOK
    /\ {busy, stopping, overlap, wiped} \subseteq BOOLEAN
    /\ outbox \in Seq(1..MaxSent) /\ loading \subseteq 0..MaxClears
    /\ pipe \in Seq(StreamEvent)
    /\ pump \in [pc : {"ready", "save", "write"}, epoch : Nat,
                 snap : Seq(Message)]
    /\ mirror \in [msgs : Seq(Message), open : SUBSET ToolIds,
                   done : SUBSET ToolIds]
    /\ saved \in Seq(Message)
    /\ gate \in {"free", "pump", "clear"}
    /\ clearing \in {"no", "waiting", "locked", "deleted"}
    /\ (gate = "clear") = (clearing \in {"locked", "deleted"})
    /\ (gate = "pump") = (pump.pc = "write")
    /\ dialog \in {"none", "queued", "shown", "answered"}
    /\ dialog # "none" => phase = "dispatching"
    /\ epoch \in 0..MaxClears /\ {base, grant} \subseteq 0..MaxSent

\* While Stop is unconfirmed the composer is locked; it does not stay locked,
\* whatever dialog is open, however silent the model is, and whether or not the
\* query ended by itself before the kernel saw the flag.  (Unless a clear that
\* was still queued drops the flag; see PresetStopKept.)
InputUnlocks == stopping ~> (~stopping \/ wiped)

\* Nothing is going on in the kernel or in the page.
Quiet == /\ phase = "idle" /\ events = <<>> /\ pipe = <<>> /\ outbox = <<>>
         /\ pump.pc = "ready" /\ clearing = "no"

\* When everything has come to rest, the mirror that the page saves and the
\* conversation that the kernel sends are the same history, interrupted tool
\* rounds included, and the composer is open.  (A skill prompt that was queued
\* behind another query breaks the order; see ClearWaitsForKernel.)
MirrorAgrees ==
    (Quiet /\ ~overlap) =>
        /\ ~busy /\ ~stopping
        /\ Sanitize(FlushPending(mirror).msgs) = Sanitize(conv)

UserTexts(c) == Cardinality({i \in 1..Len(c) : c[i].role = "user" /\ c[i].text})

\* What was cleared stays cleared: neither a save that was under way nor the
\* kernel's own context brings back a message from before the clear, be it of
\* this run or of the restored session.
ClearedForGood ==
    (~overlap /\ epoch > 0) =>
        /\ UserTexts(saved) <= sent - base
        /\ phase \in {"opening", "streaming"} => UserTexts(conv) <= query - base

\* The grant of /skill-create is used in the turn of that command or not at all.
GrantStaysInItsTurn == [][(CreateSkill /\ ~overlap) => query = grant]_chatVars

\* The kernel by itself keeps some stale flags (StopHitsItsQuery); the page
\* drops them in time, so that a query is aborted only by a Stop pressed for it.
StopHitsShownQuery == ~overlap => StopHitsItsQuery

\* "it will not interleave with a model or tool turn in progress": when
\* ClearConversation is sent the kernel is not in a query.
ClearWaitsForKernel ==
    [][epoch' # epoch => phase \notin Querying \cup Executing]_chatVars
=============================================================================
