---------------------------- MODULE ToolRuntime ----------------------------
(***************************************************************************)
(* One batch of tool calls in ToolRuntime::dispatch_many                   *)
(* (crates/rust-agent/src/tools/runtime.rs) and the decision of the        *)
(* permission engine (policy/permission_engine.rs).                        *)
(*                                                                         *)
(* The calls are futures of one task: a step is what a call does from one  *)
(* await to the next (a hook, the permission prompt, the tool itself).     *)
(* Meanwhile the user may press Stop, change the mode or switch a tool     *)
(* off.  A batch with two calls for one exclusive resource runs in order   *)
(* on the shared metadata; any other runs at once on snapshots of it, whose*)
(* changes are merged in the order of the calls.                           *)
(***************************************************************************)
EXTENDS Naturals, FiniteSets, Sequences, SequencesExt

CONSTANTS
    Batches,  \* sequences of [tool, kind, key, note]: what may be called; kind is
              \* "read", "write", "sensitive", "denied" or "exit_plan", key the
              \* exclusive resource or NoKey, note what the call adds to a list
    NoKey,
    Identity, \* tool -> the name its permission is judged and stored under
    ListCap,  \* TOOL_METADATA_LIST_CAP
    OldList   \* the metadata list when the batch begins

\* Calls are numbered as the model made them; a list is what push_capped_unique
\* makes of the empty one.
ASSUME RuntimeAssumption ==
    /\ \A b \in Batches : b \in Seq(ToSet(b))
    /\ ListCap \in Nat \ {0}
    /\ OldList \in Seq(ToSet(OldList)) /\ IsInjective(OldList) /\ Len(OldList) <= ListCap

VARIABLES
    calls,    \* the batch
    stopFlag, \* the query's cancel flag; the kernel clears it after the batch
    offTools, \* the shared disabled set
    permMode, \* PermissionEngine.mode
    allowed,  \* session_allowed
    meta,     \* the session's metadata: the list, and the document of each key
    local,    \* call -> its snapshot, in a batch that runs at once
    dcall,    \* call -> where its dispatch is
    batchAt,  \* "running", then "over"
    hist      \* history: what was started, executed, and allowed, after Stop

runtimeVars == <<calls, stopFlag, offTools, permMode, allowed, meta, local, dcall, batchAt, hist>>

CallIds == DOMAIN calls
DocKeys == {calls[i].key : i \in CallIds} \ {NoKey}
RunTools == {calls[i].tool : i \in CallIds}
CallOutcomes == {"interrupted", "refused", "executed"}

----------------------------------------------------------------------------
(* Metadata                                                                *)

\* push_capped_unique: a value moves to the end, the oldest go over the cap.
push_capped_unique(list, v) ==
    LET pushed == Append(RemoveFirst(list, v), v)
        over == IF Len(pushed) > ListCap THEN Len(pushed) - ListCap ELSE 0
    IN  SubSeq(pushed, over + 1, Len(pushed))

\* Does `now` occur in `start`, in this order, perhaps with others in between?
Subsequence(now, start) ==
    \E f \in [DOMAIN now -> DOMAIN start] :
        /\ \A i, j \in DOMAIN now : i < j => f[i] < f[j]
        /\ \A i \in DOMAIN now : now[i] = start[f[i]]

\* replay_list_delta: the longest prefix of `now` that is a subsequence of
\* the start is what was there already; the rest is recorded again.
replay_list_delta(start, now, target) ==
    LET common == {n \in 0..Len(now) : Subsequence(SubSeq(now, 1, n), start)}
        kept == CHOOSE n \in common : \A m \in common : m <= n
    IN  FoldLeft(push_capped_unique, target, SubSeq(now, kept + 1, Len(now)))

\* merge_metadata_delta: lists are replayed, a changed document replaces.
merge_metadata_delta(start, now, target) ==
    [list |-> replay_list_delta(start.list, now.list, target.list),
     doc |-> [k \in DocKeys |-> IF now.doc[k] # start.doc[k] THEN now.doc[k] ELSE target.doc[k]]]

\* A tool that read-modify-writes the document of its key, and records a note.
Executed(i, m) ==
    [list |-> push_capped_unique(m.list, calls[i].note),
     doc |-> [k \in DocKeys |-> IF k = calls[i].key THEN m.doc[k] \cup {i} ELSE m.doc[k]]]

----------------------------------------------------------------------------
(* PermissionEngine::evaluate, after the path and tool rules of the kind   *)

\* A sensitive operation is asked for wherever another would be allowed.
evaluate(i) ==
    LET kind == calls[i].kind
        sessionOk == permMode # "plan" /\ Identity[calls[i].tool] \in allowed
        passes == sessionOk \/ permMode = "full_auto" \/ kind = "read"
    IN  IF kind = "denied" THEN "deny"
        ELSE IF passes /\ kind # "sensitive" THEN "allow"
        ELSE IF permMode = "plan" /\ kind # "exit_plan" THEN "deny"
        ELSE "ask"

----------------------------------------------------------------------------
(* dispatch                                                                *)

\* Mutation: two calls for one resource run at once.
NeverConflict == FALSE

\* dispatch_many: some two calls have the same exclusive key.
HasConflict == \E i, j \in CallIds : i # j /\ calls[i].key = calls[j].key /\ calls[i].key # NoKey

InOrder == Len(calls) = 1 \/ HasConflict

query_is_cancelled == stopFlag

At(i, at) == dcall' = [dcall EXCEPT ![i] = at]

\* The first poll: a stopped query and a tool that is off go no further.
\* In order, a call begins when the one before is over.
Enter(i) ==
    /\ dcall[i] = "waiting"
    /\ InOrder => \A j \in 1..(i - 1) : dcall[j] \in CallOutcomes
    /\ At(i, IF query_is_cancelled THEN "interrupted"
             ELSE IF calls[i].tool \in offTools THEN "refused" ELSE "pre_hook")
    /\ hist' = [hist EXCEPT !.late = @ \/ (dcall'[i] = "pre_hook" /\ stopFlag)]
    /\ UNCHANGED <<calls, stopFlag, offTools, permMode, allowed, meta, local, batchAt>>

\* The last check before Tool::execute.
Starts(i) ==
    /\ At(i, IF query_is_cancelled THEN "interrupted" ELSE "executing")
    /\ hist' = [hist EXCEPT !.late = @ \/ (dcall'[i] = "executing" /\ stopFlag)]

\* The hook returns.  It may block, the tool may be unknown or unavailable;
\* then the engine decides, and asks only where there is a prompt.
PreHookReturns(i) ==
    /\ dcall[i] = "pre_hook"
    /\ \/ At(i, "refused") /\ UNCHANGED hist
       \/ evaluate(i) = "deny" /\ At(i, "refused") /\ UNCHANGED hist
       \/ evaluate(i) = "ask" /\ At(i, "notify") /\ UNCHANGED hist
       \/ evaluate(i) = "allow" /\ Starts(i)
    /\ UNCHANGED <<calls, stopFlag, offTools, permMode, allowed, meta, local, batchAt>>

\* The notification hook is over and the prompt opens.
Prompts(i) ==
    /\ dcall[i] = "notify"
    /\ At(i, "prompt")
    /\ UNCHANGED <<calls, stopFlag, offTools, permMode, allowed, meta, local, batchAt, hist>>

\* Is the answer still good: Stop may have been pressed while it was awaited.
AnswerCounts(i) == ~query_is_cancelled

\* The prompt is answered, perhaps by a click queued before Stop.
Answered(i) ==
    /\ dcall[i] = "prompt"
    /\ \E reply \in {"allow", "always", "deny"} :
          \/ /\ reply = "deny" \/ ~AnswerCounts(i)
             /\ At(i, IF reply = "deny" THEN "refused" ELSE "interrupted")
             /\ UNCHANGED <<allowed, hist>>
          \/ /\ reply # "deny" /\ AnswerCounts(i)
             /\ allowed' = IF reply = "always"
                           THEN allowed \cup {Identity[calls[i].tool]} ELSE allowed
             /\ At(i, IF query_is_cancelled THEN "interrupted" ELSE "executing")
             /\ hist' = [hist EXCEPT !.late = @ \/ (stopFlag /\ (allowed' # allowed \/ dcall'[i] = "executing"))]
    /\ UNCHANGED <<calls, stopFlag, offTools, permMode, meta, local, batchAt>>

\* The tool returns: done, or an error that becomes an error result.
ToolReturns(i) ==
    /\ dcall[i] = "executing"
    /\ \/ /\ IF InOrder
             THEN meta' = Executed(i, meta) /\ UNCHANGED local
             ELSE local' = [local EXCEPT ![i] = Executed(i, @)] /\ UNCHANGED meta
          /\ hist' = [hist EXCEPT !.done = @ \cup {i}]
       \/ UNCHANGED <<meta, local, hist>>
    /\ At(i, "post_hook")
    /\ UNCHANGED <<calls, stopFlag, offTools, permMode, allowed, batchAt>>

PostHookReturns(i) ==
    /\ dcall[i] = "post_hook"
    /\ At(i, "executed")
    /\ UNCHANGED <<calls, stopFlag, offTools, permMode, allowed, meta, local, batchAt, hist>>

\* join_all is over: the snapshots are merged in the order of the calls, and
\* the kernel takes the flag back.
BatchEnds ==
    LET start == [list |-> OldList, doc |-> [k \in DocKeys |-> {}]]
    IN  /\ batchAt = "running" /\ \A i \in CallIds : dcall[i] \in CallOutcomes
        /\ batchAt' = "over"
        /\ meta' = IF InOrder THEN meta
                   ELSE FoldLeft(LAMBDA m, l : merge_metadata_delta(start, l, m), meta, local)
        /\ UNCHANGED <<calls, stopFlag, offTools, permMode, allowed, local, dcall, hist>>

----------------------------------------------------------------------------
(* The user, at any time                                                   *)

PressStop ==
    /\ batchAt = "running" /\ ~stopFlag
    /\ stopFlag' = TRUE
    /\ UNCHANGED <<calls, offTools, permMode, allowed, meta, local, dcall, batchAt, hist>>

\* set_tool_enabled
SwitchOff(t) ==
    /\ batchAt = "running" /\ t \notin offTools
    /\ offTools' = offTools \cup {t}
    /\ UNCHANGED <<calls, stopFlag, permMode, allowed, meta, local, dcall, batchAt, hist>>

\* set_mode, of the settings page or of a tool that ran
SetMode(m) ==
    /\ batchAt = "running" /\ m # permMode
    /\ permMode' = m
    /\ UNCHANGED <<calls, stopFlag, offTools, allowed, meta, local, dcall, batchAt, hist>>

----------------------------------------------------------------------------

RuntimeInit ==
    /\ calls \in Batches
    /\ stopFlag = FALSE /\ offTools = {} /\ permMode = "default" /\ allowed = {}
    /\ meta = [list |-> OldList, doc |-> [k \in DocKeys |-> {}]]
    /\ local = [i \in CallIds |-> meta]
    /\ dcall = [i \in CallIds |-> "waiting"]
    /\ batchAt = "running"
    /\ hist = [done |-> {}, late |-> FALSE]

DispatchStep(i) ==
    Enter(i) \/ PreHookReturns(i) \/ Prompts(i) \/ Answered(i) \/ ToolReturns(i) \/ PostHookReturns(i)

UserStep ==
    \/ PressStop
    \/ \E t \in RunTools : SwitchOff(t)
    \/ \E m \in {"default", "plan", "full_auto"} : SetMode(m)

RuntimeNext == (\E i \in CallIds : DispatchStep(i)) \/ BatchEnds \/ UserStep

RuntimeSpec == RuntimeInit /\ [][RuntimeNext]_runtimeVars

\* Once Stop is pressed no tool begins to run and nothing is allowed for the
\* session, whatever answer to a prompt was on its way: the answer is looked
\* at again before it is stored, and the flag once more before the tool runs.
StopIsFinal == ~hist.late

\* When the batch is over, every call that ran has left its change in the
\* document of its resource, and its note in the list: neither the snapshots
\* nor the merge lose the update of another call.  Only where the batch itself
\* has more notes than the list can hold does one of them go over the cap.
BatchLosesNothing ==
    batchAt = "over" =>
        \A i \in hist.done :
            /\ calls[i].key # NoKey => i \in meta.doc[calls[i].key]
            /\ Cardinality({calls[j].note : j \in hist.done}) <= ListCap
                  => calls[i].note \in ToSet(meta.list)

\* A batch under Stop, prompts and merging: nothing starts after Stop, and
\* nothing that ran is lost (dispatch, dispatch_many).
BatchHolds == StopIsFinal /\ BatchLosesNothing

=============================================================================
