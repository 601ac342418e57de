---------------------------- MODULE MCAgentHost ----------------------------
(***************************************************************************)
(* The agent kernel and what surrounds it, for TLC: the model client and   *)
(* the decoder of events below it, the background tasks and the tool       *)
(* switches.  They share no variable, so each initial state sets one of    *)
(* them in motion and leaves the others at rest.                           *)
(***************************************************************************)
EXTENDS MCAgentKernel, BackgroundTasks, ToolStates, SseDecoder, ModelStream

VARIABLE part   \* what is in motion

wireVars == <<sseVars, streamVars>>
vars == <<part, kernelVars, taskVars, toolStateVars, wireVars>>

FirstAccount == CHOOSE acc \in Accounts : TRUE

\* Whole tags, pieces of them and what stands between, in every order.
MCPieces == {OpenTag, CloseTag, <<"<">>, <<">">>}
MCResponses == {FlattenSeq(p) : p \in UNION {[1 .. n -> MCPieces] : n \in 0 .. 4}}

Init ==
    /\ part \in {"kernel", "waiting", "output", "switches", "decoder", "model"}
    /\ KernelInit /\ TaskInit /\ ToolStatesInit /\ SseInit /\ StreamInit
    /\ part # "kernel" => conv = <<>>
    /\ part # "model" => text = <<>>
    /\ account = FirstAccount   \* accounts are alike

\* Two callers wait where nothing is written; one does where output is.
\* Spawners are alike, and so are callers: they begin in a fixed order.
Callers == IF part = "output" THEN {"a"} ELSE TaskCallers

TaskPart ==
    /\ \/ \E s \in Spawners : SpawnStep(s)
       \/ \E id \in TaskIds : TaskEnds(id) \/ (part = "output" /\ OutputStep(id))
       \/ \E c \in Callers : CallerStep(c)
    /\ spawner'["s2"].at # "called" => spawner'["s1"].at # "called"
    /\ taskCall'["b"].at # "idle" => taskCall'["a"].at # "idle"

\* One change of account.
SwitchPart == ToolStatesNext /\ account' \in {account} \cup (Accounts \ {FirstAccount})

Next ==
    /\ UNCHANGED part
    /\ \/ part = "kernel" /\ KernelNext /\ UNCHANGED <<taskVars, toolStateVars, wireVars>>
       \/ /\ part \in {"waiting", "output"} /\ TaskPart
          /\ UNCHANGED <<kernelVars, toolStateVars, wireVars>>
       \/ part = "switches" /\ SwitchPart /\ UNCHANGED <<kernelVars, taskVars, wireVars>>
       \/ /\ part = "decoder" /\ SseNext
          /\ UNCHANGED <<kernelVars, taskVars, toolStateVars, streamVars>>
       \/ /\ part = "model" /\ ModelStreamNext
          /\ UNCHANGED <<kernelVars, taskVars, toolStateVars, sseVars>>

\* The kernel is fair where it is in motion; what the other fairness is about
\* is at rest elsewhere.
Fairness ==
    /\ WF_phase(part = "kernel" /\ Transient /\ Leaves)
    /\ WF_phase(part = "kernel" /\ phase = "dispatching" /\ Leaves)
    /\ WF_kernelVars(part = "kernel" /\ StreamInterrupted)
    /\ TaskFairness /\ ToolStatesFairness

Spec == Init /\ [][Next]_vars /\ Fairness

(* A response reaches the user unharmed: its events survive every way of   *)
(* cutting the bytes into chunks (sse_event_stream), and of the text they  *)
(* carry every visible symbol is shown once, though the stream breaks and  *)
(* is asked for again (stream_response).                                   *)
ResponseTextHolds == EventsSurviveChunking /\ ShownIsVisiblePart

=============================================================================
