--------------------------- MODULE MCAgentKernel ---------------------------
(* Small instances of AgentKernel for TLC. *)
EXTENDS AgentKernel, TLC

CONSTANTS a, b

\* A new session.
FreshOnly == {<<>>}

\* Snapshots of a session: none, one that ends in an answer, one cut off before
\* and one right after the results of a tool call.
Snapshots ==
    {<<>>,
     <<UserText, Answer(TRUE, {})>>,
     <<UserText, Answer(TRUE, {a})>>,
     <<UserText, Answer(FALSE, {a}), ToolResults({a})>>}
=============================================================================
