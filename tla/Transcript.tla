----------------------------- MODULE Transcript -----------------------------
(***************************************************************************)
(* Conversations of the agent and the pure functions on them               *)
(* (crates/rust-agent/src/kernel/messages.rs and context/compact.rs).      *)
(*                                                                         *)
(* A message keeps what the pairing rules look at: its role, whether it    *)
(* has text (or an image), the ids of its tool_use blocks and the ids its  *)
(* tool_result blocks answer.  What the blocks say is left out.            *)
(***************************************************************************)
EXTENDS Integers, Sequences, FiniteSetsExt, SequencesExt

CONSTANT ToolIds    \* ids a model may give to a tool_use block

Message == [role : {"user", "assistant"}, text : BOOLEAN,
            uses : SUBSET ToolIds, results : SUBSET ToolIds]

UserText == [role |-> "user", text |-> TRUE, uses |-> {}, results |-> {}]
ToolResults(ids) ==
    [role |-> "user", text |-> FALSE, uses |-> {}, results |-> ids]
Answer(text, ids) ==
    [role |-> "assistant", text |-> text, uses |-> ids, results |-> {}]

IsEffectivelyEmpty(m) == ~m.text /\ m.uses = {} /\ m.results = {}

-----------------------------------------------------------------------------
\* Mutant: one result is enough to cover several calls.
SanitizeStepPartial(acc, m) ==
    IF m.role = "assistant" /\ IsEffectivelyEmpty(m) THEN acc
    ELSE LET covers == acc.pending \cap m.results # {}
             out == IF acc.pending # {} /\ ~covers
                    THEN RemoveAt(acc.out, acc.at) ELSE acc.out
             orphaned == m.role = "user" /\ m.results # {} /\ ~covers
             kept == IF orphaned THEN [m EXCEPT !.results = {}] ELSE m
         IN  IF orphaned /\ IsEffectivelyEmpty(kept)
             THEN [out |-> out, pending |-> {}, at |-> 0]
             ELSE [out |-> Append(out, kept),
                   pending |-> IF m.role = "assistant" THEN m.uses ELSE {},
                   at |-> Len(out) + 1]

\* One iteration of sanitize_conversation_messages.  acc.out is what was kept,
\* acc.pending the tool_use ids still waiting for their results and acc.at the
\* place of the message that holds them.
SanitizeStep(acc, m) ==
    IF m.role = "assistant" /\ IsEffectivelyEmpty(m) THEN acc
    ELSE LET covers == /\ acc.pending # {}
                       /\ m.role = "user"
                       /\ acc.pending \subseteq m.results
             out == IF acc.pending # {} /\ ~covers
                    THEN RemoveAt(acc.out, acc.at) ELSE acc.out
             orphaned == m.role = "user" /\ m.results # {} /\ ~covers
             kept == IF orphaned THEN [m EXCEPT !.results = {}] ELSE m
         IN  IF orphaned /\ IsEffectivelyEmpty(kept)
             THEN [out |-> out, pending |-> {}, at |-> 0]
             ELSE [out |-> Append(out, kept),
                   pending |-> IF m.role = "assistant" THEN m.uses ELSE {},
                   at |-> Len(out) + 1]

Sanitize(conv) ==
    LET end == FoldLeft(SanitizeStep,
                        [out |-> <<>>, pending |-> {}, at |-> 0], conv)
    IN  IF end.pending # {} THEN RemoveAt(end.out, end.at) ELSE end.out

\* The last message answers tool calls and the last assistant message before it
\* made some: the conversation waits for the model to go on.
HasPendingContinuation(conv) ==
    /\ conv # <<>>
    /\ Last(conv).role = "user" /\ Last(conv).results # {}
    /\ \E i \in 1..Len(conv) - 1 :
          /\ conv[i].role = "assistant" /\ conv[i].uses # {}
          /\ \A j \in i + 1..Len(conv) - 1 : conv[j].role # "assistant"

-----------------------------------------------------------------------------
\* A cut between prev and cur would separate a call from its result.
BoundaryCrossesToolPair(prev, cur) ==
    /\ prev.role = "assistant" /\ cur.role = "user"
    /\ prev.uses \cap cur.results # {}

\* split_preserving_tool_pairs: cut before the last keep messages, or as little
\* earlier as it takes not to separate a pair; the newer part is sanitized.
Split(conv, keep) ==
    LET cut == IF Len(conv) <= keep THEN 0
               ELSE Max({s \in 0..Len(conv) - keep :
                            s = 0 \/ ~BoundaryCrossesToolPair(conv[s],
                                                              conv[s + 1])})
    IN  [older |-> SubSeq(conv, 1, cut),
         newer |-> Sanitize(SubSeq(conv, cut + 1, Len(conv)))]

\* try_context_collapse: only the texts of the older part get shorter, so what
\* it may change here is the newer part, which Split has sanitized.
ContextCollapse(conv, keep) ==
    Split(conv, keep).older \o Split(conv, keep).newer
CanCollapse(conv, keep) == Len(conv) > keep + 2

\* try_session_memory_compaction and the last lines of compact_conversation:
\* the older part becomes one user message.
Condense(conv, keep) == Sanitize(<<UserText>> \o Split(conv, keep).newer)
CanCondense(conv, keep) ==
    Len(conv) > keep + 4 /\ Split(conv, keep).older # <<>>

-----------------------------------------------------------------------------
\* Places where a prompt round starts (group_by_prompt_round).
RoundStarts(conv) ==
    {i \in 1..Len(conv) :
        \/ i = 1
        \/ conv[i].role = "user" /\ conv[i].results = {} /\ conv[i].text}

\* truncate_head_for_ptl_retry drops the oldest fifth of the rounds, at least
\* one; a marker goes in front of an assistant message.  The empty sequence
\* stands for None.
TruncateHead(conv) ==
    LET n == Cardinality(RoundStarts(conv))
        drop == Min({Max({n \div 5, 1}), n - 1})
        first == CHOOSE i \in RoundStarts(conv) :
                    Cardinality({j \in RoundStarts(conv) : j < i}) = drop
        rest == SubSeq(conv, first, Len(conv))
    IN  IF n < 2 THEN <<>>
        ELSE IF rest[1].role = "assistant" THEN <<UserText>> \o rest ELSE rest

-----------------------------------------------------------------------------
\* What the kernel writes into a history: calls stand in its answers, results
\* in messages of the user.
Written == {m \in Message : IF m.role = "assistant" THEN m.results = {}
                            ELSE m.uses = {}}

\* No answer is empty, and a message right after calls answers no others.
Tidy(conv) ==
    \A i \in 1..Len(conv) :
        /\ conv[i].role = "assistant" => ~IsEffectivelyEmpty(conv[i])
        /\ (i > 1 /\ conv[i - 1].uses # {}) => conv[i].results \subseteq conv[i - 1].uses

\* Every tool call is answered, in full, by the very next message, and tool
\* results appear nowhere else: what the model APIs demand of a request.
Covered(conv) ==
    \A i \in 1..Len(conv) :
        /\ conv[i].uses # {} =>
              /\ i < Len(conv) /\ conv[i + 1].role = "user"
              /\ conv[i].uses \subseteq conv[i + 1].results
        /\ conv[i].results # {} => i > 1 /\ conv[i - 1].uses # {}

\* And no result answers a call that was not made.
WellPaired(conv) ==
    /\ Covered(conv)
    /\ \A i \in 2..Len(conv) : conv[i].results \subseteq conv[i - 1].uses
=============================================================================
