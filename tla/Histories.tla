----------------------------- MODULE Histories -----------------------------
(***************************************************************************)
(* Every history a session can be restored with or be interrupted in, made *)
(* message by message, and what the functions of Transcript must do to it. *)
(***************************************************************************)
EXTENDS Transcript

CONSTANTS
    LoneId,     \* an id that stands for the first to occur alone
    MaxLength   \* bound of the model: the longest history

ASSUME HistoryAssumption == MaxLength \in Nat

VARIABLE history

IdsOf(m) == m.uses \cup m.results

\* Ids are alike: LoneId is the one that occurs alone first.
HistoryInit == history = <<>>
HistoryNext ==
    /\ Len(history) < MaxLength
    /\ \E m \in Written :
          /\ (Cardinality(IdsOf(m)) = 1 /\ IdsOf(m) # {LoneId})
                => \E i \in 1..Len(history) : IdsOf(history[i]) = {LoneId}
          /\ history' = Append(history, m)

HistorySpec == HistoryInit /\ [][HistoryNext]_history

-----------------------------------------------------------------------------
(* What the doc comment of sanitize_conversation_messages asks for, said   *)
(* all at once and of places in the history, up to the n-th message.       *)

\* Empty assistant messages count for nothing.
Counts(c, i) == c[i].role = "user" \/ ~IsEffectivelyEmpty(c[i])

\* The next message that counts answers all the calls of the i-th.
Answers(c, i, j) ==
    /\ i < j /\ Counts(c, i) /\ Counts(c, j)
    /\ \A k \in i + 1 .. j - 1 : ~Counts(c, k)
    /\ c[i].uses # {} /\ c[j].role = "user" /\ c[i].uses \subseteq c[j].results

AnswersCalls(c, j) == \E i \in 1..j - 1 : Answers(c, i, j)

\* Calls stay where they are answered, results where they answer, texts always.
Stay(c, n) ==
    {i \in 1..n :
        /\ Counts(c, i)
        /\ IF c[i].role = "assistant" THEN c[i].uses = {} \/ \E j \in i + 1 .. n : Answers(c, i, j)
           ELSE c[i].text \/ c[i].results = {} \/ AnswersCalls(c, i)}

Repaired(c, i) ==
    IF c[i].results = {} \/ AnswersCalls(c, i) THEN c[i] ELSE [c[i] EXCEPT !.results = {}]

\* s has the messages at the places P, repaired and in their order.
Selects(s, c, P) ==
    /\ Len(s) = Cardinality(P)
    /\ \A i \in P : s[Cardinality({j \in P : j <= i})] = Repaired(c, i)

TextsTo(c, n) == Cardinality({i \in 1..n : c[i].role = "user" /\ c[i].text})

\* Whatever history was restored or interrupted, its sanitized form has every
\* call answered by the next message and results only after calls, no message
\* of the user is lost, and sanitizing again (submit, save and load all do)
\* changes nothing.  The single scan, which takes back what it kept, returns
\* what the rules of its doc comment say all at once.
SanitizeRepairs ==
    LET s == Sanitize(history)
    IN  /\ Selects(s, history, Stay(history, Len(history)))
        /\ Covered(s)
        /\ TextsTo(s, Len(s)) = TextsTo(history, Len(history))
        /\ Sanitize(s) = s

\* On a sanitized history every level of auto_compact_if_needed, wherever the
\* cut falls, leaves calls and results paired, and so do the request for the
\* summary and its head truncation for a retry.
CompactionKeepsPairs ==
    LET s == Sanitize(history)
    IN  \A keep \in 1..MaxLength :
            /\ Covered(ContextCollapse(s, keep))
            /\ Covered(Condense(s, keep))
            /\ Covered(Split(s, keep).older)
            /\ Covered(TruncateHead(Split(s, keep).older))

\* Both, for every history: repaired, and kept so by compaction (messages.rs,
\* compact.rs).
TranscriptHolds == SanitizeRepairs /\ CompactionKeepsPairs

=============================================================================
