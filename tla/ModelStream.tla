----------------------------- MODULE ModelStream ----------------------------
(***************************************************************************)
(* The model client of the agent (crates/rust-agent/src/model_service.rs): *)
(* stream_response, which asks the gateway for a streamed response, asks   *)
(* again when the stream breaks and then shows only what it has not shown  *)
(* before, and ToolTagFilter, which keeps tool calls out of what is shown  *)
(* although their tags may be cut anywhere.                                *)
(*                                                                         *)
(* A text is a sequence of symbols; the two tags are shorter than in the   *)
(* code and share, as there, their first symbol and nothing else that      *)
(* overlaps.                                                               *)
(***************************************************************************)
EXTENDS Integers, Sequences, FiniteSets, SequencesExt, FiniteSetsExt

CONSTANTS
    Responses,          \* the texts the provider may give
    ModelRetries,       \* MAX_RETRIES
    MaxDelta            \* bound of the model: symbols of one delta

OpenTag == <<"<", "t">>             \* TOOL_USE_OPEN, "<tool_use"
CloseTag == <<"<", "/", "t">>       \* TOOL_USE_CLOSE, "</tool_use>"
TagEnds == {">"}                    \* what follows a real opening tag

ASSUME ModelStreamAssumption == ModelRetries \in Nat /\ MaxDelta \in Nat \ {0}

VARIABLES
    streamAt,       \* "opening", "reading", "complete" or "failed"
    tries,          \* attempt
    text,           \* what the provider answers to this attempt
    rawSeen,        \* raw_seen, the symbols of this attempt received
    rawEmitted,     \* emitted_raw_chars, the symbols ever given to the gate
    gate,           \* the ToolTagFilter
    shown,          \* all TextDelta events, joined
    changed         \* an attempt was answered with another text

streamVars == <<streamAt, tries, text, rawSeen, rawEmitted, gate, shown, changed>>

-----------------------------------------------------------------------------
(* ToolTagFilter.                                                          *)

From(s, i) == SubSeq(s, i, Len(s))
Upto(s, i) == SubSeq(s, 1, i)

Occurrences(s, tag) ==
    {i \in 1 .. Len(s) - Len(tag) + 1 : SubSeq(s, i, i + Len(tag) - 1) = tag}

(* The longest end of s that may be the beginning of the tag.              *)
TrailingPrefix(s, tag) ==
    LET lens == {n \in 0 .. Min({Len(s), Len(tag) - 1}) : From(s, Len(s) - n + 1) = Upto(tag, n)}
    IN  From(s, Len(s) - Max(lens) + 1)

NewGate == [carry |-> <<>>, inTag |-> FALSE]

Held(carry, inTag, visible) == [gate |-> [carry |-> carry, inTag |-> inTag], visible |-> visible]

RECURSIVE Filter(_, _, _)

(* Inside a call everything is dropped up to its closing tag.              *)
FilterInside(input, visible) ==
    LET closes == Occurrences(input, CloseTag)
    IN  IF closes = {}
        THEN Held(TrailingPrefix(input, CloseTag), TRUE, visible)
        ELSE Filter(From(input, Min(closes) + Len(CloseTag)), FALSE, visible)

(* Outside, an opening tag counts once the symbol after it is known.       *)
FilterOutside(input, visible) ==
    LET opens == Occurrences(input, OpenTag)
        at == Min(opens)
        after == at + Len(OpenTag)
        held == TrailingPrefix(input, OpenTag)
    IN  IF opens = {}
        THEN Held(held, FALSE, visible \o Upto(input, Len(input) - Len(held)))
        ELSE CASE after > Len(input) -> Held(From(input, at), FALSE, visible \o Upto(input, at - 1))
               [] after <= Len(input) /\ input[after] \in TagEnds ->
                    Filter(From(input, after), TRUE, visible \o Upto(input, at - 1))
               [] OTHER -> Filter(From(input, after), FALSE, visible \o Upto(input, after - 1))

Filter(input, inTag, visible) ==
    IF inTag THEN FilterInside(input, visible) ELSE FilterOutside(input, visible)

Push(g, delta) == Filter(g.carry \o delta, g.inTag, <<>>)

Flush(g) == IF g.inTag THEN <<>> ELSE g.carry

-----------------------------------------------------------------------------

StreamInit ==
    /\ streamAt = "opening" /\ tries = 0
    /\ text \in Responses
    /\ rawSeen = 0 /\ rawEmitted = 0
    /\ gate = NewGate /\ shown = <<>> /\ changed = FALSE

(* Mutant: every attempt has a filter of its own.                          *)
RetryAfresh(retryable) ==
    IF retryable /\ tries < ModelRetries
    THEN /\ streamAt' = "opening" /\ tries' = tries + 1 /\ gate' = NewGate
         /\ UNCHANGED <<text, rawSeen, rawEmitted, shown, changed>>
    ELSE streamAt' = "failed" /\ UNCHANGED <<tries, text, rawSeen, rawEmitted, gate, shown, changed>>

(* The next attempt keeps the gate and the count; the provider may answer  *)
(* it with another text.  After the last one, or for an error that would   *)
(* only repeat, the stream ends without Complete.                          *)
RetryOrFail(retryable) ==
    IF retryable /\ tries < ModelRetries
    THEN /\ streamAt' = "opening" /\ tries' = tries + 1
         /\ \E other \in {text, <<"x">>} :
                /\ text' = other
                /\ changed' = (changed \/ other # text)
         /\ UNCHANGED <<rawSeen, rawEmitted, gate, shown>>
    ELSE streamAt' = "failed" /\ UNCHANGED <<tries, text, rawSeen, rawEmitted, gate, shown, changed>>

(* client.response_stream answers; a failure may be one worth repeating.   *)
StreamOpens ==
    /\ streamAt = "opening"
    /\ streamAt' = "reading" /\ rawSeen' = 0
    /\ UNCHANGED <<tries, text, rawEmitted, gate, shown, changed>>

OpeningFails ==
    /\ streamAt = "opening"
    /\ \E retryable \in BOOLEAN : RetryOrFail(retryable)

(* A delta of n symbols: those an earlier attempt delivered are skipped.   *)
TextDelta(n) ==
    LET start == IF rawEmitted > rawSeen THEN rawEmitted - rawSeen ELSE 0
        pushed == Push(gate, SubSeq(text, rawSeen + start + 1, rawSeen + n))
    IN  /\ streamAt = "reading" /\ rawSeen + n <= Len(text)
        /\ rawSeen' = rawSeen + n
        /\ IF start < n
           THEN /\ rawEmitted' = Max({rawEmitted, rawSeen + n})
                /\ gate' = pushed.gate /\ shown' = shown \o pushed.visible
           ELSE UNCHANGED <<rawEmitted, gate, shown>>
        /\ UNCHANGED <<streamAt, tries, text, changed>>

(* Completed after the whole text, Incomplete after part of it: what is    *)
(* held back is shown, then Complete follows.                              *)
StreamCompletes ==
    /\ streamAt = "reading"
    /\ streamAt' = "complete"
    /\ shown' = shown \o Flush(gate)
    /\ gate' = [gate EXCEPT !.carry = <<>>]
    /\ UNCHANGED <<tries, text, rawSeen, rawEmitted, changed>>

(* Failed, an error event, a broken connection, an end without a terminal  *)
(* event.                                                                  *)
StreamBreaks ==
    /\ streamAt = "reading"
    /\ \E retryable \in BOOLEAN : RetryOrFail(retryable)

ModelStreamNext ==
    \/ StreamOpens \/ OpeningFails
    \/ \E n \in 1 .. MaxDelta : TextDelta(n)
    \/ StreamCompletes \/ StreamBreaks

-----------------------------------------------------------------------------

(* What of a whole text is to be seen: everything but its calls, from a    *)
(* real opening tag to the next closing one or to the end.                 *)
RECURSIVE VisiblePart(_)
VisiblePart(t) ==
    LET calls == {i \in Occurrences(t, OpenTag) :
                    i + Len(OpenTag) <= Len(t) /\ t[i + Len(OpenTag)] \in TagEnds}
        body == From(t, Min(calls) + Len(OpenTag))
        closes == Occurrences(body, CloseTag)
    IN  CASE calls = {} -> t
          [] calls # {} /\ closes = {} -> Upto(t, Min(calls) - 1)
          [] OTHER -> Upto(t, Min(calls) - 1) \o VisiblePart(From(body, Min(closes) + Len(CloseTag)))

(* However a text is cut into deltas and however often the stream breaks   *)
(* and is asked for again, what is shown is the visible part of the text:  *)
(* no symbol twice, none left out, nothing of a call, no false opening tag *)
(* swallowed (stream_response keeps gate and emitted_raw_chars across its  *)
(* attempts).  It is said of a provider that repeats its answer; one that  *)
(* gives another text is shown a mixture until Complete.                   *)
ShownIsVisiblePart ==
    ~changed =>
        /\ streamAt # "complete" => IsPrefix(shown, VisiblePart(text))
        /\ streamAt = "complete" => shown = VisiblePart(Upto(text, rawEmitted))

=============================================================================
