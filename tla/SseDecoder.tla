----------------------------- MODULE SseDecoder -----------------------------
(***************************************************************************)
(* The decoder of server-sent events in the client library                 *)
(* (app/client-api/src/ai.rs): sse_event_stream, which appends the chunks  *)
(* of a response to a buffer and takes complete blocks from its front, and *)
(* take_next_sse_event, which remembers how far it has searched.           *)
(*                                                                         *)
(* A byte is a line terminator or stands for a whole field line: "x" for   *)
(* an event with its data, "t" for a terminal one (completed, incomplete,  *)
(* failed) with its data, ":" for a comment.  The error event and bytes    *)
(* that are not UTF-8 end a stream as a terminal event does.               *)
(***************************************************************************)
EXTENDS Integers, Sequences, FiniteSets, SequencesExt, FiniteSetsExt

CONSTANTS
    MaxBuffer,      \* MAX_SSE_BUFFER_BYTES
    MaxChunk,       \* bound of the model: bytes of one chunk
    MaxBytes        \* bound of the model: bytes of one response

ASSUME SseAssumption == MaxBuffer \in Nat /\ MaxChunk \in Nat \ {0} /\ MaxBytes \in Nat

CR == "CR"
LF == "LF"
Breaks == {CR, LF}
SseBytes == Breaks \cup {"x", "t", ":"}

Chunks == UNION {[1 .. n -> SseBytes] : n \in 1 .. MaxChunk}

VARIABLES
    buffer,         \* SseState.buffer
    scanFrom,       \* SseState.scan_from
    sseDone,        \* SseState.done
    arrived,        \* all bytes received so far
    taken           \* the blocks yielded as events or as errors

sseVars == <<buffer, scanFrom, sseDone, arrived, taken>>

-----------------------------------------------------------------------------

(* The length of the line terminator at p.  A CR at the end may be half of *)
(* a CRLF: not decided yet, which is 0 here.                               *)
TerminatorLen(b, p) ==
    CASE p > Len(b) \/ b[p] \notin Breaks -> 0
      [] p <= Len(b) /\ b[p] = LF -> 1
      [] p < Len(b) /\ b[p] = CR -> IF b[p + 1] = LF THEN 2 ELSE 1
      [] OTHER -> 0

(* The positions after start at which a delimiter of two terminators stands. *)
DelimitersFrom(b, start) ==
    {p \in start + 1 .. Len(b) :
        LET first == TerminatorLen(b, p)
        IN  first > 0 /\ TerminatorLen(b, p + first) > 0}

DelimiterLen(b, p) == TerminatorLen(b, p) + TerminatorLen(b, p + TerminatorLen(b, p))

(* Where the next search begins when this one found nothing: a delimiter   *)
(* that is still incomplete has at most three bytes.                       *)
ResumeAt(b) == IF Len(b) < 3 THEN 0 ELSE Len(b) - 3

(* What a block is: nothing named is a keep-alive, one name an event.  Of  *)
(* two the last counts, and as their joined data cannot be read, it is     *)
(* passed over or, when terminal, an error that ends the stream.           *)
LineStarts(b) == {i \in 1 .. Len(b) : b[i] \notin Breaks /\ (i = 1 \/ b[i - 1] \in Breaks)}

BlockKind(b) ==
    LET named == {i \in LineStarts(b) : b[i] # ":"}
        last == b[Max(named)]
    IN  IF named # {} /\ (Cardinality(named) = 1 \/ last = "t") THEN last ELSE "none"

-----------------------------------------------------------------------------

SseInit ==
    /\ buffer = <<>> /\ scanFrom = 0 /\ sseDone = FALSE
    /\ arrived = <<>> /\ taken = <<>>

(* A complete block is taken.                                              *)
TakeBlock ==
    LET found == DelimitersFrom(buffer, scanFrom)
        at == Min(found)
        block == SubSeq(buffer, 1, at - 1)
    IN  /\ ~sseDone /\ found # {}
        /\ buffer' = SubSeq(buffer, at + DelimiterLen(buffer, at), Len(buffer))
        /\ scanFrom' = 0
        /\ taken' = IF BlockKind(block) = "none" THEN taken ELSE Append(taken, block)
        /\ sseDone' = (BlockKind(block) = "t")
        /\ UNCHANGED arrived

(* No block is complete, so the next chunk is awaited.  One that does not  *)
(* fit ends the stream with an error.                                      *)
Arrive(chunk) ==
    /\ ~sseDone /\ DelimitersFrom(buffer, scanFrom) = {}
    /\ Len(arrived) + Len(chunk) <= MaxBytes
    /\ arrived' = arrived \o chunk
    /\ scanFrom' = ResumeAt(buffer)
    /\ IF Len(buffer) + Len(chunk) > MaxBuffer
       THEN sseDone' = TRUE /\ UNCHANGED buffer
       ELSE buffer' = buffer \o chunk /\ UNCHANGED sseDone
    /\ UNCHANGED taken

(* The connection ends or fails: nothing more is yielded but the error.    *)
Disconnect ==
    /\ ~sseDone /\ DelimitersFrom(buffer, scanFrom) = {}
    /\ sseDone' = TRUE
    /\ scanFrom' = ResumeAt(buffer)
    /\ UNCHANGED <<buffer, arrived, taken>>

SseNext == TakeBlock \/ (\E chunk \in Chunks : Arrive(chunk)) \/ Disconnect

-----------------------------------------------------------------------------
(* The events of a response, whatever its chunks.                          *)

(* Every terminator as one "nl".                                           *)
Normalised(b) ==
    LET Kept(i) == ~(b[i] = LF /\ i > 1 /\ b[i - 1] = CR)
        at == SelectSeq([i \in 1 .. Len(b) |-> i], Kept)
    IN  [k \in 1 .. Len(at) |-> IF b[at[k]] \in Breaks THEN "nl" ELSE b[at[k]]]

Decided(b) == IF b # <<>> /\ Last(b) = CR THEN Front(b) ELSE b

(* Blocks end at an empty line.                                            *)
SplitBlocks(tokens) ==
    FoldLeft(LAMBDA acc, tok :
        IF tok = "nl" /\ acc.open # <<>> /\ Last(acc.open) = "nl"
        THEN [open |-> <<>>, blocks |-> Append(acc.blocks, Front(acc.open))]
        ELSE [acc EXCEPT !.open = Append(@, tok)],
        [open |-> <<>>, blocks |-> <<>>], tokens).blocks

NamedOf(block) == {i \in 1 .. Len(block) :
    block[i] \notin {"nl", ":"} /\ (i = 1 \/ block[i - 1] = "nl")}

IsLast(block) == NamedOf(block) # {} /\ block[Max(NamedOf(block))] = "t"
IsEvent(block) == Cardinality(NamedOf(block)) = 1 \/ IsLast(block)

EventsOf(b) ==
    LET events == SelectSeq(SplitBlocks(Normalised(Decided(b))), IsEvent)
        ends == {i \in 1 .. Len(events) : IsLast(events[i])}
    IN  IF ends = {} THEN events ELSE SubSeq(events, 1, Min(ends))

(* However the bytes of a response are cut into chunks, and whichever line *)
(* terminators are mixed, the decoder yields the events of the whole, none *)
(* twice, none joined or torn, and nothing after a terminal one; when it   *)
(* waits for more it has yielded all that is complete                      *)
(* (take_next_sse_event resumes its search at len - 3).                    *)
EventsSurviveChunking ==
    LET yielded == [i \in 1 .. Len(taken) |-> Normalised(taken[i])]
    IN  /\ IsPrefix(yielded, EventsOf(arrived))
        /\ ~sseDone /\ DelimitersFrom(buffer, scanFrom) = {} => yielded = EventsOf(arrived)

=============================================================================
