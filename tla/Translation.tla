---------------------------- MODULE Translation ----------------------------
(***************************************************************************)
(* What the server makes of requests and answers on their way to and from  *)
(* a provider (services/responses.rs, with the Anthropic half of           *)
(* services/gateway.rs and the client's embeddings() in client-api).       *)
(*                                                                         *)
(* A provider's answer reaches the client by one of two ways: whole,       *)
(* through translate_response, or event by event, through                  *)
(* translate_streaming_chunk and the closing of handle_streaming; for      *)
(* Anthropic each way first goes through the form of OpenAI.  Texts are    *)
(* sequences of symbols, which the provider cuts into events as it likes.  *)
(* How the events pass between the tasks is the subject of StreamRelay.    *)
(***************************************************************************)
EXTENDS StreamRelay, Integers, SequencesExt

CONSTANTS
    Answers,        \* answers of providers
    ChatRequests,   \* requests of clients
    EmbeddingBatches,
    InputEstimate   \* input_token_estimate of a request

VARIABLES
    answer,         \* the provider's answer
    sent,           \* how far its stream is
    heard,          \* the accumulators of handle_streaming
    request,
    batch

streamedVars == <<answer, sent, heard>>
translationVars == <<streamedVars, request, batch>>

Absent == -1        \* a number that is not there
BadIndex == -2      \* an index that is not a number
Nothing == <<>>

-----------------------------------------------------------------------------
(* An answer that comes whole.                                             *)

SymbolsOf(a, kind) ==
    FlattenSeq([i \in DOMAIN a.blocks |-> IF a.blocks[i].kind = kind THEN a.blocks[i].symbols ELSE Nothing])

Reported(n) == IF n = Absent THEN 0 ELSE n

AnthropicFinish(stop) ==
    CASE stop \in {"end_turn", "stop_sequence"} -> "stop"
      [] stop = "max_tokens" -> "length"
      [] stop = "tool_use" -> "tool_calls"
      [] OTHER -> "unknown"

anthropic_response_to_chat_completions(a) ==
    [content |-> SymbolsOf(a, "text"), has_text |-> TRUE, refusal |-> Nothing,
     finish |-> AnthropicFinish(a.stop), input |-> Reported(a.input), output |-> Reported(a.output)]

ChatCompletion(a) ==
    IF a.protocol = "anthropic" THEN anthropic_response_to_chat_completions(a)
    ELSE [content |-> SymbolsOf(a, "text"), has_text |-> \E i \in DOMAIN a.blocks : a.blocks[i].kind = "text",
          refusal |-> SymbolsOf(a, "refusal"), finish |-> a.stop, input |-> a.input, output |-> a.output]

is_valid_chat_completions_response(c) ==
    c.has_text \/ c.refusal # Nothing \/ c.finish = "content_filter"

IncompleteReason(finish) ==
    CASE finish = "length" -> "max_output_tokens"
      [] finish = "content_filter" -> "content_filter"
      [] OTHER -> "none"

\* Text wins over a refusal.
translate_response(c) ==
    [status |-> IF IncompleteReason(c.finish) = "none" THEN "completed" ELSE "incomplete",
     reason |-> IncompleteReason(c.finish), text |-> c.content,
     refusal |-> IF c.content = Nothing THEN c.refusal ELSE Nothing,
     input |-> c.input, output |-> c.output]

-----------------------------------------------------------------------------
(* An answer that is streamed.                                             *)

Chunk(content, refusal, finish, input, output) ==
    [content |-> content, refusal |-> refusal, finish |-> finish, input |-> input, output |-> output]

Event(type, kind, symbols, stop, input, output) ==
    [type |-> type, kind |-> kind, symbols |-> symbols, stop |-> stop, input |-> input, output |-> output]

\* Mutant: max_tokens is left to the default.
FinishOfStopOnly(stop) == IF stop \in {"end_turn", "stop_sequence"} THEN "stop" ELSE "none"

FinishOfDelta(stop) ==
    CASE stop \in {"end_turn", "stop_sequence"} -> "stop"
      [] stop = "max_tokens" -> "length"
      [] OTHER -> "none"

\* Deltas and openings of blocks that are not text are filtered.
translate_anthropic_sse_event(e) ==
    CASE e.type = "message_start" -> Chunk(Nothing, Nothing, "none", e.input, e.output)
      [] e.type = "message_delta" -> Chunk(Nothing, Nothing, FinishOfDelta(e.stop), e.input, e.output)
      [] e.type \in {"content_block_start", "content_block_delta"} /\ e.kind = "text"
            -> Chunk(e.symbols, Nothing, "none", Absent, Absent)
      [] OTHER -> Chunk(Nothing, Nothing, "none", Absent, Absent)

\* choices[0].delta.content and .refusal.
OpenAiChunk(e) ==
    Chunk(IF e.kind = "text" THEN e.symbols ELSE Nothing,
          IF e.kind = "refusal" THEN e.symbols ELSE Nothing, e.stop, e.input, e.output)

\* translate_streaming_chunk, extract_upstream_refusal and observe: a number or
\* reason that is not there leaves what was heard before.
Hear(h, c) ==
    [h EXCEPT !.text = @ \o c.content, !.refusal = @ \o c.refusal,
              !.finish = IF c.finish = "none" THEN @ ELSE c.finish,
              !.input = IF c.input = Absent THEN @ ELSE c.input,
              !.output = IF c.output = Absent THEN @ ELSE c.output]

Silence == [text |-> Nothing, refusal |-> Nothing, finish |-> "none", input |-> 0, output |-> 0,
            done |-> FALSE]

Larger(m, n) == IF m > n THEN m ELSE n

\* The terminal response of handle_streaming.
Closing(h) ==
    LET reason == IF h.done THEN IncompleteReason(h.finish) ELSE "none"
        produced == Larger(Len(h.text), Len(h.refusal))
    IN  [status |-> CASE ~h.done -> "failed" [] reason # "none" -> "incomplete" [] OTHER -> "completed",
         reason |-> reason, text |-> h.text,
         refusal |-> IF h.text = Nothing THEN h.refusal ELSE Nothing,
         input |-> IF h.input = 0 THEN InputEstimate ELSE h.input,
         output |-> IF h.output = 0 /\ produced > 0 THEN Larger(1, produced \div 4) ELSE h.output]

Deliver(e) ==
    heard' = Hear(heard, IF answer.protocol = "anthropic"
                         THEN translate_anthropic_sse_event(e) ELSE OpenAiChunk(e))

\* The provider announces the answer, with what it knows of the usage.
ProviderStarts ==
    /\ sent.at = "start"
    /\ Deliver(Event("message_start", "none", Nothing, "none",
                     IF answer.protocol = "anthropic" THEN answer.input ELSE Absent,
                     IF answer.protocol = "anthropic" /\ answer.output # Absent THEN 1 ELSE Absent))
    /\ sent' = [sent EXCEPT !.at = "blocks"]
    /\ UNCHANGED <<answer, request, batch>>

\* It sends symbols of a block, the first of them perhaps with its opening.
ProviderContinues ==
    /\ sent.at = "blocks" /\ sent.block <= Len(answer.blocks)
    /\ \E b \in {answer.blocks[sent.block]} : \E n \in sent.symbol .. Len(b.symbols) :
        /\ sent.open => n > sent.symbol
        /\ Deliver(Event(IF sent.open THEN "content_block_delta" ELSE "content_block_start", b.kind,
                         SubSeq(b.symbols, sent.symbol + 1, n), "none", Absent, Absent))
        /\ sent' = [sent EXCEPT !.open = TRUE, !.symbol = n]
    /\ UNCHANGED <<answer, request, batch>>

ProviderEndsBlock ==
    /\ sent.at = "blocks" /\ sent.open /\ sent.symbol = Len(answer.blocks[sent.block].symbols)
    /\ sent' = [sent EXCEPT !.open = FALSE, !.symbol = 0, !.block = @ + 1]
    /\ UNCHANGED <<answer, heard, request, batch>>

\* The reason and the usage; Anthropic need not repeat the input.
ProviderStops(repeats) ==
    /\ sent.at = "blocks" /\ sent.block > Len(answer.blocks)
    /\ Deliver(Event("message_delta", "none", Nothing, answer.stop,
                     IF repeats \/ answer.protocol = "openai" THEN answer.input ELSE Absent,
                     answer.output))
    /\ sent' = [sent EXCEPT !.at = "stopped"]
    /\ UNCHANGED <<answer, request, batch>>

ProviderDone ==
    /\ sent.at = "stopped"
    /\ heard' = [heard EXCEPT !.done = TRUE]
    /\ sent' = [sent EXCEPT !.at = "over"]
    /\ UNCHANGED <<answer, request, batch>>

-----------------------------------------------------------------------------
(* A request.                                                              *)

PartsOf(ms) == FlattenSeq([i \in DOMAIN ms |-> ms[i].parts])
Parts(ms) == {PartsOf(ms)[i] : i \in DOMAIN PartsOf(ms)}
Text(id) == [kind |-> "text", id |-> id]

Instructed(role, ids) == [i \in DOMAIN ids |-> [role |-> role, parts |-> <<Text(ids[i])>>]]

Untranslatable(r) == \E p \in Parts(r.input) : p.kind \in {"audio", "file"}

translate_request(r) ==
    Instructed("system", r.instructions) \o Instructed("developer", r.developer) \o r.input

openai_image_part_to_anthropic(p) ==
    IF p.kind \in {"data_image", "http_image"} THEN [p EXCEPT !.kind = "image"] ELSE p

TextsOf(parts) == FlattenSeq([j \in DOMAIN parts |-> IF parts[j].kind = "text" THEN <<parts[j]>> ELSE Nothing])

OfSystem(m) == m.role \in {"system", "developer"}

ForAnthropic(m) ==
    [role |-> m.role, parts |-> [j \in DOMAIN m.parts |-> openai_image_part_to_anthropic(m.parts[j])]]

\* The texts of the system's messages are taken out of the conversation.
chat_completions_to_anthropic(ms) ==
    [system |-> FlattenSeq([i \in DOMAIN ms |-> IF OfSystem(ms[i]) THEN TextsOf(ms[i].parts) ELSE Nothing]),
     messages |-> FlattenSeq([i \in DOMAIN ms |-> IF OfSystem(ms[i]) THEN Nothing ELSE <<ForAnthropic(ms[i])>>])]

ImageKinds == {"data_image", "http_image", "odd_image"}

detect_capability(r) ==
    {"chat"} \cup (IF \E p \in Parts(r.input) : p.kind \in ImageKinds THEN {"vision"} ELSE {})
             \cup (IF \E p \in Parts(r.input) : p.kind = "audio" THEN {"stt"} ELSE {})

-----------------------------------------------------------------------------
(* Embeddings.  An item has a vector, written as numbers or as base64, and *)
(* perhaps an index; "of" is the input it was made for.                    *)

Dimensions(item) == IF item.form = "none" \/ ~item.finite THEN 0 ELSE item.dims
IndexAt(items, p) == IF items[p].index = Absent THEN p - 1 ELSE items[p].index

Contiguous(items) ==
    /\ \A p \in DOMAIN items : items[p].index # BadIndex
    /\ {IndexAt(items, p) : p \in DOMAIN items} = 0 .. Len(items) - 1

normalize_embedding_batch(b) ==
    /\ b.count > 0 /\ Len(b.items) = b.count
    /\ \A p \in DOMAIN b.items :
        /\ Dimensions(b.items[p]) > 0
        /\ b.dims # Absent => Dimensions(b.items[p]) = b.dims
        /\ Dimensions(b.items[p]) = Dimensions(b.items[1])
    /\ Contiguous(b.items)

Normalized(items) == [p \in DOMAIN items |-> [items[p] EXCEPT !.form = "array"]]

\* The client: the vectors by index, none if it refuses the batch.
embeddings(items) ==
    IF \/ items = <<>>
       \/ \E p \in DOMAIN items : \/ items[p].form # "array" \/ Dimensions(items[p]) = 0
                                  \/ Dimensions(items[p]) # Dimensions(items[1])
       \/ ~Contiguous(items)
    THEN Nothing
    ELSE [i \in DOMAIN items |-> items[CHOOSE p \in DOMAIN items : IndexAt(items, p) = i - 1]]

-----------------------------------------------------------------------------

Unsent == [at |-> "start", block |-> 1, symbol |-> 0, open |-> FALSE]

TranslationInit ==
    /\ answer \in Answers /\ sent = Unsent /\ heard = Silence
    /\ request \in ChatRequests /\ batch \in EmbeddingBatches

TranslationNext ==
    \/ ProviderStarts \/ ProviderContinues \/ ProviderEndsBlock \/ ProviderDone
    \/ \E repeats \in BOOLEAN : ProviderStops(repeats)

TranslationSpec == TranslationInit /\ [][TranslationNext]_translationVars

\* The shapes of what comes in.  A part's id is its place in the request, an
\* item's "of" the input it was made for.
ASSUME AnswersAssumption ==
    \A a \in Answers :
        /\ a \in [protocol : {"openai", "anthropic"}, blocks : Seq([kind : STRING, symbols : Seq(STRING)]),
                  stop : STRING, input : Int, output : Int]
        /\ a.input >= Absent /\ a.output >= Absent

PartKinds == ImageKinds \cup {"text", "audio", "file"}

ASSUME RequestsAssumption ==
    \A r \in ChatRequests :
        /\ r \in [instructions : Seq(Nat), developer : Seq(Nat),
                  input : Seq([role : STRING, parts : Seq([kind : PartKinds, id : Nat])])]
        /\ \E ms \in {translate_request(r)} : \A i, j \in DOMAIN ms : i <= j =>
              \A c \in DOMAIN ms[i].parts, d \in DOMAIN ms[j].parts :
                  i < j \/ c < d => ms[i].parts[c].id < ms[j].parts[d].id

ASSUME BatchesAssumption ==
    \A b \in EmbeddingBatches :
        /\ b \in [items : Seq([form : STRING, dims : Int, finite : BOOLEAN, index : Int, of : Int]),
                  count : Int, dims : Int]
        /\ \A p, q \in DOMAIN b.items : p # q => b.items[p].of # b.items[q].of

-----------------------------------------------------------------------------
(* Properties.                                                             *)

(* However the provider cuts its answer into events, the stream ends with  *)
(* the status, the reason, the text or refusal and, as far as they were    *)
(* reported, the numbers that the same answer has when it is not streamed  *)
(* ("mirroring the non-streaming translator").                             *)
StreamedAsWhole ==
    LET chat == ChatCompletion(answer)
        whole == translate_response(chat)
        end == Closing(heard)
    IN  sent.at = "over" /\ is_valid_chat_completions_response(chat) =>
            /\ end.status = whole.status /\ end.reason = whole.reason
            /\ end.text = whole.text /\ end.refusal = whole.refusal
            /\ whole.input > 0 => end.input = whole.input
            /\ whole.output > 0 => end.output = whole.output

Increasing(ids) == \A i, j \in DOMAIN ids : i < j => ids[i] < ids[j]
Ids(parts) == [i \in DOMAIN parts |-> parts[i].id]

\* The texts of a request, wherever they stand in it.
TextIds(r) ==
    {p.id : p \in {q \in Parts(r.input) : q.kind = "text"}}
    \cup {r.instructions[i] : i \in DOMAIN r.instructions}
    \cup {r.developer[i] : i \in DOMAIN r.developer}

(* A request that is sent on, for Anthropic with the instructions taken    *)
(* out, keeps every text, once and in order among the instructions and     *)
(* among the messages, and the images of the messages; one with an image   *)
(* asks for a channel that sees.                                           *)
RequestKept ==
    LET body == translate_request(request)
        out == chat_completions_to_anthropic(body)
        said == Parts(out.messages)
    IN  ~Untranslatable(request) =>
            /\ Increasing(Ids(out.system)) /\ Increasing(Ids(PartsOf(out.messages)))
            /\ {p \in said : p.kind = "text"} \cup {out.system[i] : i \in DOMAIN out.system}
                = {Text(id) : id \in TextIds(request)}
            /\ \A i \in DOMAIN request.input :
                request.input[i].role = "user" =>
                    \A p \in Parts(<<request.input[i]>>) : \E q \in said : q.id = p.id
            /\ (\E p \in said : p.kind \in ImageKinds \cup {"image"}) => "vision" \in detect_capability(request)

(* A batch the server lets through is never refused by the client, which   *)
(* takes one vector for each input; if the provider's indices are right,   *)
(* and what has none is in its place, each for its own.                    *)
EmbeddingsInPlace ==
    LET out == embeddings(Normalized(batch.items)) IN
    normalize_embedding_batch(batch) =>
        /\ Len(out) = batch.count
        /\ \A i, j \in DOMAIN out : i # j => out[i] # out[j]
        /\ (\A p \in DOMAIN batch.items :
                /\ batch.items[p].index \in {Absent, batch.items[p].of}
                /\ batch.items[p].index = Absent => batch.items[p].of = p - 1)
            => \A i \in DOMAIN out : out[i].of = i - 1

(* What passes between client and provider is not changed on the way.      *)
TranslationHolds == StreamedAsWhole /\ RequestKept /\ EmbeddingsInPlace

(* An answer reaches the client as the provider gave it: what a client     *)
(* reads as completed is complete, whatever happens to the tasks and       *)
(* queues between (CompletedIsWhole), and neither translation, of a        *)
(* request or of an answer, loses or reorders anything (TranslationHolds). *)
AnswersAreFaithful == CompletedIsWhole /\ TranslationHolds

=============================================================================
