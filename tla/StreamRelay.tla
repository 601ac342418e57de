---------------------------- MODULE StreamRelay ----------------------------
(***************************************************************************)
(* One streaming response: the provider's bytes are read by the task that  *)
(* proxy_stream spawns (services/gateway.rs), pass a bounded queue to the  *)
(* translator task of handle_streaming (handlers/responses.rs), and a      *)
(* second bounded queue to the client.  Either end may stop at any moment. *)
(*                                                                         *)
(* Events are reduced to what the tasks tell apart:                        *)
(*   text   a delta or a refusal, one event for the client                 *)
(*   stop   a finish_reason other than the two of cut                      *)
(*   cut    finish_reason length or content_filter                         *)
(*   quiet  nothing to translate                                           *)
(*   odd    passed on by the gateway, not JSON to the translator (an empty *)
(*          data line, a ping with text)                                   *)
(*   done   [DONE], message_stop                                           *)
(*   err    the gateway's own notice that the stream failed                *)
(***************************************************************************)
EXTENDS Naturals, Sequences

CONSTANTS
    UpCapacity,      \* STREAM_CHANNEL_CAPACITY
    SseCapacity,     \* SSE_CHANNEL_CAPACITY
    MaxStreamEvents  \* bound: events the provider sends

VARIABLES
    protocol,  \* the channel's protocol_type
    up,        \* where the reading task is
    upItem,    \* the event it is handing over
    outcome,   \* its StreamOutcome or error, "none" while it runs
    circuit,   \* what it told the breaker
    upQ,       \* gateway -> translator
    tr,        \* where the translator is
    trItem,    \* the event it is handing over
    left,      \* events left of the opening or the closing group
    term,      \* StreamTerminationState
    bill,      \* what record_stream_usage was given
    sseQ,      \* translator -> client
    gone,      \* the client has dropped the response
    seen,      \* what the client has read
    fed        \* what the provider has sent: events, and texts among them

upVars == <<up, upItem, outcome, circuit>>
trVars == <<tr, trItem, left, term, bill>>
streamVars == <<protocol, upVars, upQ, trVars, sseQ, gone, seen, fed>>

Events(p) == {"text", "stop", "cut", "quiet", "done"}
                 \cup (IF p = "openai" THEN {"odd"} ELSE {})

StreamTypeOK ==
    /\ protocol \in {"openai", "anthropic"}
    /\ up \in {"open", "read", "send", "breaker", "ended"}
    /\ upItem \in Events("openai") \cup {"none"}
    /\ outcome \in {"none", "completed", "incomplete", "cancelled",
                    "client_error", "upstream_error", "internal"}
    /\ circuit \in {"none", "success", "failure", "neutral"}
    /\ upQ \in Seq(Events("openai") \cup {"err"}) /\ Len(upQ) <= UpCapacity
    /\ tr \in {"opening", "loop", "deliver", "error", "closing", "meter", "ended"}
    /\ trItem \in {"none", "text", "keepalive"}
    /\ left \in 0..4
    /\ term \in [saw_done : BOOLEAN, finish_reason : {"none", "stop", "cut"}]
    /\ bill \in {"none", "partial", "full", "lost"}
    /\ sseQ \in Seq({"frame", "text", "keepalive", "error",
                     "completed", "incomplete", "failed"})
    /\ Len(sseQ) <= SseCapacity
    /\ gone \in BOOLEAN
    /\ seen \in [texts : 0..MaxStreamEvents, error : BOOLEAN,
                 status : {"none", "completed", "incomplete", "failed"}]
    /\ fed \in [events : 0..MaxStreamEvents, texts : 0..MaxStreamEvents]

\* The translator drops upstream_rx and sse_tx together, before it meters.
RxOpen == tr \notin {"meter", "ended"}
\* The reading task's tx goes with send_json_stream, before the breaker call.
TxOpen == up \in {"open", "read", "send"}

StreamInit ==
    /\ protocol \in {"openai", "anthropic"}
    /\ up = "open" /\ upItem = "none" /\ outcome = "none" /\ circuit = "none"
    /\ upQ = <<>> /\ sseQ = <<>> /\ gone = FALSE
    /\ tr = "opening" /\ trItem = "none" /\ left = 3 /\ bill = "none"
    /\ term = [saw_done |-> FALSE, finish_reason |-> "none"]
    /\ seen = [texts |-> 0, error |-> FALSE, status |-> "none"]
    /\ fed = [events |-> 0, texts |-> 0]

-----------------------------------------------------------------------------
(* The task that reads the provider. *)

UpEnd(o) == up' = "breaker" /\ outcome' = o /\ upItem' = "none"

\* try_send: the notice is lost when the queue is full or the translator gone.
send_downstream_stream_error ==
    upQ' = IF RxOpen /\ Len(upQ) < UpCapacity THEN Append(upQ, "err") ELSE upQ

ElsewhereUp == UNCHANGED <<protocol, trVars, sseQ, gone, seen, circuit>>

\* Mutation: request.send() and byte_stream.next() awaited alone.
UpClosedIgnored == FALSE /\ UNCHANGED streamVars

\* await_stream_or_closed: while it waits for the provider the task also
\* watches its receiver.
UpClosed ==
    /\ up \in {"open", "read"} /\ ~RxOpen
    /\ UpEnd("cancelled")
    /\ UNCHANGED <<upQ, fed>> /\ ElsewhereUp

\* The HTTP status: success; a 4xx other than 429; 429, 5xx, no connection.
\* An API key that is no header value ends an Anthropic request unsent.
UpAnswer ==
    /\ up = "open"
    /\ \/ up' = "read" /\ UNCHANGED <<upItem, outcome, upQ>>
       \/ UpEnd("client_error") /\ send_downstream_stream_error
       \/ UpEnd("upstream_error") /\ send_downstream_stream_error
       \/ protocol = "anthropic" /\ UpEnd("internal") /\ UNCHANGED upQ
    /\ UNCHANGED fed /\ ElsewhereUp

\* A complete event.  Anthropic events without a translation go no further.
UpEvent(e) ==
    /\ up = "read" /\ fed.events < MaxStreamEvents
    /\ fed' = [events |-> fed.events + 1,
               texts |-> fed.texts + (IF e = "text" THEN 1 ELSE 0)]
    /\ IF protocol = "anthropic" /\ e = "quiet"
         THEN UNCHANGED <<up, upItem>>
         ELSE up' = "send" /\ upItem' = e
    /\ UNCHANGED <<outcome, upQ>> /\ ElsewhereUp

\* An error event, bad UTF-8 or JSON, a read error, or too many bytes.
UpFault ==
    /\ up = "read"
    /\ UpEnd("upstream_error") /\ send_downstream_stream_error
    /\ UNCHANGED fed /\ ElsewhereUp

\* The provider closes the connection without its terminal marker.
UpEof ==
    /\ up = "read"
    /\ UpEnd("incomplete")
    /\ UNCHANGED <<upQ, fed>> /\ ElsewhereUp

UpSend ==
    /\ up = "send"
    /\ \/ /\ RxOpen /\ Len(upQ) < UpCapacity
          /\ upQ' = Append(upQ, upItem)
          /\ IF upItem = "done" THEN UpEnd("completed")
             ELSE up' = "read" /\ upItem' = "none" /\ UNCHANGED outcome
       \/ ~RxOpen /\ UpEnd("cancelled") /\ UNCHANGED upQ
    /\ UNCHANGED fed /\ ElsewhereUp

stream_circuit_outcome(o) ==
    CASE o = "completed" -> "success"
      [] o \in {"incomplete", "upstream_error"} -> "failure"
      [] OTHER -> "neutral"

UpRecord ==
    /\ up = "breaker"
    /\ up' = "ended" /\ circuit' = stream_circuit_outcome(outcome)
    /\ UNCHANGED <<upItem, outcome, protocol, upQ, trVars, sseQ, gone, seen, fed>>

-----------------------------------------------------------------------------
(* The translator. *)

ElsewhereTr == UNCHANGED <<protocol, upVars, gone, seen, fed>>

\* sse_tx.send: waits for room, fails when the client is gone.
SendsSse(e) == ~gone /\ Len(sseQ) < SseCapacity /\ sseQ' = Append(sseQ, e)

\* Both channel ends are dropped; what the upstream queue holds goes with it.
StopRelay == tr' = "meter" /\ upQ' = <<>> /\ trItem' = "none" /\ left' = 0

response_status ==
    IF term.saw_done /\ term.finish_reason # "cut" THEN "completed"
    ELSE IF term.saw_done THEN "incomplete" ELSE "failed"

\* response.created, output_item.added and content_part.added.
TrOpening ==
    /\ tr = "opening"
    /\ \/ /\ SendsSse("frame")
          /\ left' = left - 1 /\ tr' = IF left = 1 THEN "loop" ELSE tr
          /\ UNCHANGED <<upQ, trItem>>
       \/ gone /\ StopRelay /\ UNCHANGED sseQ
    /\ UNCHANGED <<term, bill>> /\ ElsewhereTr

observe(e) ==
    CASE e = "done" -> [term EXCEPT !.saw_done = TRUE]
      [] e \in {"stop", "cut"} -> [term EXCEPT !.finish_reason = e]
      [] OTHER -> term

\* One event out of the upstream queue.
TrRecv ==
    /\ tr = "loop" /\ upQ # <<>>
    /\ LET e == Head(upQ) IN
       /\ upQ' = Tail(upQ) /\ term' = observe(e)
       /\ tr' = CASE e = "text" -> "deliver"
                  [] e = "done" -> "closing"
                  [] e \in {"odd", "err"} -> "error"
                  [] OTHER -> tr
       /\ trItem' = IF e = "text" THEN "text" ELSE "none"
       /\ left' = IF e = "done" THEN 4 ELSE 0
    /\ UNCHANGED <<sseQ, bill>> /\ ElsewhereTr

\* recv() returns None: the loop ends without [DONE].
TrEof ==
    /\ tr = "loop" /\ upQ = <<>> /\ ~TxOpen
    /\ tr' = "closing" /\ left' = 4
    /\ UNCHANGED <<upQ, trItem, term, bill, sseQ>> /\ ElsewhereTr

\* The select's first arm.
TrClosed ==
    /\ tr = "loop" /\ gone
    /\ StopRelay
    /\ UNCHANGED <<sseQ, term, bill>> /\ ElsewhereTr

TrKeepalive ==
    /\ tr = "loop"
    /\ tr' = "deliver" /\ trItem' = "keepalive"
    /\ UNCHANGED <<upQ, left, term, bill, sseQ>> /\ ElsewhereTr

TrDeliver ==
    /\ tr = "deliver"
    /\ \/ /\ SendsSse(trItem)
          /\ tr' = "loop" /\ trItem' = "none" /\ UNCHANGED <<upQ, left>>
       \/ gone /\ StopRelay /\ UNCHANGED sseQ
    /\ UNCHANGED <<term, bill>> /\ ElsewhereTr

\* send_stream_error waits for room, but not longer than its timeout.
TrError ==
    /\ tr = "error"
    /\ SendsSse("error") \/ ((gone \/ Len(sseQ) = SseCapacity) /\ UNCHANGED sseQ)
    /\ StopRelay
    /\ UNCHANGED <<term, bill>> /\ ElsewhereTr

\* Three events that close the item, then the terminal one.  Once a send
\* has failed the others are skipped.
TrClosing ==
    /\ tr = "closing"
    /\ \/ /\ SendsSse(IF left = 1 THEN response_status ELSE "frame")
          /\ IF left = 1 THEN StopRelay
             ELSE left' = left - 1 /\ UNCHANGED <<tr, upQ, trItem>>
       \/ gone /\ StopRelay /\ UNCHANGED sseQ
    /\ UNCHANGED <<term, bill>> /\ ElsewhereTr

\* record_stream_usage: the usage read off the stream or estimated; an
\* insert that fails or takes longer than 5 s is given up.
TrMeter ==
    /\ tr = "meter"
    /\ tr' = "ended"
    /\ bill' \in {IF term.saw_done THEN "full" ELSE "partial", "lost"}
    /\ UNCHANGED <<upQ, trItem, left, term, sseQ>> /\ ElsewhereTr

-----------------------------------------------------------------------------
(* The client. *)

ClientRead ==
    /\ sseQ # <<>>
    /\ sseQ' = Tail(sseQ)
    /\ LET e == Head(sseQ) IN
         seen' = CASE e = "text" -> [seen EXCEPT !.texts = @ + 1]
                   [] e = "error" -> [seen EXCEPT !.error = TRUE]
                   [] e \in {"completed", "incomplete", "failed"} ->
                        [seen EXCEPT !.status = e]
                   [] OTHER -> seen
    /\ UNCHANGED <<protocol, upVars, upQ, trVars, gone, fed>>

ClientLeaves ==
    /\ ~gone
    /\ gone' = TRUE /\ sseQ' = <<>>
    /\ UNCHANGED <<protocol, upVars, upQ, trVars, seen, fed>>

UpServer == UpClosed \/ UpSend \/ UpRecord
Provider == UpAnswer \/ UpFault \/ UpEof \/ (\E e \in Events(protocol) : UpEvent(e))
Translator ==
    TrOpening \/ TrRecv \/ TrEof \/ TrClosed \/ TrDeliver \/ TrError
        \/ TrClosing \/ TrMeter

StreamNext ==
    UpServer \/ Provider \/ Translator \/ TrKeepalive \/ ClientRead \/ ClientLeaves

StreamSpec == StreamInit /\ [][StreamNext]_streamVars

-----------------------------------------------------------------------------
(* Properties. *)

\* A client that reads response.completed has read every text the provider
\* sent, and the provider did end the stream with its marker and without a
\* reason of truncation: a notice lost in a full queue, an EOF or a skipped
\* event is never taken for success (is_completed, send_stream_error).
CompletedIsWhole ==
    seen.status = "completed" =>
        /\ outcome = "completed"
        /\ term.finish_reason # "cut"
        /\ seen.texts = fed.texts /\ ~seen.error

\* Once the client is gone both tasks end, whatever the provider does or
\* fails to do: nothing keeps the provider's connection, and the stream's
\* usage is handed to metering.
GoneClientReleasesProvider ==
    gone ~> (up = "ended" /\ tr = "ended" /\ bill # "none")

=============================================================================
