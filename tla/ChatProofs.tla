----------------------------- MODULE ChatProofs -----------------------------
(***************************************************************************)
(* Proofs about the chat page around the kernel (ChatHost), for any number *)
(* of messages, Stops and clears, any tool ids and any restored history.   *)
(***************************************************************************)
EXTENDS ChatHost, KernelProofs

-----------------------------------------------------------------------------
(* Where the message of the user is that the page waits for.               *)

HostEvent == [kind : {"user", "clear"}, n : Nat]
PipeEvent == {Error, Interrupted} \cup {ToolCompleted(id) : id \in ToolIds}
             \cup {TurnComplete(Answer(TRUE, {}))}
             \cup {TurnComplete(Answer(FALSE, ids)) : ids \in (SUBSET ToolIds) \ {{}}}

\* Not sent yet, in the channel, received, in a query; or its end is on the way.
Unsent == outbox # <<>>
Queued == \E i \in 1..Len(events) : events[i].kind = "user"
Observed == phase = "observing" /\ event.kind = "user"
Answering == phase \in Querying \cup Executing
Ended == \E i \in 1..Len(pipe) : UnlocksInput(pipe[i])

Open == Unsent \/ Queued \/ Observed \/ Answering \/ Ended

\* The page configures no hooks.
HookPhases == {"stopHook", "haltQuery", "haltBatch"}

PageTyped ==
    /\ {busy, stopping, interrupt, overlap} \subseteq BOOLEAN
    /\ phase \in Phases \ HookPhases
    /\ outbox \in Seq(Nat) /\ events \in Seq(HostEvent) /\ pipe \in Seq(PipeEvent)
    /\ {sent, query, stopped, grant} \subseteq Nat
    /\ phase = "observing" => event \in HostEvent

\* It is in one place, and it is the newest; nothing comes behind it.
OnePlace ==
    /\ Unsent => ~Queued /\ outbox = <<sent>>
    /\ Unsent \/ Queued => ~Observed
    /\ Unsent \/ Queued \/ Observed => ~Answering
    /\ Unsent \/ Queued \/ Observed \/ Answering => ~Ended
    /\ \A i \in 1..Len(events) : events[i].kind = "user" => i = Len(events) /\ events[i].n = sent
    /\ Observed => event.n = sent
    /\ Answering => query = sent
    /\ \A i \in 1..Len(pipe) : UnlocksInput(pipe[i]) => i = Len(pipe)

\* The page shows that it waits, and does not clear meanwhile.
PageWaits ==
    /\ busy \/ stopping <=> Open
    /\ ~(busy /\ stopping)
    /\ clearing # "no" => ~Open

\* A flag that is up was raised for this message, and is not yet answered.
FlagIsCurrent ==
    /\ interrupt => stopping /\ stopped = sent
    /\ \A i \in 1..Len(pipe) : pipe[i].kind = "interrupted" => stopping /\ ~interrupt
    /\ query <= sent /\ stopped <= sent
    /\ emitted = <<Interrupted>> => stopped >= query

GrantIsCurrent == grant # 0 => busy /\ grant = sent

FlowInv ==
    /\ PageTyped
    /\ ~overlap => OnePlace /\ PageWaits /\ FlagIsCurrent /\ GrantIsCurrent

-----------------------------------------------------------------------------
(* Sequences and stream events.                                            *)

LEMMA TailShape ==
    ASSUME NEW S, NEW s \in Seq(S), s # <<>>
    PROVE  /\ Tail(s) \in Seq(S) /\ Len(Tail(s)) = Len(s) - 1
           /\ Len(s) \in Nat /\ Len(s) > 0 /\ Head(s) = s[1] /\ s[1] \in S
           /\ \A i \in 1..Len(Tail(s)) : Tail(s)[i] = s[i + 1]
OBVIOUS

LEMMA EndFacts ==
    /\ Error \in PipeEvent /\ Interrupted \in PipeEvent
    /\ TurnComplete(Answer(TRUE, {})) \in PipeEvent
    /\ UnlocksInput(Error) /\ UnlocksInput(Interrupted)
    /\ UnlocksInput(TurnComplete(Answer(TRUE, {})))
    /\ Error.kind = "error" /\ Interrupted.kind = "interrupted"
    /\ TurnComplete(Answer(TRUE, {})).kind = "turn"
    /\ \A ids \in (SUBSET ToolIds) \ {{}} :
          /\ TurnComplete(Answer(FALSE, ids)) \in PipeEvent
          /\ ~UnlocksInput(TurnComplete(Answer(FALSE, ids)))
    /\ \A id \in ToolIds : ToolCompleted(id) \in PipeEvent /\ ~UnlocksInput(ToolCompleted(id))
    /\ \A e : RevokesGrant(e) <=> UnlocksInput(e)
    /\ \A e : EndedUnstopped(e) <=> FinalTurn(e) \/ e.kind = "error"
BY DEF PipeEvent, UnlocksInput, FinalTurn, Error, Interrupted, TurnComplete, ToolCompleted,
       Answer, RevokesGrant, EndedUnstopped

LEMMA SetListed ==
    ASSUME NEW S \in SUBSET ToolIds
    PROVE  Cardinality(S) \in Nat /\ \A i \in 1..Cardinality(S) : SetToSeq(S)[i] \in S
<1>1. IsFiniteSet(S)
  BY ChatAssumption, FS_Subset
<1>2. Cardinality(S) \in Nat /\ \E f \in [1..Cardinality(S) -> S] : IsInjective(f)
  BY <1>1, FS_CardinalityType DEF ExistsBijection, Bijection, Injection
<1>3. SetToSeq(S) \in [1..Cardinality(S) -> S]
  BY <1>2 DEF SetToSeq
<1> QED
  BY <1>2, <1>3

\* The flag a Stop has left goes with every end but the one that answers it.
LEMMA EndOrStop ==
    ASSUME NEW e \in PipeEvent, UnlocksInput(e)
    PROVE  EndedUnstopped(e) \/ e.kind = "interrupted"
BY DEF UnlocksInput, EndedUnstopped

-----------------------------------------------------------------------------
(* What a step of the kernel is to the page.                               *)

Lowers == interrupt' = interrupt \/ interrupt' = FALSE

Rests ==
    /\ ~Answering /\ ~Observed /\ phase' \in Phases \ ({"observing"} \cup Querying \cup Executing)
    /\ emitted' = <<>> /\ Lowers /\ UNCHANGED <<events, query>>
Receives ==
    /\ phase = "idle" /\ events # <<>> /\ phase' = "observing"
    /\ event' = Head(events) /\ events' = Tail(events)
    /\ emitted' = <<>> /\ UNCHANGED <<interrupt, query>>
Begins ==
    /\ Observed /\ phase' = "querying" /\ query' = event.n
    /\ emitted' = <<>> /\ UNCHANGED <<events, interrupt>>
GoesOn ==
    /\ Answering /\ phase' \in (Querying \cup Executing) \ HookPhases
    /\ emitted' \in Seq(PipeEvent) /\ \A i \in 1..Len(emitted') : ~UnlocksInput(emitted'[i])
    /\ emitted' # <<Interrupted>>
    /\ UNCHANGED <<events, interrupt, query>>
Ends ==
    /\ Answering /\ phase' = "idle" /\ UNCHANGED <<events, query>> /\ Lowers
    /\ \E e \in PipeEvent :
          /\ emitted' = <<e>> /\ UnlocksInput(e)
          /\ IF e.kind = "interrupted" THEN interrupt /\ interrupt' = FALSE ELSE e # Interrupted

LEMMA KernelShape ==
    ASSUME KernelInv, PageTyped, KernelRuns \/ ModelSpeaks \/ BatchDone
    PROVE  (Rests \/ Receives \/ Begins \/ GoesOn \/ Ends) /\ UNCHANGED host
<1> USE DEF inner, host, Answering, Observed, Phases, Querying, Executing, HookPhases, Lowers
<1>0. ~Hooks
  BY ChatAssumption
<1>a. <<>> \in Seq(PipeEvent) /\ Len(<<>>) = 0 /\ <<>> # <<Interrupted>>
  OBVIOUS
<1>1. CASE Start \/ IdleClosed \/ IdleTimeout \/ WaitingOver \/ ObserveSystem \/ ObserveClear
  <2>1. phase = "observing" => event.kind \in {"user", "clear"}
    BY DEF PageTyped, HostEvent
  <2>2. Rests /\ UNCHANGED host
    BY <1>1, <2>1 DEF Start, IdleClosed, IdleTimeout, WaitingOver, ObserveSystem, ObserveClear, Rests
  <2> QED
    BY <2>2
<1>2. CASE IdleReceive
  BY <1>2 DEF IdleReceive, Receives
<1>3. CASE ObserveBlocked \/ StopHookDone \/ HaltHookDone \/ CompactBlocked
  BY <1>3, <1>0 DEF PageTyped, ObserveBlocked, StopHookDone, HaltHookDone, CompactBlocked
<1>4. CASE ObservePrompt
  <2>1. event.kind = "user"
    BY <1>4 DEF ObservePrompt, PageTyped, HostEvent
  <2>2. Paired(Sanitize(conv), TRUE)
    BY SanitizePairsTidy DEF KernelInv, LoopTyped
  <2>3. Append(Sanitize(conv), UserText) # <<>>
    <3>1. Sanitize(conv) \in Seq(Written) /\ UserText \in Written
      BY <2>2, UserTextIsWritten DEF Paired
    <3> QED
      BY <3>1, AppendShape
  <2> QED
    BY <1>4, <2>1, <2>3 DEF ObservePrompt, Begins
<1>5. CASE QueryTurn \/ CompactLocally \/ CompactBySummary \/ OpenStream \/ StreamComplete
           \/ SummaryDone \/ SummaryRetryShorter \/ SummaryRetry \/ SummaryFails \/ BatchDispatch
  <2>1. /\ Answering /\ phase' \in (Querying \cup Executing) \ HookPhases /\ emitted' = <<>>
        /\ UNCHANGED <<events, interrupt, query, host>>
    BY <1>5 DEF QueryTurn, CompactLocally, CompactBySummary, OpenStream, StreamComplete,
                SummaryDone, SummaryRetryShorter, SummaryRetry, SummaryFails, BatchDispatch
  <2> QED
    BY <2>1, <1>a DEF GoesOn
<1>6. CASE QueryLimit \/ OpenFails \/ StreamGivesUp \/ StreamEnds \/ AnswerEmpty \/ AnswerInvalid
  <2>1. /\ Answering /\ phase' = "idle" /\ emitted' = <<Error>> /\ Lowers
        /\ UNCHANGED <<events, query, host>>
    BY <1>6 DEF QueryLimit, OpenFails, StreamGivesUp, StreamEnds, AnswerEmpty, AnswerInvalid
  <2> QED
    BY <2>1, EndFacts DEF Ends
<1>7. CASE QueryInterrupted \/ StreamInterrupted \/ BatchInterrupted
  <2>1. /\ Answering /\ phase' = "idle" /\ emitted' = <<Interrupted>>
        /\ interrupt /\ interrupt' = FALSE /\ UNCHANGED <<events, query, host>>
    BY <1>7, <1>0 DEF QueryInterrupted, StreamInterrupted, BatchInterrupted
  <2> QED
    BY <2>1, EndFacts DEF Ends
<1>8. CASE AnswerFinal
  <2>1. /\ Answering /\ phase' = "idle" /\ emitted' = <<TurnComplete(Answer(TRUE, {}))>>
        /\ interrupt' = FALSE /\ UNCHANGED <<events, query, host>>
    BY <1>8, <1>0 DEF AnswerFinal
  <2> QED
    BY <2>1, EndFacts DEF Ends
<1>9. CASE AnswerWithTools
  <2>1. PICK ids \in (SUBSET ToolIds) \ {{}} : emitted' = <<TurnComplete(Answer(FALSE, ids))>>
    BY <1>9 DEF AnswerWithTools
  <2>2. /\ Answering /\ phase' \in Executing \ HookPhases /\ UNCHANGED <<events, interrupt, query, host>>
    BY <1>9 DEF AnswerWithTools
  <2> DEFINE e == TurnComplete(Answer(FALSE, ids))
  <2>3. e \in PipeEvent /\ ~UnlocksInput(e) /\ e # Interrupted
    BY EndFacts
  <2> HIDE DEF e
  <2>4. /\ <<e>> \in Seq(PipeEvent) /\ \A i \in 1..Len(<<e>>) : ~UnlocksInput(<<e>>[i])
        /\ <<e>> # <<Interrupted>>
    BY <2>3
  <2> QED
    BY <2>1, <2>2, <2>4 DEF GoesOn, e
<1>10. CASE BatchDone
  <2> DEFINE n == Cardinality(batch)
             es == [i \in 1..n |-> ToolCompleted(SetToSeq(batch)[i])]
  <2>1. es \in Seq(PipeEvent) /\ (\A i \in 1..Len(es) : ~UnlocksInput(es[i])) /\ es # <<Interrupted>>
    <3>1. n \in Nat /\ \A i \in 1..n : SetToSeq(batch)[i] \in ToolIds
      BY SetListed DEF KernelInv, LoopTyped
    <3>2. \A i \in 1..n : es[i] \in PipeEvent /\ ~UnlocksInput(es[i])
      BY <3>1, EndFacts
    <3>3. Len(es) = n /\ es \in Seq(PipeEvent)
      BY <3>1, <3>2
    <3>4. es # <<Interrupted>>
      <4> SUFFICES ASSUME es = <<Interrupted>> PROVE FALSE
        OBVIOUS
      <4>1. n = 1 /\ es[1] = Interrupted
        BY <3>3
      <4> QED
        BY <4>1, <3>2, EndFacts
    <3> QED
      BY <3>2, <3>3, <3>4
  <2>2. /\ Answering /\ phase' \in Querying \ HookPhases /\ emitted' = es
        /\ UNCHANGED <<events, interrupt, query, host>>
    BY <1>10 DEF BatchDone
  <2> HIDE DEF es
  <2> QED
    BY <2>1, <2>2 DEF GoesOn
<1> QED
  BY <1>1, <1>2, <1>3, <1>4, <1>5, <1>6, <1>7, <1>8, <1>9, <1>10 DEF KernelRuns, ModelSpeaks

-----------------------------------------------------------------------------
(* The message goes its way.                                               *)

LEMMA FlowInit == ChatInit => FlowInv
<1> SUFFICES ASSUME ChatInit PROVE FlowInv
  OBVIOUS
<1>1. /\ phase = "created" /\ events = <<>> /\ outbox = <<>> /\ pipe = <<>> /\ emitted = <<>>
      /\ sent = 0 /\ query = 0 /\ stopped = 0 /\ grant = 0 /\ interrupt = FALSE /\ busy = FALSE
      /\ stopping = FALSE /\ overlap = FALSE /\ clearing = "no"
  BY DEF ChatInit, KernelInit
<1>2. PageTyped
  <2>1. {busy, stopping, interrupt, overlap} \subseteq BOOLEAN
    BY <1>1
  <2>2. phase \in Phases \ HookPhases /\ phase # "observing"
    BY <1>1 DEF Phases, HookPhases
  <2>3. /\ outbox \in Seq(Nat) /\ events \in Seq(HostEvent) /\ pipe \in Seq(PipeEvent)
        /\ {sent, query, stopped, grant} \subseteq Nat
    BY <1>1
  <2> QED
    BY <2>1, <2>2, <2>3 DEF PageTyped
<1>3. ~Unsent /\ ~Queued /\ ~Observed /\ ~Answering /\ ~Ended
  BY <1>1 DEF Unsent, Queued, Observed, Answering, Ended, Querying, Executing
<1>4. OnePlace /\ PageWaits
  BY <1>1, <1>3 DEF OnePlace, PageWaits, Open
<1>5. FlagIsCurrent /\ GrantIsCurrent
  BY <1>1 DEF FlagIsCurrent, GrantIsCurrent
<1> QED
  BY <1>2, <1>4, <1>5 DEF FlowInv

\* What the pipe holds after the kernel said nothing that ends the query.
LEMMA PipeGrows ==
    ASSUME pipe \in Seq(PipeEvent), emitted' \in Seq(PipeEvent),
           \A i \in 1..Len(emitted') : ~UnlocksInput(emitted'[i]), pipe' = pipe \o emitted',
           ~Ended
    PROVE  /\ pipe' \in Seq(PipeEvent)
           /\ \A i \in 1..Len(pipe') : ~UnlocksInput(pipe'[i])
           /\ \A i \in 1..Len(pipe') : pipe'[i].kind # "interrupted"
<1>1. /\ pipe' \in Seq(PipeEvent) /\ Len(pipe') = Len(pipe) + Len(emitted')
      /\ Len(pipe) \in Nat /\ Len(emitted') \in Nat
      /\ \A i \in 1..Len(pipe) : pipe'[i] = pipe[i]
      /\ \A i \in 1..Len(emitted') : pipe'[Len(pipe) + i] = emitted'[i]
  BY JoinShape
<1>2. ASSUME NEW i \in 1..Len(pipe'), ~(i \in 1..Len(pipe))
      PROVE  i - Len(pipe) \in 1..Len(emitted') /\ pipe'[i] = emitted'[i - Len(pipe)]
  <2>1. i - Len(pipe) \in 1..Len(emitted') /\ i = Len(pipe) + (i - Len(pipe))
    BY <1>1, <1>2
  <2> QED
    BY <1>1, <2>1
<1>3. \A i \in 1..Len(pipe') : ~UnlocksInput(pipe'[i])
  BY <1>1, <1>2 DEF Ended
<1>4. \A i \in 1..Len(pipe') : pipe'[i].kind # "interrupted"
  BY <1>3 DEF UnlocksInput
<1> QED
  BY <1>1, <1>3, <1>4

LEMMA FlowRests ==
    ASSUME FlowInv, Rests, pipe' = pipe,
           UNCHANGED <<busy, stopping, outbox, clearing, grant, overlap, sent, stopped>>
    PROVE  FlowInv'
<1> USE DEF Rests, FlowInv, Lowers, Answering, Observed
<1>1. PageTyped'
  BY DEF PageTyped, Phases, Querying, Executing, HookPhases
<1>2. ~Answering' /\ ~Observed' /\ (Unsent' = Unsent) /\ (Queued' = Queued) /\ (Ended' = Ended)
  BY DEF Unsent, Queued, Ended, Querying, Executing
<1>3. ASSUME ~overlap PROVE OnePlace' /\ PageWaits' /\ FlagIsCurrent' /\ GrantIsCurrent'
  <2>1. OnePlace'
    BY <1>2, <1>3 DEF OnePlace
  <2>2. PageWaits'
    BY <1>2, <1>3 DEF PageWaits, Open
  <2>3. FlagIsCurrent' /\ GrantIsCurrent'
    BY <1>3 DEF FlagIsCurrent, GrantIsCurrent
  <2> QED
    BY <2>1, <2>2, <2>3
<1> QED
  BY <1>1, <1>3

LEMMA FlowReceives ==
    ASSUME FlowInv, Receives, pipe' = pipe,
           UNCHANGED <<busy, stopping, outbox, clearing, grant, overlap, sent, stopped>>
    PROVE  FlowInv'
<1> USE DEF Receives, FlowInv
<1>1. /\ events' \in Seq(HostEvent) /\ Len(events') = Len(events) - 1
      /\ Len(events) \in Nat /\ Len(events) > 0 /\ event' = events[1] /\ events[1] \in HostEvent
      /\ \A i \in 1..Len(events') : events'[i] = events[i + 1]
  BY TailShape DEF PageTyped
<1>2. PageTyped'
  BY <1>1 DEF PageTyped, Phases, HookPhases, Querying, Executing
<1>3. /\ ~Answering /\ ~Answering' /\ ~Observed /\ (Unsent' = Unsent) /\ (Ended' = Ended)
  BY DEF Unsent, Ended, Querying, Executing, Answering, Observed
<1>4. Observed' <=> events[1].kind = "user"
  BY <1>1 DEF Observed
<1>5. ASSUME ~overlap PROVE OnePlace' /\ PageWaits' /\ FlagIsCurrent' /\ GrantIsCurrent'
  <2>0. OnePlace /\ PageWaits /\ FlagIsCurrent /\ GrantIsCurrent
    BY <1>5
  <2>1. Queued <=> Observed' \/ Queued'
    <3>1. ASSUME Queued PROVE Observed' \/ Queued'
      <4>1. PICK i \in 1..Len(events) : events[i].kind = "user"
        BY <3>1 DEF Queued
      <4>2. CASE i = 1
        BY <4>1, <4>2, <1>4
      <4>3. CASE i # 1
        <5>1. i - 1 \in 1..Len(events') /\ events'[i - 1] = events[i]
          BY <4>3, <1>1
        <5> QED
          BY <5>1, <4>1 DEF Queued
      <4> QED
        BY <4>2, <4>3
    <3>2. ASSUME Queued' PROVE Queued
      <4>1. PICK i \in 1..Len(events') : events'[i].kind = "user"
        BY <3>2 DEF Queued
      <4>2. i + 1 \in 1..Len(events) /\ events[i + 1].kind = "user"
        BY <4>1, <1>1
      <4> QED
        BY <4>2 DEF Queued
    <3>3. Observed' => Queued
      BY <1>1, <1>4 DEF Queued
    <3> QED
      BY <3>1, <3>2, <3>3
  <2>2. Observed' => Len(events) = 1 /\ events[1].n = sent /\ ~Queued'
    <3> SUFFICES ASSUME Observed' PROVE Len(events) = 1 /\ events[1].n = sent /\ ~Queued'
      OBVIOUS
    <3>1. 1 \in 1..Len(events) /\ events[1].kind = "user"
      BY <1>1, <1>4
    <3>2. Len(events) = 1 /\ events[1].n = sent
      BY <3>1, <2>0 DEF OnePlace
    <3>3. 1..Len(events') = {}
      BY <3>2, <1>1
    <3> QED
      BY <3>2, <3>3 DEF Queued
  <2>3. ASSUME NEW i \in 1..Len(events'), events'[i].kind = "user"
        PROVE  i = Len(events') /\ events'[i].n = sent
    <3>1. i + 1 \in 1..Len(events) /\ events'[i] = events[i + 1]
      BY <1>1
    <3>2. i + 1 = Len(events) /\ events[i + 1].n = sent
      BY <3>1, <2>3, <2>0 DEF OnePlace
    <3> QED
      BY <3>1, <3>2, <1>1
  <2>4. OnePlace'
    BY <2>0, <2>1, <2>2, <2>3, <1>1, <1>3 DEF OnePlace
  <2>5. PageWaits'
    BY <2>0, <2>1, <1>3 DEF PageWaits, Open
  <2>6. FlagIsCurrent' /\ GrantIsCurrent'
    BY <2>0 DEF FlagIsCurrent, GrantIsCurrent
  <2> QED
    BY <2>4, <2>5, <2>6
<1> QED
  BY <1>2, <1>5

LEMMA FlowBegins ==
    ASSUME FlowInv, Begins, pipe' = pipe,
           UNCHANGED <<busy, stopping, outbox, clearing, grant, overlap, sent, stopped>>
    PROVE  FlowInv'
<1> USE DEF Begins, FlowInv
<1>1. PageTyped'
  BY DEF PageTyped, HostEvent, Observed, Phases, HookPhases, Querying, Executing
<1>2. /\ Observed /\ ~Observed' /\ Answering' /\ (Unsent' = Unsent) /\ (Queued' = Queued)
      /\ (Ended' = Ended)
  BY DEF Unsent, Queued, Ended, Answering, Observed, Querying
<1>3. ASSUME ~overlap PROVE OnePlace' /\ PageWaits' /\ FlagIsCurrent' /\ GrantIsCurrent'
  <2>0. OnePlace /\ PageWaits /\ FlagIsCurrent /\ GrantIsCurrent
    BY <1>3
  <2>1. query' = sent
    BY <2>0 DEF OnePlace
  <2>2. OnePlace'
    BY <2>0, <2>1, <1>2 DEF OnePlace
  <2>3. PageWaits'
    BY <2>0, <1>2 DEF PageWaits, Open
  <2>4. FlagIsCurrent' /\ GrantIsCurrent'
    BY <2>0, <2>1 DEF FlagIsCurrent, GrantIsCurrent, PageTyped
  <2> QED
    BY <2>2, <2>3, <2>4
<1> QED
  BY <1>1, <1>3

LEMMA FlowGoesOn ==
    ASSUME FlowInv, GoesOn, pipe' = pipe \o emitted',
           UNCHANGED <<busy, stopping, outbox, clearing, grant, overlap, sent, stopped>>
    PROVE  FlowInv'
<1> USE DEF GoesOn, FlowInv
<1>0. /\ pipe \in Seq(PipeEvent) /\ pipe' \in Seq(PipeEvent)
      /\ Answering /\ Answering' /\ ~Observed /\ ~Observed' /\ (Unsent' = Unsent)
      /\ (Queued' = Queued)
  BY JoinShape DEF PageTyped, Unsent, Queued, Answering, Observed, Querying, Executing
<1>1. PageTyped'
  BY <1>0 DEF PageTyped, Phases, HookPhases, Querying, Executing
<1>2. ASSUME ~overlap PROVE OnePlace' /\ PageWaits' /\ FlagIsCurrent' /\ GrantIsCurrent'
  <2>0. OnePlace /\ PageWaits /\ FlagIsCurrent /\ GrantIsCurrent /\ ~Ended
    BY <1>0, <1>2 DEF OnePlace
  <2>1. /\ \A i \in 1..Len(pipe') : ~UnlocksInput(pipe'[i])
        /\ \A i \in 1..Len(pipe') : pipe'[i].kind # "interrupted"
    BY <2>0, <1>0, PipeGrows
  <2>2. ~Ended'
    BY <2>1 DEF Ended
  <2>3. OnePlace'
    BY <2>0, <2>1, <2>2, <1>0 DEF OnePlace
  <2>4. PageWaits'
    BY <2>0, <2>2, <1>0 DEF PageWaits, Open
  <2>5. FlagIsCurrent' /\ GrantIsCurrent'
    BY <2>0, <2>1 DEF FlagIsCurrent, GrantIsCurrent
  <2> QED
    BY <2>3, <2>4, <2>5
<1> QED
  BY <1>1, <1>2

LEMMA FlowEnds ==
    ASSUME FlowInv, Ends, pipe' = pipe \o emitted',
           UNCHANGED <<busy, stopping, outbox, clearing, grant, overlap, sent, stopped>>
    PROVE  FlowInv'
<1> USE DEF Ends, FlowInv
<1>1. PICK e \in PipeEvent :
         /\ emitted' = <<e>> /\ UnlocksInput(e)
         /\ IF e.kind = "interrupted" THEN interrupt /\ interrupt' = FALSE ELSE e # Interrupted
  OBVIOUS
<1>2. /\ pipe' \in Seq(PipeEvent) /\ Len(pipe') = Len(pipe) + 1 /\ Len(pipe) \in Nat
      /\ pipe \in Seq(PipeEvent)
      /\ \A i \in 1..Len(pipe) : pipe'[i] = pipe[i]
      /\ pipe'[Len(pipe) + 1] = e
  <2>1. pipe \in Seq(PipeEvent) /\ pipe' = Append(pipe, e)
    BY <1>1 DEF PageTyped
  <2> QED
    BY <2>1, AppendShape
<1>3. /\ Answering /\ ~Answering' /\ ~Observed /\ ~Observed' /\ (Unsent' = Unsent)
      /\ (Queued' = Queued) /\ Ended'
  BY <1>1, <1>2 DEF Unsent, Queued, Answering, Observed, Querying, Executing, Ended
<1>4. PageTyped'
  BY <1>2 DEF PageTyped, Phases, HookPhases, Querying, Executing, Lowers
<1>5. ASSUME ~overlap PROVE OnePlace' /\ PageWaits' /\ FlagIsCurrent' /\ GrantIsCurrent'
  <2>0. OnePlace /\ PageWaits /\ FlagIsCurrent /\ GrantIsCurrent
    BY <1>5
  <2>1. ~Ended /\ \A i \in 1..Len(pipe') : UnlocksInput(pipe'[i]) => i = Len(pipe')
    BY <2>0, <1>2, <1>3 DEF OnePlace, Ended
  <2>2. OnePlace'
    BY <2>0, <2>1, <1>3 DEF OnePlace
  <2>3. PageWaits'
    BY <2>0, <2>1, <1>3 DEF PageWaits, Open
  <2>4. \A i \in 1..Len(pipe') : pipe'[i].kind = "interrupted" => stopping /\ ~interrupt'
    <3> SUFFICES ASSUME NEW i \in 1..Len(pipe'), pipe'[i].kind = "interrupted"
                 PROVE  stopping /\ ~interrupt'
      OBVIOUS
    <3>1. CASE i \in 1..Len(pipe)
      BY <3>1, <2>0, <1>2 DEF FlagIsCurrent, Lowers
    <3>2. CASE i = Len(pipe) + 1
      BY <3>2, <2>0, <1>1, <1>2 DEF FlagIsCurrent
    <3> QED
      BY <3>1, <3>2, <1>2
  <2>5. emitted' = <<Interrupted>> => stopped >= query
    <3> SUFFICES ASSUME emitted' = <<Interrupted>> PROVE stopped >= query
      OBVIOUS
    <3>1. e = Interrupted
      BY <1>1
    <3>2. interrupt
      BY <3>1, <1>1
    <3> QED
      BY <3>2, <2>0 DEF FlagIsCurrent, PageTyped
  <2>6. FlagIsCurrent' /\ GrantIsCurrent'
    BY <2>0, <2>4, <2>5 DEF FlagIsCurrent, GrantIsCurrent, Lowers
  <2> QED
    BY <2>2, <2>3, <2>6
<1> QED
  BY <1>4, <1>5

LEMMA FlowKernel ==
    ASSUME FlowInv, KernelInv, KernelRuns \/ ModelSpeaks \/ BatchDone, pipe' = pipe \o emitted',
           UNCHANGED <<busy, stopping, outbox, clearing, grant, overlap>>
    PROVE  FlowInv'
<1>1. Rests \/ Receives \/ Begins \/ GoesOn \/ Ends
  BY KernelShape DEF FlowInv
<1>2. UNCHANGED <<sent, stopped>>
  BY KernelShape DEF FlowInv, host
<1>3. emitted' = <<>> => pipe' = pipe
  BY DEF FlowInv, PageTyped
<1>4. CASE Rests
  BY <1>2, <1>3, <1>4, FlowRests DEF Rests
<1>5. CASE Receives
  BY <1>2, <1>3, <1>5, FlowReceives DEF Receives
<1>6. CASE Begins
  BY <1>2, <1>3, <1>6, FlowBegins DEF Begins
<1>7. CASE GoesOn
  BY <1>2, <1>7, FlowGoesOn
<1>8. CASE Ends
  BY <1>2, <1>8, FlowEnds
<1> QED
  BY <1>1, <1>4, <1>5, <1>6, <1>7, <1>8

\* A step of the page that moves no message, raises no flag and grants nothing;
\* it may begin to clear when nothing is open.
LEMMA FlowStays ==
    ASSUME FlowInv, UNCHANGED <<phase, event, interrupt, events, emitted, query, sent, stopped>>,
           UNCHANGED <<busy, stopping, outbox, pipe, overlap>>,
           grant' = grant \/ grant' = 0,
           ~overlap /\ clearing' # "no" => ~Open
    PROVE  FlowInv'
<1> USE DEF FlowInv
<1>1. PageTyped'
  BY DEF PageTyped
<1>2. /\ Open' = Open /\ Observed' = Observed /\ Answering' = Answering /\ Unsent' = Unsent
      /\ Queued' = Queued /\ Ended' = Ended
  BY DEF Open, Observed, Answering, Unsent, Queued, Ended
<1>3. ASSUME ~overlap PROVE OnePlace' /\ PageWaits' /\ FlagIsCurrent' /\ GrantIsCurrent'
  <2>1. OnePlace'
    BY <1>2, <1>3 DEF OnePlace
  <2>2. PageWaits'
    BY <1>2, <1>3 DEF PageWaits
  <2>3. FlagIsCurrent' /\ GrantIsCurrent'
    BY <1>3 DEF FlagIsCurrent, GrantIsCurrent
  <2> QED
    BY <2>1, <2>2, <2>3
<1> QED
  BY <1>1, <1>3

\* Nothing is open while the composer is.
LEMMA ComposerOpen ==
    ASSUME FlowInv, ~overlap, InputEnabled
    PROVE  ~Open /\ ~interrupt /\ grant = 0 /\ clearing = "no"
BY DEF FlowInv, InputEnabled, PageWaits, FlagIsCurrent, GrantIsCurrent

LEMMA FlowSend ==
    ASSUME FlowInv, NEW create \in BOOLEAN, OnSend(create)
    PROVE  FlowInv'
<1> USE DEF FlowInv
<1>0. /\ sent' = sent + 1 /\ busy' = TRUE /\ outbox' = Append(outbox, sent + 1)
      /\ grant' = IF create THEN sent + 1 ELSE grant
      /\ UNCHANGED <<phase, event, interrupt, events, emitted, query, stopped>>
      /\ UNCHANGED <<pipe, stopping, overlap, clearing>>
  BY DEF OnSend, inner, session, store
<1>1. PageTyped'
  BY <1>0 DEF PageTyped
<1>2. ASSUME ~overlap PROVE OnePlace' /\ PageWaits' /\ FlagIsCurrent' /\ GrantIsCurrent'
  <2>0. /\ ~Open /\ ~interrupt /\ grant = 0 /\ clearing = "no" /\ InputEnabled
        /\ OnePlace /\ PageWaits /\ FlagIsCurrent
    BY <1>2, ComposerOpen DEF OnSend
  <2>a. outbox = <<>> /\ outbox' = <<sent'>>
    <3>1. outbox = <<>>
      BY <2>0 DEF Open, Unsent
    <3>2. Append(<<>>, sent + 1) = <<sent + 1>>
      BY DEF PageTyped
    <3> QED
      BY <3>1, <3>2, <1>0
  <2>1. /\ Unsent' /\ ~Queued /\ ~Queued' /\ ~Observed' /\ ~Answering' /\ ~Ended /\ ~Ended'
    BY <2>0, <2>a, <1>0 DEF Open, Unsent, Queued, Observed, Answering, Ended
  <2>2. OnePlace'
    BY <2>a, <2>1, <1>0 DEF OnePlace, Queued, Ended
  <2>3. PageWaits'
    BY <2>0, <2>1, <1>0 DEF PageWaits, Open, InputEnabled
  <2>4. FlagIsCurrent' /\ GrantIsCurrent'
    BY <2>0, <1>0 DEF FlagIsCurrent, GrantIsCurrent, PageTyped
  <2> QED
    BY <2>2, <2>3, <2>4
<1> QED
  BY <1>0, <1>1, <1>2

LEMMA FlowSendTask == ASSUME FlowInv, SendTask PROVE FlowInv'
<1> USE DEF FlowInv
<1>0. /\ outbox # <<>> /\ outbox' = Tail(outbox)
      /\ events' = Append(events, [kind |-> "user", n |-> Head(outbox)])
      /\ UNCHANGED <<phase, event, interrupt, emitted, query, sent, stopped>>
      /\ UNCHANGED <<pipe, busy, stopping, overlap, clearing, grant>>
  BY DEF SendTask, inner, host, view, session, asks
<1> DEFINE m == [kind |-> "user", n |-> Head(outbox)]
<1>a. m \in HostEvent /\ m.kind = "user" /\ m.n = Head(outbox)
  BY <1>0 DEF PageTyped, HostEvent
<1> HIDE DEF m
<1>b. /\ events' \in Seq(HostEvent) /\ Len(events') = Len(events) + 1 /\ Len(events) \in Nat
      /\ events'[Len(events) + 1] = m /\ \A i \in 1..Len(events) : events'[i] = events[i]
  <2>1. events' = Append(events, m) /\ events \in Seq(HostEvent)
    BY <1>0 DEF PageTyped, m
  <2> QED
    BY <2>1, <1>a, AppendShape
<1>1. PageTyped'
  BY <1>0, <1>b DEF PageTyped
<1>2. ASSUME ~overlap PROVE OnePlace' /\ PageWaits' /\ FlagIsCurrent' /\ GrantIsCurrent'
  <2>0. /\ OnePlace /\ PageWaits /\ FlagIsCurrent /\ GrantIsCurrent /\ Unsent /\ ~Queued
        /\ ~Observed /\ ~Answering /\ ~Ended /\ outbox = <<sent>>
    BY <1>2, <1>0 DEF OnePlace, Unsent
  <2>1. /\ outbox' = <<>> /\ ~Unsent' /\ Queued' /\ ~Observed' /\ ~Answering' /\ ~Ended' /\ m.n = sent
    BY <2>0, <1>0, <1>a, <1>b DEF Unsent, Queued, Observed, Answering, Ended
  <2>2. \A i \in 1..Len(events') : events'[i].kind = "user" => i = Len(events') /\ events'[i].n = sent
    BY <2>0, <2>1, <1>b DEF Queued
  <2>3. OnePlace'
    BY <2>0, <2>1, <2>2, <1>0 DEF OnePlace
  <2>4. PageWaits'
    BY <2>0, <2>1, <1>0 DEF PageWaits, Open
  <2>5. FlagIsCurrent' /\ GrantIsCurrent'
    BY <2>0, <1>0 DEF FlagIsCurrent, GrantIsCurrent
  <2> QED
    BY <2>3, <2>4, <2>5
<1> QED
  BY <1>0, <1>1, <1>2

LEMMA FlowSkill == ASSUME FlowInv, SkillLoaded PROVE FlowInv'
<1> USE DEF FlowInv
<1>0. /\ sent' = sent + 1 /\ busy' = TRUE /\ overlap' = (overlap \/ ~InputEnabled)
      /\ events' = Append(events, [kind |-> "user", n |-> sent + 1])
      /\ UNCHANGED <<phase, event, interrupt, emitted, query, stopped>>
      /\ UNCHANGED <<pipe, stopping, outbox, clearing, grant>>
  BY DEF SkillLoaded, inner, session, asks
<1> DEFINE m == [kind |-> "user", n |-> sent + 1]
<1>a. m \in HostEvent /\ m.kind = "user" /\ m.n = sent'
  BY <1>0 DEF PageTyped, HostEvent
<1> HIDE DEF m
<1>b. /\ events' \in Seq(HostEvent) /\ Len(events') = Len(events) + 1 /\ Len(events) \in Nat
      /\ events'[Len(events) + 1] = m /\ \A i \in 1..Len(events) : events'[i] = events[i]
  <2>1. events' = Append(events, m) /\ events \in Seq(HostEvent)
    BY <1>0 DEF PageTyped, m
  <2> QED
    BY <2>1, <1>a, AppendShape
<1>1. PageTyped'
  <2>1. overlap' \in BOOLEAN
    BY <1>0
  <2>2. sent' \in Nat /\ busy' \in BOOLEAN
    BY <1>0 DEF PageTyped
  <2> QED
    BY <1>0, <1>b, <2>1, <2>2 DEF PageTyped
<1>2. ASSUME ~overlap' PROVE OnePlace' /\ PageWaits' /\ FlagIsCurrent' /\ GrantIsCurrent'
  <2>a. ~overlap /\ InputEnabled
    BY <1>0, <1>2
  <2>0. /\ ~Open /\ ~interrupt /\ grant = 0 /\ clearing = "no"
        /\ OnePlace /\ PageWaits /\ FlagIsCurrent
    BY <2>a, ComposerOpen
  <2>1. /\ ~Unsent' /\ ~Queued /\ Queued' /\ ~Observed' /\ ~Answering' /\ ~Ended'
    BY <2>0, <1>0, <1>a, <1>b DEF Open, Unsent, Queued, Observed, Answering, Ended
  <2>2. \A i \in 1..Len(events') : events'[i].kind = "user" => i = Len(events') /\ events'[i].n = sent'
    BY <2>1, <1>a, <1>b DEF Queued
  <2>3. OnePlace'
    BY <2>0, <2>1, <2>2, <1>0 DEF OnePlace
  <2>4. PageWaits'
    BY <2>a, <2>0, <2>1, <1>0 DEF PageWaits, Open, InputEnabled
  <2>5. FlagIsCurrent' /\ GrantIsCurrent'
    BY <2>0, <1>0 DEF FlagIsCurrent, GrantIsCurrent, PageTyped
  <2> QED
    BY <2>3, <2>4, <2>5
<1> QED
  BY <1>1, <1>2

LEMMA FlowInterrupt == ASSUME FlowInv, OnInterrupt PROVE FlowInv'
<1> USE DEF FlowInv
<1>0. /\ busy /\ interrupt' = TRUE /\ stopped' = sent /\ grant' = 0 /\ stopping' = TRUE
      /\ busy' = FALSE
      /\ UNCHANGED <<phase, event, events, emitted, query, sent>>
      /\ UNCHANGED <<pipe, outbox, overlap, clearing>>
  BY DEF OnInterrupt, inner, tasks, session
<1>1. PageTyped'
  <2>1. {busy', stopping', interrupt', overlap'} \subseteq BOOLEAN
    BY <1>0 DEF PageTyped
  <2>2. stopped' \in Nat /\ grant' \in Nat
    BY <1>0 DEF PageTyped
  <2> QED
    BY <1>0, <2>1, <2>2 DEF PageTyped
<1>2. /\ Open' = Open /\ Observed' = Observed /\ Answering' = Answering /\ Unsent' = Unsent
      /\ Queued' = Queued /\ Ended' = Ended
  BY <1>0 DEF Open, Observed, Answering, Unsent, Queued, Ended
<1>3. ASSUME ~overlap PROVE OnePlace' /\ PageWaits' /\ FlagIsCurrent' /\ GrantIsCurrent'
  <2>1. OnePlace'
    BY <1>0, <1>2, <1>3 DEF OnePlace
  <2>2. PageWaits'
    BY <1>0, <1>2, <1>3 DEF PageWaits
  <2>3. \A i \in 1..Len(pipe') : pipe'[i].kind # "interrupted"
    BY <1>0, <1>3 DEF FlagIsCurrent, PageWaits
  <2>4. FlagIsCurrent' /\ GrantIsCurrent'
    BY <1>0, <1>3, <2>3 DEF FlagIsCurrent, GrantIsCurrent, PageTyped
  <2> QED
    BY <2>1, <2>2, <2>4
<1> QED
  BY <1>0, <1>1, <1>3

LEMMA FlowPump == ASSUME FlowInv, PumpTake PROVE FlowInv'
<1> USE DEF FlowInv
<1> DEFINE e == pipe[1]
<1>0. /\ pipe # <<>> /\ pipe' = Tail(pipe)
      /\ busy' = (busy /\ ~UnlocksInput(Head(pipe)))
      /\ stopping' = (stopping /\ ~UnlocksInput(Head(pipe)))
      /\ grant' = IF RevokesGrant(Head(pipe)) THEN 0 ELSE grant
      /\ interrupt' = (interrupt /\ ~(stopping /\ EndedUnstopped(Head(pipe))))
      /\ UNCHANGED <<phase, event, events, emitted, query, sent, stopped>>
      /\ UNCHANGED <<outbox, overlap, clearing>>
  BY DEF PumpTake, inner, host, tasks, session
<1>a. /\ pipe' \in Seq(PipeEvent) /\ Len(pipe') = Len(pipe) - 1 /\ Len(pipe) \in Nat
      /\ Len(pipe) > 0 /\ Head(pipe) = e /\ e \in PipeEvent
      /\ \A i \in 1..Len(pipe') : pipe'[i] = pipe[i + 1]
  BY <1>0, TailShape DEF PageTyped
<1> HIDE DEF e
<1>b. /\ busy' = (busy /\ ~UnlocksInput(e)) /\ stopping' = (stopping /\ ~UnlocksInput(e))
      /\ interrupt' = (interrupt /\ ~(stopping /\ EndedUnstopped(e)))
      /\ grant' = IF UnlocksInput(e) THEN 0 ELSE grant
  BY <1>0, <1>a, EndFacts
<1>1. PageTyped'
  <2>1. {busy', stopping', interrupt'} \subseteq BOOLEAN
    BY <1>b
  <2>2. grant' \in Nat
    BY <1>b DEF PageTyped
  <2> QED
    BY <1>0, <1>a, <2>1, <2>2 DEF PageTyped
<1>2. /\ Unsent' = Unsent /\ Queued' = Queued /\ Observed' = Observed /\ Answering' = Answering
  BY <1>0 DEF Unsent, Queued, Observed, Answering
<1>3. ASSUME ~overlap PROVE OnePlace' /\ PageWaits' /\ FlagIsCurrent' /\ GrantIsCurrent'
  <2>0. OnePlace /\ PageWaits /\ FlagIsCurrent /\ GrantIsCurrent
    BY <1>3
  <2>1. CASE UnlocksInput(e)
    <3>1. Len(pipe) = 1 /\ Ended
      <4>1. 1 \in 1..Len(pipe) /\ UnlocksInput(pipe[1])
        BY <1>a, <2>1 DEF e
      <4> QED
        BY <4>1, <2>0 DEF OnePlace, Ended
    <3>2. 1..Len(pipe') = {} /\ ~Ended'
      BY <3>1, <1>a DEF Ended
    <3>3. ~Unsent' /\ ~Queued' /\ ~Observed' /\ ~Answering'
      BY <3>1, <2>0, <1>2 DEF OnePlace
    <3>4. ~busy' /\ ~stopping' /\ grant' = 0
      BY <1>b, <2>1
    <3>5. ~interrupt'
      <4> SUFFICES ASSUME interrupt PROVE stopping /\ EndedUnstopped(e)
        BY <1>b
      <4>1. stopping /\ e.kind # "interrupted"
        BY <2>0, <1>a DEF FlagIsCurrent, e
      <4> QED
        BY <4>1, <1>a, <2>1, EndOrStop
    <3>6. OnePlace'
      BY <3>2, <3>3, <2>0, <1>0 DEF OnePlace
    <3>7. PageWaits'
      BY <3>2, <3>3, <3>4 DEF PageWaits, Open
    <3>8. FlagIsCurrent' /\ GrantIsCurrent'
      BY <3>2, <3>4, <3>5, <2>0, <1>0 DEF FlagIsCurrent, GrantIsCurrent
    <3> QED
      BY <3>6, <3>7, <3>8
  <2>2. CASE ~UnlocksInput(e)
    <3>1. ~EndedUnstopped(e)
      BY <2>2 DEF UnlocksInput, EndedUnstopped
    <3>2. busy' = busy /\ stopping' = stopping /\ interrupt' = interrupt /\ grant' = grant
      BY <3>1, <2>2, <1>b DEF PageTyped
    <3>3. Ended' = Ended
      <4>1. ASSUME Ended PROVE Ended'
        <5>1. PICK i \in 1..Len(pipe) : UnlocksInput(pipe[i])
          BY <4>1 DEF Ended
        <5>2. i # 1
          BY <5>1, <2>2 DEF e
        <5>3. i - 1 \in 1..Len(pipe') /\ pipe'[i - 1] = pipe[i]
          BY <5>2, <1>a
        <5> QED
          BY <5>1, <5>3 DEF Ended
      <4>2. ASSUME Ended' PROVE Ended
        <5>1. PICK i \in 1..Len(pipe') : UnlocksInput(pipe'[i])
          BY <4>2 DEF Ended
        <5>2. i + 1 \in 1..Len(pipe) /\ pipe'[i] = pipe[i + 1]
          BY <1>a
        <5> QED
          BY <5>1, <5>2 DEF Ended
      <4>3. Ended \in BOOLEAN /\ Ended' \in BOOLEAN
        BY DEF Ended
      <4> QED
        BY <4>1, <4>2, <4>3
    <3>4. \A i \in 1..Len(pipe') : UnlocksInput(pipe'[i]) => i = Len(pipe')
      <4> SUFFICES ASSUME NEW i \in 1..Len(pipe'), UnlocksInput(pipe'[i]) PROVE i = Len(pipe')
        OBVIOUS
      <4>1. i + 1 \in 1..Len(pipe) /\ pipe'[i] = pipe[i + 1]
        BY <1>a
      <4>2. i + 1 = Len(pipe)
        BY <4>1, <2>0 DEF OnePlace
      <4> QED
        BY <4>2, <1>a
    <3>5. \A i \in 1..Len(pipe') : pipe'[i].kind = "interrupted" => stopping /\ ~interrupt
      <4> SUFFICES ASSUME NEW i \in 1..Len(pipe'), pipe'[i].kind = "interrupted"
                   PROVE  stopping /\ ~interrupt
        OBVIOUS
      <4>1. i + 1 \in 1..Len(pipe) /\ pipe'[i] = pipe[i + 1]
        BY <1>a
      <4> QED
        BY <4>1, <2>0 DEF FlagIsCurrent
    <3>6. OnePlace'
      BY <3>3, <3>4, <2>0, <1>0, <1>2 DEF OnePlace
    <3>7. PageWaits'
      BY <3>2, <3>3, <2>0, <1>0, <1>2 DEF PageWaits, Open
    <3>8. FlagIsCurrent' /\ GrantIsCurrent'
      BY <3>2, <3>5, <2>0, <1>0 DEF FlagIsCurrent, GrantIsCurrent
    <3> QED
      BY <3>6, <3>7, <3>8
  <2> QED
    BY <2>1, <2>2
<1> QED
  BY <1>0, <1>1, <1>3

LEMMA FlowCommit == ASSUME FlowInv, ClearCommit PROVE FlowInv'
<1> USE DEF FlowInv
<1>0. /\ clearing = "deleted" /\ clearing' = "no" /\ busy' = FALSE /\ stopping' = FALSE
      /\ events' = Append(events, [kind |-> "clear", n |-> sent])
      /\ UNCHANGED <<phase, event, interrupt, emitted, query, sent, stopped>>
      /\ UNCHANGED <<pipe, outbox, overlap, grant>>
  BY DEF ClearCommit, inner, host, tasks, asks
<1> DEFINE m == [kind |-> "clear", n |-> sent]
<1>a. m \in HostEvent /\ m.kind # "user"
  BY DEF PageTyped, HostEvent
<1> HIDE DEF m
<1>b. /\ events' \in Seq(HostEvent) /\ Len(events') = Len(events) + 1 /\ Len(events) \in Nat
      /\ events'[Len(events) + 1] = m /\ \A i \in 1..Len(events) : events'[i] = events[i]
  <2>1. events' = Append(events, m) /\ events \in Seq(HostEvent)
    BY <1>0 DEF PageTyped, m
  <2> QED
    BY <2>1, <1>a, AppendShape
<1>1. PageTyped'
  BY <1>0, <1>b DEF PageTyped
<1>2. ASSUME ~overlap PROVE OnePlace' /\ PageWaits' /\ FlagIsCurrent' /\ GrantIsCurrent'
  <2>0. /\ OnePlace /\ PageWaits /\ FlagIsCurrent /\ GrantIsCurrent /\ ~Open /\ ~interrupt
        /\ grant = 0 /\ ~busy /\ ~stopping
    BY <1>2, <1>0 DEF PageWaits, FlagIsCurrent, GrantIsCurrent
  <2>1. /\ ~Unsent' /\ ~Observed' /\ ~Answering' /\ ~Ended' /\ ~Queued
    BY <2>0, <1>0 DEF Open, Unsent, Queued, Observed, Answering, Ended
  <2>2. \A i \in 1..Len(events') : events'[i].kind # "user"
    BY <2>1, <1>a, <1>b DEF Queued
  <2>3. ~Queued'
    BY <2>2 DEF Queued
  <2>4. OnePlace'
    BY <2>0, <2>1, <2>2, <2>3, <1>0 DEF OnePlace
  <2>5. PageWaits'
    BY <2>1, <2>3, <1>0 DEF PageWaits, Open
  <2>6. FlagIsCurrent' /\ GrantIsCurrent'
    <3>1. \A i \in 1..Len(pipe) : pipe[i].kind # "interrupted"
      BY <2>0 DEF FlagIsCurrent
    <3> QED
      BY <2>0, <3>1, <1>0 DEF FlagIsCurrent, GrantIsCurrent
  <2> QED
    BY <2>4, <2>5, <2>6
<1> QED
  BY <1>0, <1>1, <1>2

LEMMA FlowStep ==
    ASSUME FlowInv, KernelInv, [ChatNext]_chatVars
    PROVE  FlowInv'
<1> USE DEF inner, host, view, tasks, store, session, asks, kernelVars, chatPage
<1>1. CASE UNCHANGED chatVars
  <2>1. ~overlap /\ clearing # "no" => ~Open
    BY DEF FlowInv, PageWaits
  <2> QED
    BY <1>1, <2>1, FlowStays DEF chatVars
<1>2. CASE Kernel \/ KernelBatchDone
  BY <1>2, FlowKernel DEF Kernel, KernelBatchDone
<1>3. CASE AskUser \/ CreateSkill \/ OnSkill \/ AnswerDialog \/ SkillDropped \/ DialogPump
           \/ PumpLock \/ PumpSaved
  <2>1. ~overlap /\ clearing # "no" => ~Open
    BY DEF FlowInv, PageWaits
  <2>2. /\ UNCHANGED <<phase, event, interrupt, events, emitted, query, sent, stopped>>
        /\ UNCHANGED <<busy, stopping, outbox, pipe, overlap, clearing>>
        /\ grant' = grant \/ grant' = 0
    BY <1>3 DEF AskUser, CreateSkill, OnSkill, AnswerDialog, SkillDropped, DialogPump, PumpLock,
                PumpSaved
  <2> QED
    BY <2>1, <2>2, FlowStays
<1>4. CASE OnClear \/ ClearLock \/ ClearFails \/ ClearDelete
  <2>1. ~overlap /\ clearing' # "no" => ~Open
    BY <1>4, ComposerOpen DEF FlowInv, PageWaits, OnClear, ClearLock, ClearFails, ClearDelete
  <2>2. /\ UNCHANGED <<phase, event, interrupt, events, emitted, query, sent, stopped>>
        /\ UNCHANGED <<busy, stopping, outbox, pipe, overlap, grant>>
    BY <1>4 DEF OnClear, ClearLock, ClearFails, ClearDelete
  <2> QED
    BY <2>1, <2>2, FlowStays
<1>5. CASE OnSend(TRUE) \/ OnSend(FALSE)
  BY <1>5, FlowSend
<1>6. CASE SendTask \/ SkillLoaded \/ OnInterrupt \/ PumpTake \/ ClearCommit
  BY <1>6, FlowSendTask, FlowSkill, FlowInterrupt, FlowPump, FlowCommit
<1> QED
  BY <1>1, <1>2, <1>3, <1>4, <1>5, <1>6 DEF ChatNext, User, PageTasks

-----------------------------------------------------------------------------
(* What the page can count on.                                             *)

\* The page does to the kernel what any host may do, except that it lowers the
\* flag; the kernel's conversation does not notice.
LEMMA KernelStep ==
    ASSUME KernelInv, [ChatNext]_chatVars
    PROVE  KernelInv'
<1> USE DEF inner, host, view, tasks, store, session, asks, kernelVars, chatPage
<1>1. CASE Kernel \/ KernelBatchDone
  <2>1. KernelNext
    BY <1>1 DEF Kernel, KernelBatchDone, KernelNext
  <2> QED
    BY <2>1, KernelNextInv
<1>2. CASE UNCHANGED <<phase, turn, conv, batch, summary>>
  BY <1>2, MovesKeep DEF Moves, KernelInv, LoopTyped
<1>3. CASE AskUser \/ CreateSkill \/ OnSkill \/ AnswerDialog \/ SkillDropped \/ DialogPump
           \/ PumpLock \/ PumpSaved \/ OnClear \/ ClearLock \/ ClearFails \/ ClearDelete
  <2>1. UNCHANGED <<phase, turn, conv, batch, summary>>
    BY <1>3 DEF AskUser, CreateSkill, OnSkill, AnswerDialog, SkillDropped, DialogPump, PumpLock,
                PumpSaved, OnClear, ClearLock, ClearFails, ClearDelete
  <2> QED
    BY <2>1, <1>2
<1>4. CASE OnSend(TRUE) \/ OnSend(FALSE) \/ SendTask \/ SkillLoaded \/ OnInterrupt \/ PumpTake
           \/ ClearCommit
  <2>1. UNCHANGED <<phase, turn, conv, batch, summary>>
    BY <1>4 DEF OnSend, SendTask, SkillLoaded, OnInterrupt, PumpTake, ClearCommit
  <2> QED
    BY <2>1, <1>2
<1>5. CASE UNCHANGED chatVars
  BY <1>2, <1>5 DEF chatVars
<1> QED
  BY <1>1, <1>3, <1>4, <1>5 DEF ChatNext, User, PageTasks

LEMMA ChatIsSound == ChatSpec => [](KernelInv /\ FlowInv)
<1>1. ChatInit => KernelInv /\ FlowInv
  BY KernelInitInv, FlowInit DEF ChatInit
<1>2. KernelInv /\ FlowInv /\ [ChatNext]_chatVars => (KernelInv /\ FlowInv)'
  BY KernelStep, FlowStep
<1> QED
  BY <1>1, <1>2, PTL DEF ChatSpec

\* The Stop button hits the query that the page shows and no other, for any
\* number of messages, Stops and clears: the flag of a Stop that came too late is
\* lowered before the next message can be sent (on_interrupt, the stream pump).
THEOREM StopsHitTheirQuery == ChatSpec => []StopHitsShownQuery
<1>1. FlowInv => StopHitsShownQuery
  BY DEF FlowInv, FlagIsCurrent, StopHitsShownQuery, StopHitsItsQuery
<1> QED
  BY <1>1, ChatIsSound, PTL

\* A grant of /skill-create is used by the query of that command or not at all.
THEOREM GrantsStayInTheirTurn == ChatSpec => GrantStaysInItsTurn
<1> DEFINE Used == (CreateSkill /\ ~overlap) => query = grant
<1>1. FlowInv => Used
  <2> SUFFICES ASSUME FlowInv, CreateSkill, ~overlap PROVE query = grant
    OBVIOUS
  <2>1. Answering /\ grant # 0
    BY DEF CreateSkill, Answering, Executing
  <2> QED
    BY <2>1 DEF FlowInv, OnePlace, GrantIsCurrent
<1> QED
  BY <1>1, ChatIsSound, PTL DEF GrantStaysInItsTurn

-----------------------------------------------------------------------------
(* Counting the messages of the user.                                      *)

IsPrompt(m) == m.role = "user" /\ m.text
Texts(c) == {i \in 1..Len(c) : c[i].role = "user" /\ c[i].text}

LEMMA TextsCounted ==
    ASSUME NEW c \in Seq(Written)
    PROVE  /\ IsFiniteSet(Texts(c)) /\ Texts(c) \subseteq 1..Len(c) /\ Len(c) \in Nat
           /\ UserTexts(c) = Cardinality(Texts(c)) /\ UserTexts(c) \in Nat
<1>1. Texts(c) \subseteq 1..Len(c) /\ Texts(c) \subseteq DOMAIN c /\ Len(c) \in Nat
  BY DEF Texts
<1>2. IsFiniteSet(Texts(c))
  BY <1>1, WrittenMessages, PlacesFinite
<1>3. UserTexts(c) = Cardinality(Texts(c))
  BY DEF UserTexts, Texts
<1> QED
  BY <1>1, <1>2, <1>3, FS_CardinalityType

LEMMA NoTexts == UserTexts(<<>>) = 0
<1>1. Texts(<<>>) = {}
  BY DEF Texts
<1> QED
  BY <1>1, FS_EmptySet DEF UserTexts, Texts

LEMMA TextAppended ==
    ASSUME NEW c \in Seq(Written), NEW m \in Written
    PROVE  UserTexts(Append(c, m)) = UserTexts(c) + IF IsPrompt(m) THEN 1 ELSE 0
<1> DEFINE d == Append(c, m)
           n == Len(c) + 1
<1>1. /\ d \in Seq(Written) /\ Len(d) = n /\ Len(c) \in Nat /\ d[n] = m
      /\ \A i \in 1..Len(c) : d[i] = c[i]
  BY AppendShape
<1> HIDE DEF d
<1>2. IsFiniteSet(Texts(c)) /\ UserTexts(c) = Cardinality(Texts(c)) /\ UserTexts(c) \in Nat
  BY TextsCounted
<1>3. UserTexts(d) = Cardinality(Texts(d))
  BY <1>1, TextsCounted
<1>4. n \notin Texts(c)
  BY <1>1 DEF Texts
<1>5. CASE IsPrompt(m)
  <2>1. Texts(d) = Texts(c) \cup {n}
    BY <1>1, <1>5 DEF Texts, IsPrompt
  <2> QED
    <3>1. Cardinality(Texts(c) \cup {n}) = Cardinality(Texts(c)) + 1
      BY <1>2, <1>4, FS_AddElement
    <3> QED
      BY <2>1, <3>1, <1>2, <1>3, <1>5 DEF d
<1>6. CASE ~IsPrompt(m)
  <2>1. Texts(d) = Texts(c)
    BY <1>1, <1>6 DEF Texts, IsPrompt
  <2> QED
    BY <2>1, <1>2, <1>3, <1>6 DEF d
<1> QED
  BY <1>5, <1>6

\* A history that shows each message of the user of another one once at most.
LEMMA TextsEmbedded ==
    ASSUME NEW c \in Seq(Written), NEW d \in Seq(Written), NEW f \in [Texts(d) -> Texts(c)],
           \A i, j \in Texts(d) : f[i] = f[j] => i = j
    PROVE  UserTexts(d) <= UserTexts(c)
<1>1. f \in Injection(Texts(d), Texts(c))
  BY DEF Injection, IsInjective
<1>2. Cardinality(Texts(d)) <= Cardinality(Texts(c))
  BY <1>1, TextsCounted, FS_Injection
<1> QED
  BY <1>2, TextsCounted

-----------------------------------------------------------------------------
(* Sanitizing and compacting add no message of the user.                   *)

\* The state of the scan after the first k messages.
ScanCounts(acc, k, c) ==
    ScanState(acc, k, c, FALSE) /\ UserTexts(acc.out) <= UserTexts(SubSeq(c, 1, k))

LEMMA OutWritten ==
    ASSUME NEW acc, NEW k, NEW c, ScanState(acc, k, c, FALSE)
    PROVE  /\ acc.out \in Seq(Written)
           /\ acc.pending # {} =>
                 \E s \in Seq(Written) : /\ RemoveAt(acc.out, acc.at) = s
                                         /\ UserTexts(s) = UserTexts(acc.out)
<1>1. CASE acc.pending = {}
  BY <1>1 DEF ScanState, Paired
<1>2. CASE acc.pending # {}
  <2>1. PICK s, q : /\ Paired(s, FALSE) /\ q \in Written /\ q.uses = acc.pending
                    /\ acc.out = Append(s, q) /\ acc.at = Len(s) + 1
    BY <1>2 DEF ScanState
  <2>2. s \in Seq(Written) /\ ~IsPrompt(q)
    BY <1>2, <2>1, WrittenFields DEF Paired, IsPrompt
  <2>3. RemoveAt(acc.out, acc.at) = s
    BY <2>1, <2>2, TakenBack
  <2>4. UserTexts(s) = UserTexts(acc.out) /\ acc.out \in Seq(Written)
    <3>1. UserTexts(acc.out) = UserTexts(s) + 0 /\ UserTexts(s) \in Nat
      BY <2>1, <2>2, TextAppended, TextsCounted
    <3> QED
      BY <3>1, <2>1, <2>2, AppendShape
  <2> QED
    BY <2>2, <2>3, <2>4
<1> QED
  BY <1>1, <1>2

LEMMA CountStep ==
    ASSUME NEW c \in Seq(Written), NEW k \in 0..Len(c) - 1, NEW acc, ScanCounts(acc, k, c)
    PROVE  ScanCounts(SanitizeStep(acc, c[k + 1]), k + 1, c)
<1>a. k \in Nat /\ Len(c) \in Nat /\ k + 1 \in 1..Len(c)
  OBVIOUS
<1>0. k \in Nat /\ Len(c) \in Nat /\ k + 1 \in 1..Len(c) /\ ScanState(acc, k, c, FALSE)
  BY <1>a DEF ScanCounts
<1>s. ScanState(SanitizeStep(acc, c[k + 1]), k + 1, c, FALSE)
  BY <1>0, ScanStep
<1> DEFINE m == c[k + 1]
           old == UserTexts(SubSeq(c, 1, k))
           more == UserTexts(SubSeq(c, 1, k + 1))
<1>1. m \in Written
  BY <1>0
<1>2. /\ more = old + (IF IsPrompt(m) THEN 1 ELSE 0) /\ old \in Nat /\ UserTexts(acc.out) <= old
      /\ UserTexts(acc.out) \in Nat /\ acc.out \in Seq(Written)
  <2>1. SubSeq(c, 1, k) \in Seq(Written)
    BY <1>0
  <2>2. more = UserTexts(Append(SubSeq(c, 1, k), m))
    BY PrefixGrows
  <2>3. acc.out \in Seq(Written) /\ UserTexts(acc.out) <= old
    BY <1>0, OutWritten DEF ScanCounts
  <2> QED
    BY <2>1, <2>2, <2>3, <1>1, TextAppended, TextsCounted
<1> HIDE DEF m, old, more
<1> DEFINE covers == acc.pending # {} /\ m.role = "user" /\ acc.pending \subseteq m.results
           out == IF acc.pending # {} /\ ~covers THEN RemoveAt(acc.out, acc.at) ELSE acc.out
           orphaned == m.role = "user" /\ m.results # {} /\ ~covers
           kept == IF orphaned THEN [m EXCEPT !.results = {}] ELSE m
           stay == m.role = "assistant" /\ IsEffectivelyEmpty(m)
           lost == orphaned /\ IsEffectivelyEmpty(kept)
           new == [out |-> Append(out, kept),
                   pending |-> IF m.role = "assistant" THEN m.uses ELSE {},
                   at |-> Len(out) + 1]
<1>3. SanitizeStep(acc, m) = IF stay THEN acc
                             ELSE IF lost THEN [out |-> out, pending |-> {}, at |-> 0] ELSE new
  BY DEF SanitizeStep
<1>4. out \in Seq(Written) /\ UserTexts(out) <= old /\ UserTexts(out) \in Nat
  <2>1. CASE acc.pending # {} /\ ~covers
    <3>1. PICK s \in Seq(Written) : RemoveAt(acc.out, acc.at) = s /\ UserTexts(s) = UserTexts(acc.out)
      BY <2>1, <1>0, OutWritten
    <3> QED
      BY <2>1, <3>1, <1>2
  <2>2. CASE ~(acc.pending # {} /\ ~covers)
    BY <2>2, <1>2
  <2> QED
    BY <2>1, <2>2
<1>5. kept \in Written /\ (IsPrompt(kept) <=> IsPrompt(m))
  <2>1. CASE orphaned
    <3>1. kept = [m EXCEPT !.results = {}]
      BY <2>1
    <3> HIDE DEF kept
    <3> QED
      BY <3>1, <2>1, <1>1 DEF Written, Message, IsPrompt
  <2>2. CASE ~orphaned
    BY <2>2, <1>1
  <2> QED
    BY <2>1, <2>2
<1> HIDE DEF out, kept
<1>6. UserTexts(Append(out, kept)) <= more
  <2>1. UserTexts(Append(out, kept)) = UserTexts(out) + IF IsPrompt(m) THEN 1 ELSE 0
    BY <1>4, <1>5, TextAppended
  <2> QED
    BY <2>1, <1>2, <1>4
<1>7. old <= more
  BY <1>2
<1>8. UserTexts(SanitizeStep(acc, m).out) <= more
  <2>1. CASE stay
    BY <2>1, <1>2, <1>3, <1>7
  <2>2. CASE ~stay /\ lost
    BY <2>2, <1>2, <1>3, <1>4, <1>7
  <2>3. CASE ~stay /\ ~lost
    <3>1. SanitizeStep(acc, m).out = Append(out, kept)
      BY <2>3, <1>3
    <3> QED
      BY <3>1, <1>6
  <2> QED
    BY <2>1, <2>2, <2>3
<1> QED
  BY <1>s, <1>8 DEF ScanCounts, m, more

\* sanitize_conversation_messages adds no message of the user.
LEMMA SanitizeCounts ==
    ASSUME NEW c \in Seq(Written)
    PROVE  UserTexts(Sanitize(c)) <= UserTexts(c)
<1>a. c \in Seq(Message) /\ Len(c) \in Nat
  BY WrittenMessages
<1>1. PICK f : /\ f[0] = NothingYet
               /\ \A k \in 0..Len(c) - 1 : f[k + 1] = SanitizeStep(f[k], c[k + 1])
               /\ Sanitize(c) = Settle(f[Len(c)])
  BY <1>a, SanitizeScans
<1> DEFINE Bad == {k \in 0..Len(c) : ~ScanCounts(f[k], k, c)}
<1>2. Bad = {}
  <2> SUFFICES ASSUME Bad # {} PROVE FALSE
    OBVIOUS
  <2>1. PICK k \in Bad : \A j \in Bad : k <= j
    <3>1. Bad \subseteq Nat
      BY <1>a
    <3> HIDE DEF Bad
    <3> QED
      BY <3>1, LeastNumber
  <2>2. k # 0
    <3>1. ScanState(NothingYet, 0, c, FALSE)
      BY PairedNil DEF ScanState, NothingYet
    <3>2. NothingYet.out = <<>> /\ SubSeq(c, 1, 0) = <<>>
      BY DEF NothingYet
    <3>3. UserTexts(NothingYet.out) = 0 /\ UserTexts(SubSeq(c, 1, 0)) = 0
      BY <3>2, NoTexts
    <3> QED
      BY <3>1, <3>3, <1>1, <2>1 DEF ScanCounts
  <2>3. k - 1 \in 0..Len(c) - 1 /\ (k - 1) + 1 = k /\ k - 1 \notin Bad
    BY <2>1, <2>2, <1>a
  <2>4. ScanCounts(f[k - 1], k - 1, c)
    BY <2>3, <1>a
  <2>5. ScanCounts(SanitizeStep(f[k - 1], c[(k - 1) + 1]), (k - 1) + 1, c)
    <3> HIDE DEF Bad
    <3> QED
      BY <2>3, <2>4, CountStep
  <2>6. f[(k - 1) + 1] = SanitizeStep(f[k - 1], c[(k - 1) + 1])
    BY <2>3, <1>1
  <2> QED
    BY <2>3, <2>5, <2>6
<1> DEFINE acc == f[Len(c)]
<1>3. ScanCounts(acc, Len(c), c)
  BY <1>2, <1>a
<1>4. SubSeq(c, 1, Len(c)) = c
  BY <1>a
<1> HIDE DEF acc, Bad
<1>5. UserTexts(acc.out) <= UserTexts(c) /\ ScanState(acc, Len(c), c, FALSE)
  BY <1>3, <1>4 DEF ScanCounts
<1>6. Sanitize(c) = IF acc.pending # {} THEN RemoveAt(acc.out, acc.at) ELSE acc.out
  BY <1>1 DEF acc, Settle
<1>7. CASE acc.pending # {}
  BY <1>5, <1>6, <1>7, OutWritten
<1>8. CASE acc.pending = {}
  BY <1>5, <1>6, <1>8
<1> QED
  BY <1>7, <1>8

\* A paired history is only cut: sanitizing the newer part changes nothing.
LEMMA SplitWhole ==
    ASSUME NEW c, Paired(c, TRUE), NEW keep \in Nat \ {0}
    PROVE  \E cut \in 0..Len(c) :
              /\ Split(c, keep).older = SubSeq(c, 1, cut)
              /\ Split(c, keep).newer = SubSeq(c, cut + 1, Len(c))
<1>a. c \in Seq(Written) /\ WellPaired(c) /\ Covered(c) /\ Len(c) \in Nat
  BY PairedIsTidy DEF WellPaired
<1>1. PICK cut \in 0..Len(c) :
         /\ Split(c, keep).older = SubSeq(c, 1, cut)
         /\ Split(c, keep).newer = Sanitize(SubSeq(c, cut + 1, Len(c)))
         /\ cut # 0 => cut < Len(c) /\ ~BoundaryCrossesToolPair(c[cut], c[cut + 1])
  BY CutShape
<1>2. cut + 1 \in 1..Len(c) + 1 /\ Len(c) \in (cut + 1) - 1..Len(c) /\ cut \in Nat
  BY <1>a
<1>3. Len(c) >= cut + 1 => c[cut + 1].results = {}
  <2> SUFFICES ASSUME Len(c) >= cut + 1, c[cut + 1].results # {} PROVE FALSE
    OBVIOUS
  <2>1. cut + 1 \in 1..Len(c) /\ (cut + 1) - 1 = cut
    BY <1>2
  <2>2. cut + 1 > 1 /\ c[cut].uses # {}
    BY <2>1, <1>a DEF Covered
  <2>3. cut # 0 /\ cut \in 1..Len(c)
    BY <2>2, <1>2, <1>a
  <2>4. /\ c[cut + 1].role = "user" /\ c[cut].uses \subseteq c[cut + 1].results
        /\ c[cut].role = "assistant"
    BY <2>2, <2>3, <1>a, WrittenFields DEF Covered
  <2> QED
    BY <1>1, <2>2, <2>3, <2>4 DEF BoundaryCrossesToolPair
<1>4. Len(c) >= cut + 1 => c[Len(c)].uses = {}
  <2>1. Len(c) >= cut + 1 => Len(c) > 0
    BY <1>a, <1>2
  <2> QED
    BY <2>1, PairedIsTidy
<1>5. Paired(SubSeq(c, cut + 1, Len(c)), TRUE)
  BY <1>2, <1>3, <1>4, PiecePaired
<1> QED
  BY <1>1, <1>5, PairedLoosely, SanitizeKeeps

LEMMA NewerPart ==
    ASSUME NEW c \in Seq(Written), NEW cut \in Nat, cut <= Len(c)
    PROVE  /\ SubSeq(c, cut + 1, Len(c)) \in Seq(Written)
           /\ Len(SubSeq(c, cut + 1, Len(c))) = Len(c) - cut
           /\ \A j \in 1..Len(c) - cut : SubSeq(c, cut + 1, Len(c))[j] = c[cut + j]
<1>1. Len(c) \in Nat /\ cut + 1 \in 1..Len(c) + 1 /\ Len(c) \in (cut + 1) - 1..Len(c)
  OBVIOUS
<1>2. Len(c) - (cut + 1) + 1 = Len(c) - cut /\ \A j \in 1..Len(c) - cut : cut + 1 + j - 1 = cut + j
  BY <1>1
<1> DEFINE t == SubSeq(c, cut + 1, Len(c))
<1>3. /\ t \in Seq(Written) /\ Len(t) = Len(c) - (cut + 1) + 1
      /\ \A j \in 1..Len(c) - (cut + 1) + 1 : t[j] = c[cut + 1 + j - 1]
  BY <1>1, PieceShape
<1> HIDE DEF t
<1>4. \A j \in 1..Len(c) - cut : t[j] = c[cut + j]
  BY <1>2, <1>3
<1> QED
  BY <1>2, <1>3, <1>4 DEF t

LEMMA CollapseWhole ==
    ASSUME NEW c, Paired(c, TRUE), NEW keep \in Nat \ {0}
    PROVE  ContextCollapse(c, keep) = c
<1>1. PICK cut \in 0..Len(c) : /\ Split(c, keep).older = SubSeq(c, 1, cut)
                               /\ Split(c, keep).newer = SubSeq(c, cut + 1, Len(c))
  BY SplitWhole
<1>2. c \in Seq(Written) /\ Len(c) \in Nat /\ cut \in Nat /\ cut <= Len(c)
  BY DEF Paired
<1> DEFINE s == SubSeq(c, 1, cut)
           u == SubSeq(c, cut + 1, Len(c))
           t == s \o u
<1>a. s \in Seq(Written) /\ Len(s) = cut /\ \A j \in 1..cut : s[j] = c[j]
  BY <1>2
<1>b. u \in Seq(Written) /\ Len(u) = Len(c) - cut /\ \A j \in 1..Len(c) - cut : u[j] = c[cut + j]
  BY <1>2, NewerPart
<1> HIDE DEF s, u
<1>c. /\ t \in Seq(Written) /\ Len(t) = Len(s) + Len(u)
      /\ \A i \in 1..Len(s) : t[i] = s[i]
      /\ \A i \in 1..Len(u) : t[Len(s) + i] = u[i]
  BY <1>a, <1>b, JoinShape
<1> HIDE DEF t
<1>d. Len(t) = Len(c) /\ \A i \in 1..Len(c) : t[i] = c[i]
  <2>1. Len(t) = Len(c)
    BY <1>a, <1>b, <1>c, <1>2
  <2>2. ASSUME NEW i \in 1..Len(c) PROVE t[i] = c[i]
    <3>1. CASE i <= cut
      BY <3>1, <1>a, <1>c, <1>2
    <3>2. CASE i > cut
      <4>1. i - cut \in 1..Len(c) - cut /\ cut + (i - cut) = i
        BY <3>2, <1>2
      <4>2. PICK k \in 1..Len(c) - cut : cut + k = i
        BY <4>1
      <4>3. t[Len(s) + k] = u[k]
        BY <1>b, <1>c
      <4> QED
        BY <4>2, <4>3, <1>a, <1>b
    <3> QED
      BY <3>1, <3>2, <1>2
  <2> QED
    BY <2>1, <2>2
<1>3. t = c
  BY <1>c, <1>d, <1>2
<1> QED
  BY <1>1, <1>3 DEF ContextCollapse, t, s, u

\* Condensing puts one message in the place of the older part, which began with
\* one.
LEMMA CondenseCounts ==
    ASSUME NEW c, Paired(c, TRUE), NEW keep \in Nat \ {0},
           Split(c, keep).older # <<>>, c[1] = UserText
    PROVE  /\ UserTexts(Condense(c, keep)) <= UserTexts(c)
           /\ Condense(c, keep) # <<>> /\ Condense(c, keep)[1] = UserText
<1>1. PICK cut \in 0..Len(c) : /\ Split(c, keep).older = SubSeq(c, 1, cut)
                               /\ Split(c, keep).newer = SubSeq(c, cut + 1, Len(c))
  BY SplitWhole
<1>2. c \in Seq(Written) /\ Len(c) \in Nat
  BY DEF Paired
<1>3. cut # 0 /\ cut \in 1..Len(c)
  <2>1. SubSeq(c, 1, 0) = <<>>
    BY <1>2
  <2> QED
    BY <2>1, <1>1, <1>2
<1> DEFINE u == SubSeq(c, cut + 1, Len(c))
           d == <<UserText>> \o u
<1>4. Condense(c, keep) = d
  <2>1. Paired(d, TRUE)
    BY <1>1, SplitPaired, UserTextPaired, ConcatPaired
  <2>2. Sanitize(d) = d
    BY <2>1, PairedLoosely, SanitizeKeeps
  <2> QED
    BY <2>2, <1>1 DEF Condense
<1>5. /\ u \in Seq(Written) /\ Len(u) = Len(c) - cut
      /\ \A j \in 1..Len(u) : u[j] = c[cut + j]
  <2>1. cut \in Nat /\ cut <= Len(c)
    BY <1>2, <1>3
  <2> QED
    BY <2>1, <1>2, NewerPart
<1> HIDE DEF u
<1>6. /\ d \in Seq(Written) /\ Len(d) = 1 + Len(u) /\ d[1] = UserText
      /\ \A j \in 1..Len(u) : d[1 + j] = u[j]
  <2>1. <<UserText>> \in Seq(Written) /\ Len(<<UserText>>) = 1 /\ <<UserText>>[1] = UserText
    BY UserTextIsWritten
  <2> HIDE DEF d
  <2>2. d = <<UserText>> \o u
    BY DEF d
  <2> QED
    BY <2>1, <2>2, <1>5, JoinShape
<1> HIDE DEF d
<1>7. UserTexts(d) <= UserTexts(c)
  <2> DEFINE f == [i \in Texts(d) |-> IF i = 1 THEN 1 ELSE cut + (i - 1)]
  <2>1. ASSUME NEW i \in Texts(d), i # 1
        PROVE  cut + (i - 1) \in Texts(c) /\ cut + (i - 1) > 1 /\ i \in Nat
    <3>1. i \in 1..Len(d) /\ d[i].role = "user" /\ d[i].text
      BY DEF Texts
    <3>2. i - 1 \in 1..Len(u) /\ 1 + (i - 1) = i
      BY <3>1, <2>1, <1>5, <1>6, <1>2, <1>3
    <3>3. d[i] = c[cut + (i - 1)]
      BY <3>2, <1>5, <1>6
    <3>4. cut + (i - 1) \in 1..Len(c) /\ cut + (i - 1) > 1
      BY <3>2, <1>5, <1>2, <1>3
    <3> QED
      BY <3>1, <3>3, <3>4 DEF Texts
  <2>2. 1 \in Texts(c)
    <3>1. UserText.role = "user" /\ UserText.text
      BY DEF UserText
    <3>2. 1 \in 1..Len(c)
      BY <1>2, <1>3
    <3> QED
      BY <3>1, <3>2 DEF Texts
  <2>3. f \in [Texts(d) -> Texts(c)]
    BY <2>1, <2>2
  <2>4. \A i, j \in Texts(d) : f[i] = f[j] => i = j
    <3> SUFFICES ASSUME NEW i \in Texts(d), NEW j \in Texts(d), f[i] = f[j] PROVE i = j
      OBVIOUS
    <3>1. (IF i = 1 THEN 1 ELSE cut + (i - 1)) = IF j = 1 THEN 1 ELSE cut + (j - 1)
      OBVIOUS
    <3> HIDE DEF f
    <3>2. cut \in Nat /\ i \in Nat /\ j \in Nat
      BY <1>3 DEF Texts
    <3>3. i # 1 => cut + (i - 1) > 1
      BY <2>1
    <3>4. j # 1 => cut + (j - 1) > 1
      BY <2>1
    <3> QED
      BY <3>1, <3>2, <3>3, <3>4
  <2> HIDE DEF f
  <2> QED
    BY <2>3, <2>4, <1>2, <1>6, TextsEmbedded
<1> QED
  BY <1>4, <1>6, <1>7

-----------------------------------------------------------------------------
(* The kernel's context after a clear.                                     *)

\* It begins with a prompt and is paired, except for calls that are being run.
ConvRooted ==
    /\ conv # <<>> => conv[1] = UserText
    /\ phase \notin {"executing", "dispatching"} => Paired(conv, TRUE)
    /\ phase = "summarizing" => Split(conv, PreserveRecent).older # <<>>
    /\ Answering => conv # <<>>

\* A message behind the others leaves the first in its place.
LEMMA RootStays ==
    ASSUME NEW c \in Seq(Written), NEW m \in Written, c # <<>> => c[1] = UserText,
           c # <<>> \/ m = UserText
    PROVE  Append(c, m) # <<>> /\ Append(c, m)[1] = UserText
<1> DEFINE d == Append(c, m)
<1>1. /\ d \in Seq(Written) /\ Len(d) = Len(c) + 1 /\ Len(c) \in Nat /\ d[Len(c) + 1] = m
      /\ \A i \in 1..Len(c) : d[i] = c[i]
  BY AppendShape
<1> HIDE DEF d
<1>2. d # <<>>
  BY <1>1
<1>3. CASE c = <<>>
  <2>1. Len(c) + 1 = 1
    BY <1>3
  <2> QED
    BY <1>1, <1>2, <1>3, <2>1 DEF d
<1>4. CASE c # <<>>
  <2>1. 1 \in 1..Len(c)
    BY <1>1, <1>4
  <2> QED
    BY <1>1, <1>2, <1>4, <2>1 DEF d
<1> QED
  BY <1>3, <1>4

LEMMA RootedStays ==
    ASSUME ConvRooted, UNCHANGED conv,
           phase \in {"executing", "dispatching"} => phase' \in {"executing", "dispatching"},
           phase' = "summarizing" => phase = "summarizing", Answering' => Answering
    PROVE  ConvRooted' /\ UserTexts(conv') = UserTexts(conv)
BY DEF ConvRooted

LEMMA CompactRooted ==
    ASSUME KernelInv, ConvRooted, CompactLocally \/ CompactBySummary \/ SummaryDone
    PROVE  ConvRooted' /\ UserTexts(conv') <= UserTexts(conv)
<1>a. PreserveRecent \in Nat \ {0} /\ MemoryKeepRecent \in Nat \ {0}
  BY KernelAssumption
<1>b. Paired(conv, TRUE) /\ conv \in Seq(Written) /\ UserTexts(conv) \in Nat /\ conv # <<>>
  <2>1. Paired(conv, TRUE) /\ conv # <<>>
    BY DEF CompactLocally, CompactBySummary, SummaryDone, ConvRooted, Answering, Querying
  <2>2. conv \in Seq(Written)
    BY <2>1 DEF Paired
  <2> QED
    BY <2>1, <2>2, TextsCounted
<1>c. ASSUME NEW c \in Collapsed(conv) PROVE c = conv
  <2>1. c = conv \/ c = ContextCollapse(conv, PreserveRecent)
    BY DEF Collapsed
  <2> QED
    BY <2>1, <1>a, <1>b, CollapseWhole
<1>d. ASSUME NEW keep \in Nat \ {0}, Split(conv, keep).older # <<>>,
             conv' = Condense(conv, keep), phase' = "opening"
      PROVE  ConvRooted' /\ UserTexts(conv') <= UserTexts(conv)
  <2>1. conv[1] = UserText
    BY <1>b DEF ConvRooted
  <2>2. UserTexts(conv') <= UserTexts(conv) /\ conv'[1] = UserText /\ conv' # <<>>
    BY <2>1, <1>b, <1>d, CondenseCounts
  <2>3. Paired(conv', TRUE)
    BY <1>b, <1>d, CondensePaired
  <2> QED
    BY <2>2, <2>3, <1>d DEF ConvRooted
<1>1. CASE CompactLocally
  <2> DEFINE keep == Max({PreserveRecent, MemoryKeepRecent})
  <2>1. keep \in Nat \ {0}
    BY <1>a, MinMaxOfTwo
  <2> HIDE DEF keep
  <2>2. conv' = conv \/ (CanCondense(conv, keep) /\ conv' = Condense(conv, keep))
    BY <1>1, <1>c DEF CompactLocally, keep
  <2>3. phase' = "opening"
    BY <1>1 DEF CompactLocally
  <2>4. CASE conv' = conv
    <3>1. ConvRooted' /\ UserTexts(conv') = UserTexts(conv)
      BY <2>3, <2>4, <1>b DEF ConvRooted
    <3> QED
      BY <3>1, <1>b
  <2>5. CASE CanCondense(conv, keep) /\ conv' = Condense(conv, keep)
    BY <2>1, <2>3, <2>5, <1>d DEF CanCondense
  <2> QED
    BY <2>2, <2>4, <2>5
<1>2. CASE CompactBySummary
  <2>1. /\ conv' = conv
        /\ phase' = IF Split(conv, PreserveRecent).older = <<>> THEN "opening" ELSE "summarizing"
    BY <1>2, <1>c DEF CompactBySummary
  <2>2. ConvRooted' /\ UserTexts(conv') = UserTexts(conv)
    BY <2>1, <1>b DEF ConvRooted
  <2> QED
    BY <2>2, <1>b
<1>3. CASE SummaryDone
  <2>1. Split(conv, PreserveRecent).older # <<>>
    BY <1>3 DEF SummaryDone, ConvRooted
  <2>2. conv' = Condense(conv, PreserveRecent) /\ phase' = "opening"
    BY <1>3 DEF SummaryDone
  <2> QED
    BY <2>1, <2>2, <1>a, <1>d
<1> QED
  BY <1>1, <1>2, <1>3

LEMMA AnswerRooted ==
    ASSUME KernelInv, ConvRooted,
           AnswerFinal \/ AnswerWithTools \/ BatchInterrupted \/ BatchDone
    PROVE  ConvRooted' /\ UserTexts(conv') <= UserTexts(conv)
<1>a. /\ conv \in Seq(Written) /\ batch \in SUBSET ToolIds /\ UserTexts(conv) \in Nat
      /\ conv # <<>>
  <2>1. conv # <<>>
    BY DEF ConvRooted, Answering, Querying, Executing, AnswerFinal, AnswerWithTools,
           BatchInterrupted, BatchDone
  <2> QED
    BY <2>1, TextsCounted DEF KernelInv, LoopTyped
<1>b. ASSUME NEW m \in Written, ~IsPrompt(m), conv' = Append(conv, m)
      PROVE  UserTexts(conv') <= UserTexts(conv) /\ conv'[1] = UserText /\ conv' # <<>>
  <2>1. UserTexts(conv') = UserTexts(conv) + 0
    BY <1>a, <1>b, TextAppended
  <2>2. conv'[1] = UserText /\ conv' # <<>>
    BY <1>a, <1>b, RootStays DEF ConvRooted
  <2> QED
    BY <2>1, <2>2, <1>a
<1>c. /\ ~IsPrompt(Answer(TRUE, {}))
      /\ \A ids \in SUBSET ToolIds : ~IsPrompt(Answer(FALSE, ids)) /\ ~IsPrompt(ToolResults(ids))
  BY DEF IsPrompt, Answer, ToolResults
<1>1. CASE AnswerFinal
  <2>1. conv' = Append(conv, Answer(TRUE, {})) /\ phase' \in {"stopHook", "idle"}
    BY <1>1 DEF AnswerFinal
  <2>2. Paired(conv, TRUE)
    BY <1>1 DEF AnswerFinal, ConvRooted
  <2>3. Paired(conv', TRUE)
    BY <2>1, <2>2, MessagesAreWritten, PairedAppend
  <2>4. UserTexts(conv') <= UserTexts(conv) /\ conv'[1] = UserText /\ conv' # <<>>
    BY <2>1, <1>b, <1>c, MessagesAreWritten
  <2> QED
    BY <2>1, <2>3, <2>4 DEF ConvRooted
<1>2. CASE AnswerWithTools
  <2>1. PICK ids \in SUBSET ToolIds : conv' = Append(conv, Answer(FALSE, ids))
    BY <1>2 DEF AnswerWithTools
  <2>2. phase' = "executing"
    BY <1>2 DEF AnswerWithTools
  <2>3. UserTexts(conv') <= UserTexts(conv) /\ conv'[1] = UserText /\ conv' # <<>>
    BY <2>1, <1>b, <1>c, MessagesAreWritten
  <2> QED
    BY <2>2, <2>3 DEF ConvRooted
<1>3. CASE BatchInterrupted \/ BatchDone
  <2>1. /\ conv' = Append(conv, ToolResults(batch)) /\ phase \in {"executing", "dispatching"}
        /\ phase' \in {"haltBatch", "idle", "querying"}
    BY <1>3 DEF BatchInterrupted, BatchDone
  <2>2. PICK s : Paired(s, TRUE) /\ conv = Append(s, Answer(FALSE, batch))
    BY <2>1 DEF KernelInv, BatchIsLast
  <2>3. Paired(conv', TRUE)
    BY <2>1, <2>2, <1>a, CallsMade DEF KernelInv
  <2>4. UserTexts(conv') <= UserTexts(conv) /\ conv'[1] = UserText /\ conv' # <<>>
    BY <2>1, <1>a, <1>b, <1>c, MessagesAreWritten
  <2> QED
    BY <2>1, <2>3, <2>4 DEF ConvRooted
<1> QED
  BY <1>1, <1>2, <1>3

\* A prompt adds itself.
LEMMA PromptRooted ==
    ASSUME KernelInv, ConvRooted, ObservePrompt, event.kind = "user"
    PROVE  ConvRooted' /\ UserTexts(conv') = UserTexts(conv) + 1
<1>1. Paired(conv, TRUE) /\ conv \in Seq(Written)
  <2>1. Paired(conv, TRUE)
    BY DEF ConvRooted, ObservePrompt
  <2> QED
    BY <2>1 DEF Paired
<1>2. conv' = Append(conv, UserText)
  <2>1. Sanitize(conv) = conv
    BY <1>1, PairedLoosely, SanitizeKeeps
  <2> QED
    BY <2>1 DEF ObservePrompt
<1>3. conv' # <<>> /\ conv'[1] = UserText
  BY <1>1, <1>2, UserTextIsWritten, RootStays DEF ConvRooted
<1>4. phase' = "querying"
  BY <1>3 DEF ObservePrompt
<1>5. Paired(conv', TRUE)
  BY <1>1, <1>2, UserTextIsWritten, PairedAppend
<1>6. UserTexts(conv') = UserTexts(conv) + 1
  <2>1. IsPrompt(UserText)
    BY DEF IsPrompt, UserText
  <2> QED
    BY <2>1, <1>1, <1>2, UserTextIsWritten, TextAppended
<1> QED
  BY <1>3, <1>4, <1>5, <1>6 DEF ConvRooted

LEMMA ClearRooted ==
    ASSUME ObserveClear
    PROVE  ConvRooted' /\ UserTexts(conv') = 0
<1>1. conv' = <<>> /\ phase' = "idle"
  BY DEF ObserveClear
<1> QED
  BY <1>1, PairedNil, NoTexts DEF ConvRooted, Answering, Querying, Executing

LEMMA KernelRooted ==
    ASSUME KernelInv, PageTyped, ConvRooted, KernelRuns \/ ModelSpeaks \/ BatchDone
    PROVE  \/ ObserveClear
           \/ ObservePrompt
           \/ ConvRooted' /\ UserTexts(conv') <= UserTexts(conv)
<1> USE DEF inner, Answering, Querying, Executing
<1>a. UserTexts(conv) \in Nat
  BY TextsCounted DEF KernelInv, LoopTyped
<1>1. CASE Start \/ IdleReceive \/ IdleClosed \/ IdleTimeout \/ WaitingOver \/ ObserveSystem
           \/ ObserveBlocked
  <2>1. /\ UNCHANGED conv /\ phase \notin {"executing", "dispatching"} /\ phase' # "summarizing"
        /\ ~Answering'
    BY <1>1 DEF Start, IdleReceive, IdleClosed, IdleTimeout, WaitingOver, ObserveSystem,
                ObserveBlocked
  <2> QED
    BY <2>1, <1>a, RootedStays
<1>2. CASE QueryInterrupted \/ QueryLimit \/ QueryTurn \/ CompactBlocked \/ OpenStream
           \/ OpenFails \/ StreamInterrupted \/ AnswerEmpty \/ AnswerInvalid \/ StopHookDone
           \/ HaltHookDone \/ StreamGivesUp \/ StreamEnds \/ StreamComplete
  <2>1. /\ UNCHANGED conv /\ phase \notin {"executing", "dispatching"} /\ phase' # "summarizing"
        /\ Answering
    BY <1>2 DEF QueryInterrupted, QueryLimit, QueryTurn, CompactBlocked, OpenStream,
                OpenFails, StreamInterrupted, AnswerEmpty, AnswerInvalid, StopHookDone,
                HaltHookDone, StreamGivesUp, StreamEnds, StreamComplete
  <2> QED
    BY <2>1, <1>a, RootedStays
<1>3. CASE BatchDispatch \/ SummaryRetryShorter \/ SummaryRetry \/ SummaryFails
  <2>1. /\ UNCHANGED conv /\ Answering
        /\ phase \in {"executing", "dispatching"} => phase' \in {"executing", "dispatching"}
        /\ phase' = "summarizing" => phase = "summarizing"
    BY <1>3 DEF BatchDispatch, SummaryRetryShorter, SummaryRetry, SummaryFails
  <2> QED
    BY <2>1, <1>a, RootedStays
<1>4. CASE CompactLocally \/ CompactBySummary \/ SummaryDone
  BY <1>4, CompactRooted
<1>5. CASE AnswerFinal \/ AnswerWithTools \/ BatchInterrupted \/ BatchDone
  BY <1>5, AnswerRooted
<1> QED
  BY <1>1, <1>2, <1>3, <1>4, <1>5 DEF KernelRuns, ModelSpeaks

-----------------------------------------------------------------------------
(* What a clear leaves behind.                                             *)

MirrorRecord == [msgs : Seq(Written), open : SUBSET ToolIds, done : SUBSET ToolIds]
PumpRecord == [pc : {"ready", "save", "write"}, epoch : Nat, snap : Seq(Written)]

\* A clear the kernel has not carried out.
ClearDue ==
    \/ \E i \in 1..Len(events) : events[i].kind = "clear"
    \/ phase = "observing" /\ event.kind = "clear"

SessionTyped ==
    /\ epoch \in Nat /\ base \in Nat
    /\ clearing \in {"no", "waiting", "locked", "deleted"}
    /\ mirror \in MirrorRecord /\ saved \in Seq(Written) /\ pump \in PumpRecord

\* session_operation_gate: a save and a clear do not overlap.
GateHolds ==
    /\ gate = "clear" <=> clearing \in {"locked", "deleted"}
    /\ gate = "pump" <=> pump.pc = "write"
    /\ clearing = "deleted" => saved = <<>>

\* The open message was sent after the last clear, and the kernel carries the
\* clear out first.
MessagesFollow ==
    /\ base <= sent /\ (Open => base < sent)
    /\ ClearDue => ~Observed /\ ~Answering /\ ~Ended

\* A message of the user that the mirror does not hold yet, and one that the
\* kernel's context does not.
Unshown == IF Unsent THEN 1 ELSE 0
Unasked == IF Unsent \/ Queued \/ Observed THEN 1 ELSE 0

\* What the page keeps or is about to save is of after the clear.
PageForgets ==
    /\ UserTexts(mirror.msgs) + Unshown <= sent - base
    /\ UserTexts(saved) <= sent - base
    /\ pump.pc = "write" => UserTexts(pump.snap) <= sent - base

\* And so is the kernel's own context.
KernelForgets == UserTexts(conv) + Unasked <= sent - base /\ ConvRooted

ForgetInv ==
    /\ SessionTyped /\ GateHolds
    /\ ~overlap => MessagesFollow
    /\ ~overlap /\ epoch > 0 => PageForgets
    /\ ~overlap /\ epoch > 0 /\ ~ClearDue => KernelForgets

LEMMA TextsTyped ==
    ASSUME SessionTyped, KernelInv, PageTyped
    PROVE  /\ UserTexts(mirror.msgs) \in Nat /\ UserTexts(saved) \in Nat
           /\ UserTexts(pump.snap) \in Nat /\ UserTexts(conv) \in Nat
           /\ sent \in Nat /\ base \in Nat /\ Unshown \in {0, 1} /\ Unasked \in {0, 1}
<1>1. /\ mirror.msgs \in Seq(Written) /\ saved \in Seq(Written) /\ pump.snap \in Seq(Written)
      /\ conv \in Seq(Written) /\ sent \in Nat /\ base \in Nat
  BY DEF SessionTyped, MirrorRecord, PumpRecord, KernelInv, LoopTyped, PageTyped
<1> QED
  BY <1>1, TextsCounted DEF Unshown, Unasked

LEMMA ForgetInit == ChatInit => ForgetInv
<1> SUFFICES ASSUME ChatInit PROVE ForgetInv
  OBVIOUS
<1>1. /\ epoch = 0 /\ base = 0 /\ sent = 0 /\ clearing = "no" /\ gate = "free" /\ saved = conv
      /\ mirror = [NoMirror EXCEPT !.msgs = conv] /\ pump = PumpReady
      /\ events = <<>> /\ outbox = <<>> /\ pipe = <<>> /\ phase = "created"
  BY DEF ChatInit, KernelInit
<1>2. conv \in Seq(Written)
  BY KernelAssumption DEF ChatInit, KernelInit
<1>3. mirror \in MirrorRecord /\ pump \in PumpRecord /\ pump.pc = "ready"
  BY <1>1, <1>2 DEF NoMirror, PumpReady, MirrorRecord, PumpRecord
<1>4. SessionTyped /\ GateHolds
  BY <1>1, <1>2, <1>3 DEF SessionTyped, GateHolds
<1>5. ~Open /\ ~ClearDue
  BY <1>1 DEF Open, Unsent, Queued, Observed, Answering, Ended, ClearDue, Querying, Executing
<1>6. MessagesFollow
  BY <1>1, <1>5 DEF MessagesFollow
<1> QED
  BY <1>1, <1>4, <1>6 DEF ForgetInv

\* A step of the page around the store.
LEMMA ForgetStays ==
    ASSUME ForgetInv, SessionTyped', GateHolds',
           UNCHANGED <<phase, event, events, conv, sent, outbox, pipe, mirror, epoch, base, overlap>>,
           ~overlap /\ epoch > 0 =>
              /\ UserTexts(saved') <= sent - base
              /\ pump'.pc = "write" => UserTexts(pump'.snap) <= sent - base
    PROVE  ForgetInv'
<1>1. /\ ClearDue' = ClearDue /\ Open' = Open /\ Observed' = Observed /\ Answering' = Answering
      /\ Ended' = Ended /\ Unshown' = Unshown /\ Unasked' = Unasked
  BY DEF ClearDue, Open, Unsent, Queued, Observed, Answering, Ended, Unshown, Unasked
<1>2. ~overlap => MessagesFollow'
  BY <1>1 DEF ForgetInv, MessagesFollow
<1>3. ~overlap /\ epoch > 0 => PageForgets'
  BY <1>1 DEF ForgetInv, PageForgets
<1>4. ConvRooted' = ConvRooted
  BY DEF ConvRooted, Answering
<1>5. ~overlap /\ epoch > 0 /\ ~ClearDue' => KernelForgets'
  BY <1>1, <1>4 DEF ForgetInv, KernelForgets
<1> QED
  BY <1>2, <1>3, <1>5 DEF ForgetInv

LEMMA ForgetQuiet ==
    ASSUME ForgetInv, UNCHANGED <<phase, event, events, conv, sent, outbox, pipe, mirror>>,
           UNCHANGED <<saved, pump, gate, epoch, clearing, base, overlap>>
    PROVE  ForgetInv'
<1>1. SessionTyped' /\ GateHolds'
  BY DEF ForgetInv, SessionTyped, GateHolds
<1> QED
  BY <1>1, ForgetStays DEF ForgetInv, PageForgets

LEMMA ForgetClearing ==
    ASSUME ForgetInv, FlowInv, OnClear \/ ClearLock \/ ClearFails \/ ClearDelete
    PROVE  ForgetInv'
<1> USE DEF view, tasks, store, session, asks, kernelVars, inner, host
<1>0. UNCHANGED <<phase, event, events, conv, sent, outbox, pipe, mirror, epoch, base, overlap, pump>>
  BY DEF OnClear, ClearLock, ClearFails, ClearDelete
<1>1. /\ SessionTyped /\ GateHolds
      /\ ~overlap => MessagesFollow
      /\ ~overlap /\ epoch > 0 => PageForgets
  BY DEF ForgetInv
<1>2. saved' = saved \/ saved' = <<>>
  BY DEF OnClear, ClearLock, ClearFails, ClearDelete
<1>3. SessionTyped'
  <2>0. <<>> \in Seq(Written)
    OBVIOUS
  <2>1. saved' \in Seq(Written)
    BY <2>0, <1>1, <1>2 DEF SessionTyped
  <2>2. clearing' \in {"no", "waiting", "locked", "deleted"}
    BY DEF OnClear, ClearLock, ClearFails, ClearDelete
  <2> QED
    BY <1>0, <1>1, <2>1, <2>2 DEF SessionTyped
<1>4. GateHolds'
  BY <1>0, <1>1 DEF GateHolds, OnClear, ClearLock, ClearFails, ClearDelete, InputEnabled
<1>5. ASSUME ~overlap, epoch > 0
      PROVE  /\ UserTexts(saved') <= sent - base
             /\ pump'.pc = "write" => UserTexts(pump'.snap) <= sent - base
  <2>1. UserTexts(<<>>) <= sent - base
    <3>1. base <= sent /\ base \in Nat /\ sent \in Nat
      BY <1>1, <1>5 DEF MessagesFollow, SessionTyped, FlowInv, PageTyped
    <3> QED
      BY <3>1, NoTexts
  <2> QED
    BY <2>1, <1>0, <1>1, <1>2, <1>5 DEF PageForgets
<1> QED
  BY <1>0, <1>3, <1>4, <1>5, ForgetStays

LEMMA ForgetSaving ==
    ASSUME ForgetInv, FlowInv, KernelInv, PumpLock \/ PumpSaved
    PROVE  ForgetInv'
<1> USE DEF view, tasks, store, session, asks, kernelVars, inner, host
<1>0. UNCHANGED <<phase, event, events, conv, sent, outbox, pipe, mirror, epoch, base, overlap, clearing>>
  BY DEF PumpLock, PumpSaved
<1>1. /\ SessionTyped /\ GateHolds /\ pump \in PumpRecord /\ mirror \in MirrorRecord
      /\ saved \in Seq(Written) /\ pump.snap \in Seq(Written) /\ mirror.msgs \in Seq(Written)
      /\ ~overlap /\ epoch > 0 => PageForgets
  BY DEF ForgetInv, SessionTyped, PumpRecord, MirrorRecord
<1>2. /\ UserTexts(mirror.msgs) \in Nat /\ Unshown \in {0, 1} /\ sent \in Nat /\ base \in Nat
      /\ UserTexts(pump.snap) \in Nat
  BY <1>1, TextsTyped DEF FlowInv
<1>r. PumpReady \in PumpRecord /\ PumpReady.pc = "ready"
  BY DEF PumpReady, PumpRecord
<1>3. CASE PumpLock
  <2>a. gate = "free" /\ saved' = saved /\ pump.pc = "save"
    BY <1>3 DEF PumpLock
  <2>1. CASE pump.epoch = epoch
    <3>0. gate' = "pump" /\ pump' = [pump EXCEPT !.pc = "write", !.snap = mirror.msgs]
      BY <1>3, <2>1 DEF PumpLock
    <3>1. pump' \in PumpRecord /\ pump'.pc = "write" /\ pump'.snap = mirror.msgs
      BY <3>0, <1>1 DEF PumpRecord
    <3>2. SessionTyped'
      BY <3>1, <2>a, <1>0, <1>1 DEF SessionTyped
    <3>3. GateHolds'
      BY <3>0, <3>1, <2>a, <1>0, <1>1 DEF GateHolds
    <3>4. ASSUME ~overlap, epoch > 0
          PROVE  UserTexts(saved') <= sent - base /\ UserTexts(pump'.snap) <= sent - base
      <4>1. UserTexts(mirror.msgs) + Unshown <= sent - base /\ UserTexts(saved) <= sent - base
        BY <3>4, <1>1 DEF PageForgets
      <4>2. UserTexts(mirror.msgs) <= sent - base
        BY <4>1, <1>2
      <4> QED
        BY <4>1, <4>2, <3>1, <2>a
    <3> QED
      BY <3>2, <3>3, <3>4, <1>0, ForgetStays
  <2>2. CASE pump.epoch # epoch
    <3>0. gate' = gate /\ pump' = PumpReady
      BY <1>3, <2>2 DEF PumpLock
    <3>1. SessionTyped'
      BY <3>0, <2>a, <1>0, <1>1, <1>r DEF SessionTyped
    <3>2. GateHolds'
      BY <3>0, <2>a, <1>0, <1>1, <1>r DEF GateHolds
    <3> QED
      BY <3>0, <3>1, <3>2, <2>a, <1>0, <1>1, <1>r, ForgetStays DEF PageForgets
  <2> QED
    BY <2>1, <2>2
<1>4. CASE PumpSaved
  <2>0. /\ pump.pc = "write" /\ gate' = "free" /\ pump' = PumpReady
        /\ saved' = saved \/ saved' = Sanitize(pump.snap)
    BY <1>4 DEF PumpSaved
  <2>1. Sanitize(pump.snap) \in Seq(Written) /\ UserTexts(Sanitize(pump.snap)) <= UserTexts(pump.snap)
        /\ UserTexts(Sanitize(pump.snap)) \in Nat
    <3>1. Sanitize(pump.snap) \in Seq(Written)
      BY <1>1, SanitizePairs DEF Paired
    <3> QED
      BY <3>1, <1>1, SanitizeCounts, TextsCounted
  <2>2. SessionTyped'
    <3>1. saved' \in Seq(Written)
      BY <2>0, <2>1, <1>1
    <3> QED
      BY <3>1, <2>0, <1>0, <1>1, <1>r DEF SessionTyped
  <2>3. GateHolds'
    BY <2>0, <1>0, <1>1, <1>r DEF GateHolds
  <2>4. ASSUME ~overlap, epoch > 0 PROVE UserTexts(saved') <= sent - base
    <3>1. UserTexts(saved) <= sent - base /\ UserTexts(pump.snap) <= sent - base
      BY <2>4, <2>0, <1>1 DEF PageForgets
    <3>2. UserTexts(Sanitize(pump.snap)) <= sent - base
      BY <3>1, <2>1, <1>2
    <3> QED
      BY <3>1, <3>2, <2>0
  <2> QED
    BY <2>0, <2>2, <2>3, <2>4, <1>0, <1>r, ForgetStays
<1> QED
  BY <1>3, <1>4

\* Showing a message of the user counts it once; a stream event counts nothing.
LEMMA PushCounts ==
    ASSUME NEW m \in MirrorRecord
    PROVE  /\ PushUserText(m) \in MirrorRecord
           /\ UserTexts(PushUserText(m).msgs) = UserTexts(m.msgs) + 1
<1>1. m.msgs \in Seq(Written) /\ m.open \in SUBSET ToolIds
  BY DEF MirrorRecord
<1> DEFINE b == FlushPending(m)
<1>2. b \in MirrorRecord /\ b.msgs \in Seq(Written) /\ UserTexts(b.msgs) = UserTexts(m.msgs)
  <2>1. CASE m.open = {}
    BY <2>1, <1>1 DEF FlushPending
  <2>2. CASE m.open # {}
    <3> DEFINE d == Append(m.msgs, ToolResults(m.open))
    <3>1. ToolResults(m.open) \in Written /\ ~IsPrompt(ToolResults(m.open))
      BY <1>1, MessagesAreWritten DEF IsPrompt, ToolResults
    <3>2. d \in Seq(Written) /\ UserTexts(d) = UserTexts(m.msgs) + 0 /\ UserTexts(m.msgs) \in Nat
      BY <3>1, <1>1, AppendShape, TextAppended, TextsCounted
    <3> HIDE DEF d
    <3>3. b = [NoMirror EXCEPT !.msgs = d]
      BY <2>2 DEF FlushPending, d
    <3> HIDE DEF b
    <3>4. b \in MirrorRecord /\ b.msgs = d
      BY <3>2, <3>3 DEF NoMirror, MirrorRecord
    <3> QED
      BY <3>2, <3>4
  <2> QED
    BY <2>1, <2>2
<1> HIDE DEF b
<1> DEFINE d == Append(b.msgs, UserText)
<1>3. d \in Seq(Written) /\ UserTexts(d) = UserTexts(b.msgs) + 1
  <2>1. IsPrompt(UserText) /\ UserText \in Written
    BY UserTextIsWritten DEF IsPrompt, UserText
  <2> QED
    BY <2>1, <1>2, AppendShape, TextAppended
<1> HIDE DEF d
<1>4. PushUserText(m) = [b EXCEPT !.msgs = d]
  BY DEF PushUserText, b, d
<1>5. [b EXCEPT !.msgs = d] \in MirrorRecord /\ [b EXCEPT !.msgs = d].msgs = d
  BY <1>2, <1>3 DEF MirrorRecord
<1> QED
  BY <1>2, <1>3, <1>4, <1>5

LEMMA TurnCounts ==
    ASSUME NEW m \in MirrorRecord, NEW e \in PipeEvent, e.kind = "turn"
    PROVE  /\ OnTurnComplete(m, e.msg) \in MirrorRecord
           /\ UserTexts(OnTurnComplete(m, e.msg).msgs) = UserTexts(m.msgs)
<1>1. m.msgs \in Seq(Written) /\ UserTexts(m.msgs) \in Nat
  BY TextsCounted DEF MirrorRecord
<1>2. e.msg \in Written /\ ~IsPrompt(e.msg) /\ e.msg.uses \in SUBSET ToolIds
  <2>1. /\ Error.kind # "turn" /\ Interrupted.kind # "turn"
        /\ \A id \in ToolIds : ToolCompleted(id).kind # "turn"
    BY DEF Error, Interrupted, ToolCompleted
  <2>2. \A n : TurnComplete(n).msg = n
    BY DEF TurnComplete
  <2>3. /\ ~IsPrompt(Answer(TRUE, {}))
        /\ \A ids \in SUBSET ToolIds : ~IsPrompt(Answer(FALSE, ids))
    BY DEF IsPrompt, Answer
  <2>4. CASE e = TurnComplete(Answer(TRUE, {}))
    <3>1. e.msg = Answer(TRUE, {})
      BY <2>2, <2>4
    <3> QED
      BY <3>1, <2>3, MessagesAreWritten
  <2>5. CASE e \in {TurnComplete(Answer(FALSE, ids)) : ids \in (SUBSET ToolIds) \ {{}}}
    <3>1. PICK ids \in SUBSET ToolIds : e = TurnComplete(Answer(FALSE, ids))
      BY <2>5
    <3>2. e.msg = Answer(FALSE, ids)
      BY <2>2, <3>1
    <3>3. Answer(FALSE, ids) \in Written /\ Answer(FALSE, ids).uses = ids
      BY MessagesAreWritten
    <3>4. ~IsPrompt(Answer(FALSE, ids))
      BY <2>3
    <3> QED
      BY <3>2, <3>3, <3>4
  <2>6. e \notin {Error, Interrupted} \cup {ToolCompleted(id) : id \in ToolIds}
    BY <2>1
  <2> QED
    BY <2>4, <2>5, <2>6 DEF PipeEvent
<1> DEFINE d == Append(m.msgs, e.msg)
<1>3. d \in Seq(Written) /\ UserTexts(d) = UserTexts(m.msgs) + 0
  BY <1>1, <1>2, AppendShape, TextAppended
<1>4. OnTurnComplete(m, e.msg) = [msgs |-> d, open |-> e.msg.uses, done |-> {}]
  BY DEF OnTurnComplete
<1> HIDE DEF d
<1> QED
  BY <1>1, <1>2, <1>3, <1>4 DEF MirrorRecord

LEMMA ToolCounts ==
    ASSUME NEW m \in MirrorRecord, NEW id
    PROVE  /\ OnToolCompleted(m, id) \in MirrorRecord
           /\ UserTexts(OnToolCompleted(m, id).msgs) = UserTexts(m.msgs)
<1>1. m.msgs \in Seq(Written) /\ UserTexts(m.msgs) \in Nat /\ m.open \in SUBSET ToolIds
      /\ m.done \in SUBSET ToolIds
  BY TextsCounted DEF MirrorRecord
<1> DEFINE d == Append(m.msgs, ToolResults(m.open))
           n == m.done \cup ({id} \cap m.open)
<1>2. d \in Seq(Written) /\ UserTexts(d) = UserTexts(m.msgs) + 0
  <2>1. ToolResults(m.open) \in Written /\ ~IsPrompt(ToolResults(m.open))
    BY <1>1, MessagesAreWritten DEF IsPrompt, ToolResults
  <2> QED
    BY <2>1, <1>1, AppendShape, TextAppended
<1>3. n \in SUBSET ToolIds
  BY <1>1
<1>4. OnToolCompleted(m, id) = IF m.open # {} /\ n = m.open THEN [NoMirror EXCEPT !.msgs = d]
                               ELSE [m EXCEPT !.done = n]
  BY DEF OnToolCompleted
<1> HIDE DEF d, n
<1>5. /\ [NoMirror EXCEPT !.msgs = d] \in MirrorRecord /\ [NoMirror EXCEPT !.msgs = d].msgs = d
      /\ [m EXCEPT !.done = n] \in MirrorRecord /\ [m EXCEPT !.done = n].msgs = m.msgs
  BY <1>2, <1>3 DEF NoMirror, MirrorRecord
<1> QED
  BY <1>1, <1>2, <1>4, <1>5

LEMMA ForgetPump ==
    ASSUME ForgetInv, FlowInv, KernelInv, PumpTake
    PROVE  ForgetInv'
<1>0. /\ pipe # <<>> /\ pipe' = Tail(pipe)
      /\ mirror' = IF Head(pipe).kind = "turn" THEN OnTurnComplete(mirror, Head(pipe).msg)
                   ELSE IF Head(pipe).kind = "tool" THEN OnToolCompleted(mirror, Head(pipe).id)
                   ELSE mirror
      /\ pump.pc = "ready"
      /\ pump' \in {[pc |-> "save", epoch |-> epoch, snap |-> <<>>], PumpReady}
      /\ UNCHANGED <<phase, event, events, conv, sent, outbox, epoch, base, overlap>>
      /\ UNCHANGED <<saved, gate, clearing>>
  BY DEF PumpTake, inner, host, tasks, session
<1>a. /\ Len(pipe') = Len(pipe) - 1 /\ Len(pipe) \in Nat /\ Head(pipe) \in PipeEvent
      /\ \A i \in 1..Len(pipe') : pipe'[i] = pipe[i + 1]
  BY <1>0, TailShape DEF FlowInv, PageTyped
<1>1. SessionTyped /\ GateHolds /\ mirror \in MirrorRecord /\ epoch \in Nat
  BY DEF ForgetInv, SessionTyped
<1>2. mirror' \in MirrorRecord /\ UserTexts(mirror'.msgs) = UserTexts(mirror.msgs)
  <2>1. CASE Head(pipe).kind = "turn"
    BY <2>1, <1>0, <1>1, <1>a, TurnCounts
  <2>2. CASE Head(pipe).kind # "turn" /\ Head(pipe).kind = "tool"
    BY <2>2, <1>0, <1>1, ToolCounts
  <2>3. CASE Head(pipe).kind # "turn" /\ Head(pipe).kind # "tool"
    BY <2>3, <1>0, <1>1
  <2> QED
    BY <2>1, <2>2, <2>3
<1>3. pump' \in PumpRecord /\ pump'.pc # "write"
  <2>1. <<>> \in Seq(Written)
    OBVIOUS
  <2> DEFINE r == [pc |-> "save", epoch |-> epoch, snap |-> <<>>]
  <2>2. r \in PumpRecord /\ r.pc = "save"
    BY <2>1, <1>1 DEF PumpRecord
  <2>3. PumpReady \in PumpRecord /\ PumpReady.pc = "ready"
    BY <2>1 DEF PumpRecord, PumpReady
  <2>4. pump' = r \/ pump' = PumpReady
    BY <1>0
  <2> HIDE DEF r
  <2> QED
    BY <2>2, <2>3, <2>4
<1>4. SessionTyped' /\ GateHolds'
  BY <1>0, <1>1, <1>2, <1>3 DEF SessionTyped, GateHolds
<1>5. /\ ClearDue' = ClearDue /\ Unsent' = Unsent /\ Queued' = Queued /\ Observed' = Observed
      /\ Answering' = Answering /\ Unshown' = Unshown /\ Unasked' = Unasked
      /\ ConvRooted' = ConvRooted
  BY <1>0 DEF ClearDue, Unsent, Queued, Observed, Answering, Unshown, Unasked, ConvRooted
<1>6. Ended' => Ended
  <2> SUFFICES ASSUME Ended' PROVE Ended
    OBVIOUS
  <2>1. PICK i \in 1..Len(pipe') : UnlocksInput(pipe'[i])
    BY DEF Ended
  <2>2. i + 1 \in 1..Len(pipe) /\ pipe'[i] = pipe[i + 1]
    BY <1>a
  <2> QED
    BY <2>1, <2>2 DEF Ended
<1>7. ~overlap => MessagesFollow'
  BY <1>0, <1>5, <1>6 DEF ForgetInv, MessagesFollow, Open
<1>8. ~overlap /\ epoch > 0 => PageForgets'
  BY <1>0, <1>2, <1>3, <1>5 DEF ForgetInv, PageForgets
<1>9. ~overlap /\ epoch > 0 /\ ~ClearDue' => KernelForgets'
  BY <1>0, <1>5 DEF ForgetInv, KernelForgets
<1> QED
  BY <1>0, <1>4, <1>7, <1>8, <1>9 DEF ForgetInv

\* A message of the user behind the others is no clear.
LEMMA DueStays ==
    ASSUME PageTyped, NEW k \in Nat, events' = Append(events, [kind |-> "user", n |-> k]),
           UNCHANGED <<phase, event>>
    PROVE  ClearDue' <=> ClearDue
<1> DEFINE m == [kind |-> "user", n |-> k]
<1>a. m \in HostEvent /\ m.kind = "user"
  BY DEF HostEvent
<1> HIDE DEF m
<1>b. /\ Len(events') = Len(events) + 1 /\ Len(events) \in Nat
      /\ events'[Len(events) + 1] = m /\ \A i \in 1..Len(events) : events'[i] = events[i]
  <2>1. events' = Append(events, m) /\ events \in Seq(HostEvent)
    BY DEF PageTyped, m
  <2> QED
    BY <2>1, <1>a, AppendShape
<1>1. \A i \in 1..Len(events') : i \in 1..Len(events) \/ i = Len(events) + 1
  BY <1>b
<1>2. \A i \in 1..Len(events) : i \in 1..Len(events')
  BY <1>b
<1> QED
  BY <1>1, <1>2, <1>a, <1>b DEF ClearDue

LEMMA ForgetSend ==
    ASSUME ForgetInv, FlowInv, KernelInv, NEW create \in BOOLEAN, OnSend(create)
    PROVE  ForgetInv'
<1>0. /\ InputEnabled /\ sent' = sent + 1 /\ outbox' = Append(outbox, sent + 1)
      /\ UNCHANGED <<phase, event, events, conv, pipe, mirror, epoch, base, overlap>>
      /\ UNCHANGED <<saved, pump, gate, clearing>>
  BY DEF OnSend, inner, store, session
<1>1. SessionTyped' /\ GateHolds'
  BY <1>0 DEF ForgetInv, SessionTyped, GateHolds
<1>2. ClearDue' = ClearDue /\ ConvRooted' = ConvRooted
  BY <1>0 DEF ClearDue, ConvRooted, Answering
<1>t. /\ UserTexts(mirror.msgs) \in Nat /\ UserTexts(saved) \in Nat /\ UserTexts(pump.snap) \in Nat
      /\ UserTexts(conv) \in Nat /\ sent \in Nat /\ base \in Nat
  BY TextsTyped DEF ForgetInv, FlowInv
<1>3. ASSUME ~overlap
      PROVE  /\ MessagesFollow'
             /\ epoch > 0 => PageForgets'
             /\ epoch > 0 /\ ~ClearDue' => KernelForgets'
  <2>1. ~Open
    BY <1>0, <1>3, ComposerOpen
  <2>2. ~Observed' /\ ~Answering' /\ ~Ended' /\ ~Queued'
    BY <2>1, <1>0 DEF Open, Observed, Answering, Ended, Queued
  <2>3. base <= sent
    BY <1>3 DEF ForgetInv, MessagesFollow
  <2>4. MessagesFollow'
    <3>1. base' <= sent' /\ base' < sent'
      BY <2>3, <1>0, <1>t
    <3> QED
      BY <3>1, <2>2 DEF MessagesFollow
  <2>5. Unshown = 0 /\ Unasked = 0 /\ Unshown' \in {0, 1} /\ Unasked' \in {0, 1}
    BY <2>1 DEF Open, Unshown, Unasked
  <2>6. epoch > 0 => PageForgets'
    <3> SUFFICES ASSUME epoch > 0 PROVE PageForgets'
      OBVIOUS
    <3>1. PageForgets
      BY <1>3 DEF ForgetInv
    <3>2. /\ UserTexts(mirror.msgs) + Unshown' <= sent' - base
          /\ UserTexts(saved) <= sent' - base
          /\ pump.pc = "write" => UserTexts(pump.snap) <= sent' - base
      BY <3>1, <2>5, <1>0, <1>t DEF PageForgets
    <3> QED
      BY <3>2, <1>0 DEF PageForgets
  <2>7. epoch > 0 /\ ~ClearDue' => KernelForgets'
    <3> SUFFICES ASSUME epoch > 0, ~ClearDue' PROVE KernelForgets'
      OBVIOUS
    <3>1. KernelForgets
      BY <1>2, <1>3 DEF ForgetInv
    <3>2. UserTexts(conv) + Unasked' <= sent' - base
      BY <3>1, <2>5, <1>0, <1>t DEF KernelForgets
    <3> QED
      BY <3>1, <3>2, <1>0, <1>2 DEF KernelForgets
  <2> QED
    BY <2>4, <2>6, <2>7
<1> QED
  BY <1>0, <1>1, <1>3 DEF ForgetInv

LEMMA ForgetSendTask ==
    ASSUME ForgetInv, FlowInv, KernelInv, FlowInv', SendTask
    PROVE  ForgetInv'
<1>0. /\ outbox # <<>> /\ outbox' = Tail(outbox) /\ mirror' = PushUserText(mirror)
      /\ events' = Append(events, [kind |-> "user", n |-> Head(outbox)])
      /\ UNCHANGED <<phase, event, conv, sent, pipe, epoch, base, overlap>>
      /\ UNCHANGED <<saved, pump, gate, clearing>>
  BY DEF SendTask, inner, host, store, session
<1>1. mirror \in MirrorRecord /\ mirror' \in MirrorRecord
      /\ UserTexts(mirror'.msgs) = UserTexts(mirror.msgs) + 1
  BY <1>0, PushCounts DEF ForgetInv, SessionTyped
<1>2. SessionTyped' /\ GateHolds'
  BY <1>0, <1>1 DEF ForgetInv, SessionTyped, GateHolds
<1>3. (ClearDue' <=> ClearDue) /\ ConvRooted' = ConvRooted
  <2>1. Head(outbox) \in Nat
    BY <1>0 DEF FlowInv, PageTyped
  <2>2. ClearDue' <=> ClearDue
    BY <2>1, <1>0, DueStays DEF FlowInv
  <2> QED
    BY <2>2, <1>0 DEF ConvRooted, Answering
<1>t. /\ UserTexts(mirror.msgs) \in Nat /\ UserTexts(saved) \in Nat /\ UserTexts(pump.snap) \in Nat
      /\ UserTexts(conv) \in Nat /\ sent \in Nat /\ base \in Nat
  BY TextsTyped DEF ForgetInv, FlowInv
<1>4. ASSUME ~overlap
      PROVE  /\ MessagesFollow'
             /\ epoch > 0 => PageForgets'
             /\ epoch > 0 /\ ~ClearDue' => KernelForgets'
  <2>1. Unsent /\ ~Observed /\ ~Answering /\ ~Ended /\ outbox = <<sent>>
    BY <1>0, <1>4 DEF FlowInv, OnePlace, Unsent
  <2>2. ~Observed' /\ ~Answering' /\ ~Ended' /\ ~Unsent'
    <3>1. outbox' = <<>>
      BY <2>1, <1>0
    <3> QED
      BY <2>1, <3>1, <1>0 DEF Observed, Answering, Ended, Unsent
  <2>3. Unshown = 1 /\ Unasked = 1 /\ Unshown' = 0 /\ Unasked' \in {0, 1}
    BY <2>1, <2>2 DEF Unshown, Unasked
  <2>4. MessagesFollow'
    <3>1. base <= sent /\ base < sent
      BY <2>1, <1>4 DEF ForgetInv, MessagesFollow, Open
    <3> QED
      BY <3>1, <2>2, <1>0 DEF MessagesFollow
  <2>5. epoch > 0 => PageForgets'
    <3> SUFFICES ASSUME epoch > 0 PROVE PageForgets'
      OBVIOUS
    <3>1. PageForgets
      BY <1>4 DEF ForgetInv
    <3>2. UserTexts(mirror'.msgs) + Unshown' <= sent - base
      BY <3>1, <2>3, <1>1, <1>t DEF PageForgets
    <3> QED
      BY <3>1, <3>2, <1>0 DEF PageForgets
  <2>6. epoch > 0 /\ ~ClearDue' => KernelForgets'
    <3> SUFFICES ASSUME epoch > 0, ~ClearDue' PROVE KernelForgets'
      OBVIOUS
    <3>1. KernelForgets
      BY <1>3, <1>4 DEF ForgetInv
    <3>2. UserTexts(conv) + Unasked' <= sent - base
      BY <3>1, <2>3, <1>t DEF KernelForgets
    <3> QED
      BY <3>1, <3>2, <1>0, <1>3 DEF KernelForgets
  <2> QED
    BY <2>4, <2>5, <2>6
<1> QED
  BY <1>0, <1>2, <1>4 DEF ForgetInv

LEMMA ForgetSkill ==
    ASSUME ForgetInv, FlowInv, KernelInv, SkillLoaded
    PROVE  ForgetInv'
<1>0. /\ sent' = sent + 1 /\ mirror' = PushUserText(mirror)
      /\ overlap' = (overlap \/ ~InputEnabled)
      /\ events' = Append(events, [kind |-> "user", n |-> sent + 1])
      /\ UNCHANGED <<phase, event, conv, pipe, outbox, epoch, base>>
      /\ UNCHANGED <<saved, pump, gate, clearing>>
  BY DEF SkillLoaded, inner, store, session
<1>1. mirror \in MirrorRecord /\ mirror' \in MirrorRecord
      /\ UserTexts(mirror'.msgs) = UserTexts(mirror.msgs) + 1
  BY <1>0, PushCounts DEF ForgetInv, SessionTyped
<1>2. SessionTyped' /\ GateHolds'
  BY <1>0, <1>1 DEF ForgetInv, SessionTyped, GateHolds
<1>t. /\ UserTexts(mirror.msgs) \in Nat /\ UserTexts(saved) \in Nat /\ UserTexts(pump.snap) \in Nat
      /\ UserTexts(conv) \in Nat /\ sent \in Nat /\ base \in Nat
  BY TextsTyped DEF ForgetInv, FlowInv
<1>3. (ClearDue' <=> ClearDue) /\ ConvRooted' = ConvRooted
  <2>1. sent + 1 \in Nat
    BY <1>t
  <2>2. ClearDue' <=> ClearDue
    BY <2>1, <1>0, DueStays DEF FlowInv
  <2> QED
    BY <2>2, <1>0 DEF ConvRooted, Answering
<1>4. ASSUME ~overlap'
      PROVE  /\ MessagesFollow'
             /\ epoch > 0 => PageForgets'
             /\ epoch > 0 /\ ~ClearDue' => KernelForgets'
  <2>a. ~overlap /\ InputEnabled
    BY <1>0, <1>4
  <2>1. ~Open
    BY <2>a, ComposerOpen
  <2>2. ~Observed' /\ ~Answering' /\ ~Ended' /\ ~Unsent'
    BY <2>1, <1>0 DEF Open, Observed, Answering, Ended, Unsent
  <2>3. Unshown = 0 /\ Unasked = 0 /\ Unshown' = 0 /\ Unasked' \in {0, 1}
    BY <2>1, <2>2 DEF Unshown, Unasked, Open
  <2>4. MessagesFollow'
    <3>1. base <= sent
      BY <2>a DEF ForgetInv, MessagesFollow
    <3>2. base' <= sent' /\ base' < sent'
      BY <3>1, <1>0, <1>t
    <3> QED
      BY <3>2, <2>2 DEF MessagesFollow
  <2>5. epoch > 0 => PageForgets'
    <3> SUFFICES ASSUME epoch > 0 PROVE PageForgets'
      OBVIOUS
    <3>1. PageForgets
      BY <2>a DEF ForgetInv
    <3>2. /\ UserTexts(mirror'.msgs) + Unshown' <= sent' - base
          /\ UserTexts(saved) <= sent' - base
          /\ pump.pc = "write" => UserTexts(pump.snap) <= sent' - base
      BY <3>1, <2>3, <1>0, <1>1, <1>t DEF PageForgets
    <3> QED
      BY <3>2, <1>0 DEF PageForgets
  <2>6. epoch > 0 /\ ~ClearDue' => KernelForgets'
    <3> SUFFICES ASSUME epoch > 0, ~ClearDue' PROVE KernelForgets'
      OBVIOUS
    <3>1. KernelForgets
      BY <1>3, <2>a DEF ForgetInv
    <3>2. UserTexts(conv) + Unasked' <= sent' - base
      BY <3>1, <2>3, <1>0, <1>t DEF KernelForgets
    <3> QED
      BY <3>1, <3>2, <1>0, <1>3 DEF KernelForgets
  <2> QED
    BY <2>4, <2>5, <2>6
<1> QED
  BY <1>0, <1>2, <1>4 DEF ForgetInv

LEMMA ForgetCommit ==
    ASSUME ForgetInv, FlowInv, FlowInv', ClearCommit
    PROVE  ForgetInv'
<1>0. /\ clearing = "deleted" /\ clearing' = "no" /\ gate' = "free"
      /\ epoch' = epoch + 1 /\ base' = sent /\ mirror' = NoMirror
      /\ events' = Append(events, [kind |-> "clear", n |-> sent])
      /\ UNCHANGED <<phase, event, sent, pipe, outbox, overlap, saved, pump>>
  BY DEF ClearCommit, inner, host, tasks
<1>1. SessionTyped /\ GateHolds /\ sent \in Nat
  BY DEF ForgetInv, FlowInv, PageTyped
<1>2. mirror' \in MirrorRecord /\ mirror'.msgs = <<>>
  <2>1. <<>> \in Seq(Written)
    OBVIOUS
  <2> QED
    BY <1>0, <2>1 DEF NoMirror, MirrorRecord
<1>3. SessionTyped'
  BY <1>0, <1>1, <1>2 DEF SessionTyped
<1>4. GateHolds' /\ saved = <<>> /\ pump.pc # "write"
  BY <1>0, <1>1 DEF GateHolds
<1>5. ClearDue'
  <2> DEFINE m == [kind |-> "clear", n |-> sent]
  <2>1. m \in HostEvent /\ m.kind = "clear" /\ events \in Seq(HostEvent)
    BY <1>1 DEF HostEvent, FlowInv, PageTyped
  <2> HIDE DEF m
  <2>2. events' = Append(events, m)
    BY <1>0 DEF m
  <2>3. Len(events') \in 1..Len(events') /\ events'[Len(events')] = m
    BY <2>1, <2>2, AppendShape
  <2> QED
    BY <2>1, <2>3 DEF ClearDue
<1>6. ASSUME ~overlap PROVE MessagesFollow' /\ PageForgets'
  <2>1. ~Open
    BY <1>0, <1>6 DEF FlowInv, PageWaits
  <2>2. ~Open'
    <3>1. ~busy' /\ ~stopping'
      BY DEF ClearCommit
    <3> QED
      BY <3>1, <1>0, <1>6 DEF FlowInv, PageWaits
  <2>3. MessagesFollow'
    BY <2>2, <1>0, <1>1 DEF MessagesFollow, Open
  <2>4. UserTexts(mirror'.msgs) + Unshown' <= sent' - base' /\ UserTexts(saved') <= sent' - base'
    <3>1. Unshown' = 0
      BY <2>2 DEF Unshown, Open
    <3>2. UserTexts(mirror'.msgs) = 0 /\ UserTexts(saved') = 0
      BY <1>0, <1>2, <1>4, NoTexts
    <3> QED
      BY <3>1, <3>2, <1>0, <1>1
  <2> QED
    BY <2>3, <2>4, <1>0, <1>4 DEF PageForgets
<1> QED
  BY <1>0, <1>3, <1>4, <1>5, <1>6 DEF ForgetInv

\* What a step of the kernel does to what is open, and to a clear.
LEMMA KernelCarries ==
    ASSUME FlowInv, KernelInv, KernelRuns \/ ModelSpeaks \/ BatchDone, pipe' = pipe \o emitted',
           ~overlap, MessagesFollow, UNCHANGED <<outbox, base>>
    PROVE  /\ MessagesFollow'
           /\ ClearDue' => ClearDue
           /\ ClearDue /\ ~ClearDue' => ObserveClear
           /\ Unshown' = Unshown
           /\ ~ObservePrompt => Unasked' <= Unasked
<1>1. (Rests \/ Receives \/ Begins \/ GoesOn \/ Ends) /\ UNCHANGED sent
  BY KernelShape DEF FlowInv, host
<1>2. emitted' = <<>> => pipe' = pipe
  BY DEF FlowInv, PageTyped
<1>u. Unsent' = Unsent /\ Unshown' = Unshown
  BY DEF Unsent, Unshown
<1>3. CASE Rests
  <2>1. /\ ~Observed /\ ~Observed' /\ ~Answering' /\ (Queued' = Queued) /\ (Ended' = Ended)
        /\ ClearDue' => ClearDue
    BY <1>2, <1>3 DEF Rests, Observed, Answering, Queued, Ended, ClearDue
  <2>2. MessagesFollow'
    BY <2>1, <1>1, <1>u DEF MessagesFollow, Open
  <2>3. ClearDue /\ ~ClearDue' => ObserveClear
    <3> SUFFICES ASSUME ClearDue, ~ClearDue' PROVE ObserveClear
      OBVIOUS
    <3>1. phase = "observing" /\ event.kind = "clear"
      BY <1>3 DEF ClearDue, Rests
    <3> QED
      BY <3>1 DEF KernelRuns, ModelSpeaks, Start, IdleReceive, IdleClosed, IdleTimeout, WaitingOver,
                  ObserveSystem, ObserveBlocked, ObservePrompt, QueryInterrupted, QueryLimit,
                  QueryTurn, CompactBlocked, CompactLocally, CompactBySummary, OpenStream, OpenFails,
                  StreamInterrupted, AnswerEmpty, AnswerInvalid, AnswerFinal, AnswerWithTools,
                  StopHookDone, BatchInterrupted, BatchDispatch, HaltHookDone, StreamGivesUp,
                  StreamEnds, StreamComplete, SummaryDone, SummaryRetryShorter, SummaryRetry,
                  SummaryFails, BatchDone
  <2>4. Unasked' = Unasked /\ Unasked \in {0, 1}
    BY <2>1, <1>u DEF Unasked
  <2> QED
    BY <2>1, <2>2, <2>3, <2>4, <1>u
<1>4. CASE Receives
  <2>0. /\ Len(events') = Len(events) - 1 /\ Len(events) \in Nat /\ Len(events) > 0
        /\ event' = events[1] /\ events[1] \in HostEvent
        /\ \A i \in 1..Len(events') : events'[i] = events[i + 1]
    BY <1>4, TailShape DEF Receives, FlowInv, PageTyped
  <2>a. phase = "idle" /\ phase' = "observing"
    BY <1>4 DEF Receives
  <2>b. 1 \in 1..Len(events) /\ \A i \in 1..Len(events') : i + 1 \in 1..Len(events)
    BY <2>0
  <2>1. /\ ~Observed /\ ~Answering /\ ~Answering' /\ (Ended' = Ended)
    BY <1>2, <1>4, <2>a DEF Receives, Observed, Answering, Ended, Querying, Executing
  <2>2. Observed' \/ Queued' => Queued
    BY <2>0, <2>b DEF Observed, Queued
  <2>3. ClearDue' => ClearDue
    BY <2>0, <2>a, <2>b DEF ClearDue
  <2>4. ClearDue => ClearDue'
    <3> SUFFICES ASSUME ClearDue PROVE ClearDue'
      OBVIOUS
    <3>1. PICK i \in 1..Len(events) : events[i].kind = "clear"
      BY <2>a DEF ClearDue
    <3>2. CASE i = 1
      BY <3>1, <3>2, <2>0, <2>a DEF ClearDue
    <3>3. CASE i # 1
      <4>1. i - 1 \in 1..Len(events') /\ (i - 1) + 1 = i
        BY <3>3, <2>0
      <4>2. events'[i - 1] = events[i]
        BY <4>1, <2>0
      <4> QED
        BY <3>1, <4>1, <4>2 DEF ClearDue
    <3> QED
      BY <3>2, <3>3
  <2>5. ClearDue' => ~Observed'
    <3> SUFFICES ASSUME ClearDue', Observed' PROVE FALSE
      OBVIOUS
    <3>1. events[1].kind = "user"
      BY <2>0 DEF Observed
    <3>2. 1 = Len(events)
      BY <3>1, <2>b DEF FlowInv, OnePlace
    <3>3. 1..Len(events') = {}
      BY <3>2, <2>0
    <3>4. event'.kind # "clear"
      BY <3>1, <2>0
    <3> QED
      BY <3>3, <3>4 DEF ClearDue
  <2>6. MessagesFollow'
    BY <2>1, <2>2, <2>3, <2>5, <1>1, <1>u DEF MessagesFollow, Open
  <2>7. Unasked' <= Unasked
    <3>1. CASE Unsent \/ Queued
      <4>1. Unasked = 1 /\ Unasked' \in {0, 1}
        BY <3>1 DEF Unasked
      <4> QED
        BY <4>1
    <3>2. CASE ~(Unsent \/ Queued)
      <4>1. Unasked = 0 /\ Unasked' = 0
        BY <3>2, <2>1, <2>2, <1>u DEF Unasked
      <4> QED
        BY <4>1
    <3> QED
      BY <3>1, <3>2
  <2> QED
    BY <2>3, <2>4, <2>6, <2>7, <1>u
<1>5. CASE Begins
  <2>1. /\ Observed /\ ~Observed' /\ (Queued' = Queued) /\ (Ended' = Ended) /\ ~ClearDue
        /\ phase' = "querying" /\ UNCHANGED events
    BY <1>2, <1>5 DEF Begins, Observed, Queued, Ended, MessagesFollow
  <2>2. ~ClearDue'
    BY <2>1 DEF ClearDue
  <2>3. MessagesFollow'
    BY <2>1, <2>2, <1>1, <1>u DEF MessagesFollow, Open
  <2>4. Unasked' <= Unasked
    <3>1. Unasked = 1 /\ Unasked' \in {0, 1}
      BY <2>1 DEF Unasked
    <3> QED
      BY <3>1
  <2> QED
    BY <2>1, <2>2, <2>3, <2>4, <1>u
<1>6. CASE GoesOn \/ Ends
  <2>1. /\ Answering /\ phase # "observing" /\ phase' # "observing" /\ UNCHANGED events
    BY <1>6 DEF GoesOn, Ends, Answering, Querying, Executing
  <2>2. /\ ~Observed /\ ~Observed' /\ (Queued' = Queued) /\ ~ClearDue
    BY <2>1 DEF Observed, Queued, MessagesFollow
  <2>3. ~ClearDue'
    BY <2>1, <2>2 DEF ClearDue
  <2>4. MessagesFollow'
    BY <2>1, <2>3, <1>1 DEF MessagesFollow, Open
  <2>5. Unasked' = Unasked /\ Unasked \in {0, 1}
    BY <2>2, <1>u DEF Unasked
  <2> QED
    BY <2>2, <2>3, <2>4, <2>5, <1>u
<1> QED
  BY <1>1, <1>3, <1>4, <1>5, <1>6

LEMMA ForgetKernel ==
    ASSUME ForgetInv, FlowInv, KernelInv, KernelInv', KernelRuns \/ ModelSpeaks \/ BatchDone,
           pipe' = pipe \o emitted', UNCHANGED <<outbox, mirror, saved, pump, gate>>,
           UNCHANGED <<epoch, clearing, base, overlap>>
    PROVE  ForgetInv'
<1>1. SessionTyped' /\ GateHolds'
  BY DEF ForgetInv, SessionTyped, GateHolds
<1>2. UNCHANGED sent /\ (phase = "observing" => event.kind \in {"user", "clear"})
  BY KernelShape DEF FlowInv, PageTyped, host, HostEvent
<1>t. /\ UserTexts(conv) \in Nat /\ UserTexts(conv') \in Nat /\ sent \in Nat /\ base \in Nat
      /\ Unasked \in {0, 1} /\ Unasked' \in {0, 1}
  <2>1. conv' \in Seq(Written)
    BY DEF KernelInv, LoopTyped
  <2> QED
    BY <2>1, TextsTyped, TextsCounted DEF ForgetInv, FlowInv, Unasked
<1>3. ASSUME ~overlap
      PROVE  /\ MessagesFollow'
             /\ epoch > 0 => PageForgets'
             /\ epoch > 0 /\ ~ClearDue' => KernelForgets'
  <2>0. MessagesFollow
    BY <1>3 DEF ForgetInv
  <2>1. /\ MessagesFollow' /\ (ClearDue' => ClearDue) /\ (ClearDue /\ ~ClearDue' => ObserveClear)
        /\ Unshown' = Unshown /\ (~ObservePrompt => Unasked' <= Unasked)
    BY <2>0, <1>3, KernelCarries
  <2>2. epoch > 0 => PageForgets'
    BY <2>1, <1>2, <1>3 DEF ForgetInv, PageForgets
  <2>3. ASSUME epoch > 0, ~ClearDue' PROVE KernelForgets'
    <3>1. CASE ObserveClear
      <4>1. ConvRooted' /\ UserTexts(conv') = 0
        BY <3>1, ClearRooted
      <4>2. Unasked' <= sent' - base'
        <5>1. Unasked' # 0 => Open'
          BY DEF Unasked, Open
        <5>2. base <= sent /\ (Unasked' # 0 => base < sent)
          BY <5>1, <2>1, <1>2 DEF MessagesFollow
        <5> QED
          BY <5>2, <1>2, <1>t
      <4> QED
        BY <4>1, <4>2, <1>t DEF KernelForgets
    <3>2. CASE ~ObserveClear
      <4>1. KernelForgets
        BY <3>2, <2>1, <2>3, <1>3 DEF ForgetInv
      <4>2. CASE ObservePrompt
        <5>1. Observed
          BY <4>2, <1>2 DEF ObservePrompt, Observed
        <5>2. ConvRooted' /\ UserTexts(conv') = UserTexts(conv) + 1
          BY <4>1, <4>2, <5>1, PromptRooted DEF KernelForgets, Observed
        <5>3. Unasked = 1 /\ Unasked' = 0
          <6>1. ~Unsent /\ ~Queued
            BY <5>1, <1>3 DEF FlowInv, OnePlace
          <6>2. ~Unsent' /\ ~Queued' /\ ~Observed'
            BY <6>1, <4>2 DEF Unsent, Queued, Observed, ObservePrompt
          <6> QED
            BY <5>1, <6>2 DEF Unasked
        <5>4. UserTexts(conv) + 1 <= sent - base
          BY <4>1, <5>3 DEF KernelForgets
        <5>5. UserTexts(conv') + Unasked' <= sent' - base'
          BY <5>2, <5>3, <5>4, <1>2, <1>t
        <5> QED
          BY <5>2, <5>5 DEF KernelForgets
      <4>3. CASE ~ObservePrompt
        <5>1. ConvRooted' /\ UserTexts(conv') <= UserTexts(conv)
          BY <3>2, <4>1, <4>3, KernelRooted DEF KernelForgets, FlowInv
        <5>2. UserTexts(conv) + Unasked <= sent - base /\ Unasked' <= Unasked
          BY <4>1, <4>3, <2>1 DEF KernelForgets
        <5>3. UserTexts(conv') + Unasked' <= sent' - base'
          BY <5>1, <5>2, <1>2, <1>t
        <5> QED
          BY <5>1, <5>3 DEF KernelForgets
      <4> QED
        BY <4>2, <4>3
    <3> QED
      BY <3>1, <3>2
  <2> QED
    BY <2>1, <2>2, <2>3
<1> QED
  BY <1>1, <1>3 DEF ForgetInv

LEMMA ForgetStep ==
    ASSUME ForgetInv, FlowInv, KernelInv, FlowInv', KernelInv', [ChatNext]_chatVars
    PROVE  ForgetInv'
<1> USE DEF inner, host, view, tasks, store, session, asks, kernelVars, chatPage
<1>1. CASE UNCHANGED chatVars
  BY <1>1, ForgetQuiet DEF chatVars
<1>2. CASE Kernel \/ KernelBatchDone
  BY <1>2, ForgetKernel DEF Kernel, KernelBatchDone
<1>3. CASE AskUser \/ CreateSkill \/ OnSkill \/ AnswerDialog \/ SkillDropped \/ DialogPump
           \/ OnInterrupt
  <2>1. /\ UNCHANGED <<phase, event, events, conv, sent, outbox, pipe, mirror>>
        /\ UNCHANGED <<saved, pump, gate, epoch, clearing, base, overlap>>
    BY <1>3 DEF AskUser, CreateSkill, OnSkill, AnswerDialog, SkillDropped, DialogPump, OnInterrupt
  <2> QED
    BY <2>1, ForgetQuiet
<1>4. CASE OnClear \/ ClearLock \/ ClearFails \/ ClearDelete \/ ClearCommit
  BY <1>4, ForgetClearing, ForgetCommit
<1>5. CASE OnSend(TRUE) \/ OnSend(FALSE)
  BY <1>5, ForgetSend
<1>6. CASE SendTask \/ SkillLoaded \/ PumpTake \/ PumpLock \/ PumpSaved
  BY <1>6, ForgetSendTask, ForgetSkill, ForgetPump, ForgetSaving
<1> QED
  BY <1>1, <1>2, <1>3, <1>4, <1>5, <1>6 DEF ChatNext, User, PageTasks

\* What the user has cleared does not come back, for any restored session and
\* however often it is cleared: a save that was under way is over or is given up
\* when the snapshot is deleted (session_operation_gate and session_epoch), and
\* the kernel empties its own context before it answers the next message; nor do
\* sanitizing and compaction count a message twice.
THEOREM ClearsAreForGood == ChatSpec => []ClearedForGood
<1>1. ChatInit => KernelInv /\ FlowInv /\ ForgetInv
  BY KernelInitInv, FlowInit, ForgetInit DEF ChatInit
<1>2. KernelInv /\ FlowInv /\ ForgetInv /\ [ChatNext]_chatVars
         => (KernelInv /\ FlowInv /\ ForgetInv)'
  BY KernelStep, FlowStep, ForgetStep
<1>3. KernelInv /\ FlowInv /\ ForgetInv => ClearedForGood
  <2> SUFFICES ASSUME KernelInv, FlowInv, ForgetInv, ~overlap, epoch > 0
               PROVE  /\ UserTexts(saved) <= sent - base
                      /\ phase \in {"opening", "streaming"} => UserTexts(conv) <= query - base
    BY DEF ClearedForGood
  <2>1. UserTexts(saved) <= sent - base
    BY DEF ForgetInv, PageForgets
  <2>2. ASSUME phase \in {"opening", "streaming"} PROVE UserTexts(conv) <= query - base
    <3>1. Answering /\ query = sent /\ ~ClearDue
      BY <2>2 DEF Answering, Querying, FlowInv, OnePlace, ForgetInv, MessagesFollow
    <3>2. UserTexts(conv) + Unasked <= sent - base
      BY <3>1 DEF ForgetInv, KernelForgets
    <3>3. UserTexts(conv) \in Nat /\ Unasked \in {0, 1} /\ sent \in Nat /\ base \in Nat
      BY TextsTyped DEF ForgetInv, FlowInv
    <3> QED
      BY <3>1, <3>2, <3>3
  <2> QED
    BY <2>1, <2>2
<1> QED
  BY <1>1, <1>2, <1>3, PTL DEF ChatSpec

-----------------------------------------------------------------------------
(* Sanitizing a history that has grown.                                    *)

Scan(f, c) ==
    f[0] = NothingYet /\ \A k \in 0..Len(c) - 1 : f[k + 1] = SanitizeStep(f[k], c[k + 1])

\* Two scans agree as long as they read the same messages.
LEMMA ScanOfPrefix ==
    ASSUME NEW c \in Seq(Written), NEW d \in Seq(Written), Len(c) <= Len(d),
           \A i \in 1..Len(c) : d[i] = c[i], NEW f, Scan(f, c), NEW g, Scan(g, d)
    PROVE  g[Len(c)] = f[Len(c)]
<1>a. Len(c) \in Nat /\ Len(d) \in Nat
  OBVIOUS
<1> DEFINE Bad == {k \in 0..Len(c) : g[k] # f[k]}
<1> SUFFICES ASSUME Bad # {} PROVE FALSE
  BY <1>a
<1>1. PICK k \in Bad : \A j \in Bad : k <= j
  <2>1. Bad \subseteq Nat
    BY <1>a
  <2> HIDE DEF Bad
  <2> QED
    BY <2>1, LeastNumber
<1>2. k # 0
  BY DEF Scan
<1>3. /\ k - 1 \in 0..Len(c) - 1 /\ k - 1 \in 0..Len(d) - 1 /\ (k - 1) + 1 = k /\ k \in 1..Len(c)
      /\ k - 1 \notin Bad
  BY <1>1, <1>2, <1>a
<1>4. g[k - 1] = f[k - 1] /\ d[k] = c[k]
  BY <1>3, <1>a
<1>5. f[k] = SanitizeStep(f[k - 1], c[k]) /\ g[k] = SanitizeStep(g[k - 1], d[k])
  BY <1>3 DEF Scan
<1> QED
  BY <1>4, <1>5

LEMMA ScanExists ==
    ASSUME NEW c \in Seq(Written)
    PROVE  \E f : Scan(f, c) /\ Sanitize(c) = Settle(f[Len(c)])
BY WrittenMessages, SanitizeScans DEF Scan

\* One more message, where the scan of the others is.
LEMMA ScanOneMore ==
    ASSUME NEW c \in Seq(Written), NEW m \in Written
    PROVE  \E acc : /\ Sanitize(c) = Settle(acc)
                    /\ Sanitize(Append(c, m)) = Settle(SanitizeStep(acc, m))
<1> DEFINE d == Append(c, m)
<1>1. /\ d \in Seq(Written) /\ Len(d) = Len(c) + 1 /\ Len(c) \in Nat /\ d[Len(c) + 1] = m
      /\ \A i \in 1..Len(c) : d[i] = c[i]
  BY AppendShape
<1> HIDE DEF d
<1>2. PICK f : Scan(f, c) /\ Sanitize(c) = Settle(f[Len(c)])
  BY ScanExists
<1>3. PICK g : Scan(g, d) /\ Sanitize(d) = Settle(g[Len(d)])
  BY <1>1, ScanExists
<1>4. Len(c) <= Len(d) /\ Len(c) \in 0..Len(d) - 1
  BY <1>1
<1>5. g[Len(c)] = f[Len(c)]
  BY <1>1, <1>2, <1>3, <1>4, ScanOfPrefix
<1>6. g[Len(d)] = SanitizeStep(f[Len(c)], m)
  <2>1. g[Len(c) + 1] = SanitizeStep(g[Len(c)], d[Len(c) + 1])
    BY <1>3, <1>4 DEF Scan
  <2> QED
    BY <2>1, <1>1, <1>5
<1> QED
  BY <1>2, <1>3, <1>6 DEF d

\* A message that neither calls nor answers goes behind what the scan keeps.
LEMMA StepAppends ==
    ASSUME NEW acc, NEW m \in Written, m.results = {},
           m.role = "assistant" => ~IsEffectivelyEmpty(m)
    PROVE  SanitizeStep(acc, m) = [out |-> Append(Settle(acc), m), pending |-> m.uses,
                                   at |-> Len(Settle(acc)) + 1]
<1>1. m.role = "user" => m.uses = {}
  BY WrittenFields
<1>2. m.role \in {"user", "assistant"}
  BY WrittenFields
<1>3. ~(acc.pending # {} /\ m.role = "user" /\ acc.pending \subseteq m.results)
  OBVIOUS
<1> DEFINE out == IF acc.pending # {} THEN RemoveAt(acc.out, acc.at) ELSE acc.out
<1>4. SanitizeStep(acc, m) = [out |-> Append(out, m),
                              pending |-> IF m.role = "assistant" THEN m.uses ELSE {},
                              at |-> Len(out) + 1]
  BY <1>3 DEF SanitizeStep
<1>5. out = Settle(acc)
  BY DEF Settle
<1> HIDE DEF out
<1>6. (IF m.role = "assistant" THEN m.uses ELSE {}) = m.uses
  BY <1>1, <1>2
<1> QED
  BY <1>4, <1>5, <1>6

LEMMA SanitizeAppends ==
    ASSUME NEW c \in Seq(Written), NEW m \in Written, m.uses = {}, m.results = {},
           m.role = "assistant" => ~IsEffectivelyEmpty(m)
    PROVE  Sanitize(Append(c, m)) = Append(Sanitize(c), m)
<1>1. PICK acc : Sanitize(c) = Settle(acc) /\ Sanitize(Append(c, m)) = Settle(SanitizeStep(acc, m))
  BY ScanOneMore
<1> DEFINE new == [out |-> Append(Settle(acc), m), pending |-> m.uses,
                   at |-> Len(Settle(acc)) + 1]
<1>2. SanitizeStep(acc, m) = new
  BY StepAppends
<1>3. new.out = Append(Settle(acc), m) /\ new.pending = {}
  OBVIOUS
<1> HIDE DEF new
<1>4. Settle(new) = new.out
  BY <1>3 DEF Settle
<1> QED
  BY <1>1, <1>2, <1>3, <1>4

\* Calls and all of their results stay together behind what the scan keeps.
LEMMA SanitizeRound ==
    ASSUME NEW c \in Seq(Written), NEW ids \in SUBSET ToolIds, ids # {}
    PROVE  Sanitize(Append(Append(c, Answer(FALSE, ids)), ToolResults(ids)))
              = Append(Append(Sanitize(c), Answer(FALSE, ids)), ToolResults(ids))
<1> DEFINE p == Answer(FALSE, ids)
           r == ToolResults(ids)
           d == Append(c, p)
           e == Append(d, r)
<1>a. /\ p \in Written /\ p.role = "assistant" /\ p.results = {} /\ p.uses = ids
      /\ ~IsEffectivelyEmpty(p)
      /\ r \in Written /\ r.role = "user" /\ r.uses = {} /\ r.results = ids
  BY MessagesAreWritten
<1> HIDE DEF p, r
<1>1. /\ d \in Seq(Written) /\ Len(d) = Len(c) + 1 /\ Len(c) \in Nat /\ d[Len(c) + 1] = p
      /\ \A i \in 1..Len(c) : d[i] = c[i]
  BY <1>a, AppendShape
<1> HIDE DEF d
<1>2. /\ e \in Seq(Written) /\ Len(e) = Len(d) + 1 /\ e[Len(d) + 1] = r
      /\ \A i \in 1..Len(d) : e[i] = d[i]
  BY <1>a, <1>1, AppendShape
<1> HIDE DEF e
<1>3. PICK f : Scan(f, c) /\ Sanitize(c) = Settle(f[Len(c)])
  BY ScanExists
<1>4. PICK g : Scan(g, e) /\ Sanitize(e) = Settle(g[Len(e)])
  BY <1>2, ScanExists
<1> DEFINE n == Len(c)
<1>5. /\ n \in 0..Len(e) - 1 /\ n + 1 \in 0..Len(e) - 1 /\ (n + 1) + 1 = Len(e) /\ n <= Len(e)
      /\ e[n + 1] = p /\ e[(n + 1) + 1] = r /\ \A i \in 1..n : e[i] = c[i]
  BY <1>1, <1>2
<1>6. g[n] = f[n]
  BY <1>2, <1>3, <1>4, <1>5, ScanOfPrefix
<1>7. g[n + 1] = SanitizeStep(f[n], p) /\ g[Len(e)] = SanitizeStep(g[n + 1], r)
  <2>1. g[n + 1] = SanitizeStep(g[n], e[n + 1])
    BY <1>4, <1>5 DEF Scan
  <2>2. g[(n + 1) + 1] = SanitizeStep(g[n + 1], e[(n + 1) + 1])
    BY <1>4, <1>5 DEF Scan
  <2> QED
    BY <2>1, <2>2, <1>5, <1>6
<1> HIDE DEF n
<1> DEFINE new == [out |-> Append(Settle(f[n]), p), pending |-> p.uses,
                   at |-> Len(Settle(f[n])) + 1]
<1>8. g[n + 1] = new
  BY <1>7, <1>a, StepAppends
<1>9. new.pending = ids /\ new.out = Append(Sanitize(c), p)
  BY <1>3, <1>a DEF n
<1> HIDE DEF new
<1> DEFINE last == [out |-> Append(new.out, r), pending |-> {}, at |-> Len(new.out) + 1]
<1>10. SanitizeStep(new, r) = last
  BY <1>9, <1>a DEF SanitizeStep
<1>11. last.out = Append(new.out, r) /\ last.pending = {}
  OBVIOUS
<1> HIDE DEF last
<1>12. Settle(last) = last.out
  BY <1>11 DEF Settle
<1>13. Sanitize(e) = Append(Append(Sanitize(c), p), r)
  BY <1>4, <1>7, <1>8, <1>9, <1>10, <1>11, <1>12
<1> QED
  BY <1>13 DEF p, r, d, e

-----------------------------------------------------------------------------
(* The mirror runs behind the kernel by what is in the pipe.               *)

\* What the stream pump makes of the mirror.
Heard(m, e) ==
    IF e.kind = "turn" THEN OnTurnComplete(m, e.msg)
    ELSE IF e.kind = "tool" THEN OnToolCompleted(m, e.id)
    ELSE m

\* The mirrors on the way from m through the events p, and the one at its end.
Follows(ms, m, p) ==
    /\ ms \in [0..Len(p) -> MirrorRecord] /\ ms[0] = m
    /\ \A i \in 1..Len(p) : ms[i] = Heard(ms[i - 1], p[i])
Reaches(m, p, z) == \E ms : Follows(ms, m, p) /\ ms[Len(p)] = z

LEMMA ReachesNow ==
    ASSUME NEW m \in MirrorRecord
    PROVE  Reaches(m, <<>>, m) /\ \A z : Reaches(m, <<>>, z) => z = m
<1> DEFINE ms == [i \in 0..0 |-> m]
<1>1. Len(<<>>) = 0 /\ 1..0 = {} /\ 0 \in 0..0
  OBVIOUS
<1>2. ms \in [0..0 -> MirrorRecord] /\ ms[0] = m
  BY <1>1
<1> HIDE DEF ms
<1>3. Follows(ms, m, <<>>)
  BY <1>1, <1>2 DEF Follows
<1> QED
  BY <1>1, <1>2, <1>3 DEF Reaches, Follows

LEMMA ReachesTyped ==
    ASSUME NEW p \in Seq(PipeEvent), NEW m, NEW z, Reaches(m, p, z)
    PROVE  z \in MirrorRecord /\ m \in MirrorRecord
<1>1. PICK ms : Follows(ms, m, p) /\ ms[Len(p)] = z
  BY DEF Reaches
<1>2. 0 \in 0..Len(p) /\ Len(p) \in 0..Len(p)
  OBVIOUS
<1> QED
  BY <1>1, <1>2 DEF Follows

\* The pump takes the first event.
LEMMA ReachesTail ==
    ASSUME NEW p \in Seq(PipeEvent), p # <<>>, NEW m, NEW z, Reaches(m, p, z)
    PROVE  Reaches(Heard(m, Head(p)), Tail(p), z)
<1>1. PICK ms : Follows(ms, m, p) /\ ms[Len(p)] = z
  BY DEF Reaches
<1> DEFINE q == Tail(p)
           ns == [i \in 0..Len(q) |-> ms[i + 1]]
<1>2. /\ Len(q) = Len(p) - 1 /\ Len(p) \in Nat /\ Len(p) > 0 /\ Head(p) = p[1]
      /\ \A i \in 1..Len(q) : q[i] = p[i + 1]
  BY TailShape
<1> HIDE DEF q
<1>3. \A i \in 0..Len(q) : i + 1 \in 0..Len(p)
  BY <1>2
<1>4. ns \in [0..Len(q) -> MirrorRecord]
  BY <1>1, <1>3 DEF Follows
<1>5. ns[0] = Heard(m, Head(p))
  <2>1. 0 \in 0..Len(q) /\ 0 + 1 = 1 /\ 1 \in 1..Len(p) /\ 1 - 1 = 0
    BY <1>2
  <2>2. ns[0] = ms[1]
    BY <2>1
  <2>3. ms[1] = Heard(ms[0], p[1])
    <3>1. ms[1] = Heard(ms[1 - 1], p[1])
      BY <1>1, <2>1 DEF Follows
    <3> QED
      BY <3>1, <2>1
  <2> QED
    BY <2>2, <2>3, <1>1, <1>2 DEF Follows
<1>6. ASSUME NEW i \in 1..Len(q) PROVE ns[i] = Heard(ns[i - 1], q[i])
  <2>1. i \in 0..Len(q) /\ i - 1 \in 0..Len(q) /\ i + 1 \in 1..Len(p) /\ (i - 1) + 1 = i
        /\ (i + 1) - 1 = i
    BY <1>2
  <2>2. ns[i] = ms[i + 1] /\ ns[i - 1] = ms[i]
    <3>1. ns[i - 1] = ms[(i - 1) + 1]
      BY <2>1
    <3> QED
      BY <3>1, <2>1
  <2>3. ms[i + 1] = Heard(ms[i], p[i + 1])
    <3>1. ms[i + 1] = Heard(ms[(i + 1) - 1], p[i + 1])
      BY <1>1, <2>1 DEF Follows
    <3> QED
      BY <3>1, <2>1
  <2> QED
    BY <2>2, <2>3, <1>2
<1>7. ns[Len(q)] = z
  <2>1. Len(q) \in 0..Len(q) /\ Len(q) + 1 = Len(p)
    BY <1>2
  <2>2. ns[Len(q)] = ms[Len(q) + 1]
    BY <2>1
  <2> QED
    BY <2>1, <2>2, <1>1
<1> HIDE DEF ns
<1>8. Follows(ns, Heard(m, Head(p)), q)
  BY <1>4, <1>5, <1>6 DEF Follows
<1> QED
  BY <1>7, <1>8 DEF Reaches, q

\* The kernel emits more.
LEMMA ReachesOn ==
    ASSUME NEW p \in Seq(PipeEvent), NEW q \in Seq(PipeEvent), NEW m, NEW y, NEW z,
           Reaches(m, p, y), Reaches(y, q, z)
    PROVE  Reaches(m, p \o q, z)
<1>1. PICK ms : Follows(ms, m, p) /\ ms[Len(p)] = y
  BY DEF Reaches
<1>2. PICK ns : Follows(ns, y, q) /\ ns[Len(q)] = z
  BY DEF Reaches
<1> DEFINE t == p \o q
           ks == [i \in 0..Len(t) |-> IF i <= Len(p) THEN ms[i] ELSE ns[i - Len(p)]]
<1>3. /\ Len(t) = Len(p) + Len(q) /\ Len(p) \in Nat /\ Len(q) \in Nat
      /\ \A i \in 1..Len(p) : t[i] = p[i]
      /\ \A i \in 1..Len(q) : t[Len(p) + i] = q[i]
  BY JoinShape
<1> HIDE DEF t
<1>4. \A i \in 0..Len(p) : i \in 0..Len(t) /\ ks[i] = ms[i]
  BY <1>3
<1>5. ASSUME NEW i \in 0..Len(q) PROVE Len(p) + i \in 0..Len(t) /\ ks[Len(p) + i] = ns[i]
  <2>1. Len(p) + i \in 0..Len(t) /\ (Len(p) + i) - Len(p) = i /\ (Len(p) + i <= Len(p) <=> i = 0)
    BY <1>3
  <2>2. CASE i = 0
    <3>1. ks[Len(p) + i] = ms[Len(p)] /\ Len(p) + i = Len(p)
      BY <2>2, <1>3, <1>4
    <3> QED
      BY <3>1, <2>1, <2>2, <1>1, <1>2 DEF Follows
  <2>3. CASE i # 0
    <3>1. ks[Len(p) + i] = ns[(Len(p) + i) - Len(p)]
      BY <2>1, <2>3
    <3> QED
      BY <3>1, <2>1
  <2> QED
    BY <2>2, <2>3
<1>6. ASSUME NEW i \in 0..Len(t)
      PROVE  i \in 0..Len(p) \/ \E j \in 1..Len(q) : i = Len(p) + j
  <2>1. CASE i <= Len(p)
    BY <2>1, <1>3
  <2>2. CASE ~(i <= Len(p))
    <3>1. i - Len(p) \in 1..Len(q) /\ i = Len(p) + (i - Len(p))
      BY <2>2, <1>3
    <3> QED
      BY <3>1
  <2> QED
    BY <2>1, <2>2
<1>7. ks = [i \in 0..Len(t) |-> ks[i]]
  OBVIOUS
<1> HIDE DEF ks
<1>8. ks \in [0..Len(t) -> MirrorRecord]
  <2>1. ASSUME NEW i \in 0..Len(t) PROVE ks[i] \in MirrorRecord
    <3>1. CASE i \in 0..Len(p)
      BY <3>1, <1>1, <1>4 DEF Follows
    <3>2. CASE i \notin 0..Len(p)
      <4>1. PICK j \in 1..Len(q) : i = Len(p) + j
        BY <3>2, <1>6
      <4>2. j \in 0..Len(q)
        BY <1>3
      <4> QED
        BY <4>1, <4>2, <1>2, <1>5 DEF Follows
    <3> QED
      BY <3>1, <3>2
  <2> QED
    BY <2>1, <1>7
<1>9. ks[0] = m
  <2>1. 0 \in 0..Len(p)
    BY <1>3
  <2> QED
    BY <2>1, <1>1, <1>4 DEF Follows
<1>10. ASSUME NEW i \in 1..Len(t) PROVE ks[i] = Heard(ks[i - 1], t[i])
  <2>1. CASE i \in 0..Len(p)
    <3>1. i \in 1..Len(p) /\ i - 1 \in 0..Len(p)
      BY <2>1, <1>3
    <3> QED
      BY <2>1, <3>1, <1>1, <1>3, <1>4 DEF Follows
  <2>2. CASE i \notin 0..Len(p)
    <3>1. PICK j \in 1..Len(q) : i = Len(p) + j
      <4>1. i \in 0..Len(t)
        BY <1>3
      <4> QED
        BY <4>1, <2>2, <1>6
    <3>2. j \in 0..Len(q) /\ j - 1 \in 0..Len(q) /\ i - 1 = Len(p) + (j - 1)
      BY <3>1, <1>3
    <3>3. ks[i] = ns[j] /\ ks[i - 1] = ns[j - 1] /\ t[i] = q[j]
      BY <3>1, <3>2, <1>3, <1>5
    <3> QED
      BY <3>3, <1>2 DEF Follows
  <2> QED
    BY <2>1, <2>2
<1>11. ks[Len(t)] = z
  <2>1. Len(q) \in 0..Len(q) /\ Len(t) = Len(p) + Len(q)
    BY <1>3
  <2> QED
    BY <2>1, <1>2, <1>5
<1>12. Follows(ks, m, t)
  BY <1>8, <1>9, <1>10 DEF Follows
<1> QED
  BY <1>11, <1>12 DEF Reaches, t

LEMMA ReachesOne ==
    ASSUME NEW e \in PipeEvent, NEW m \in MirrorRecord, Heard(m, e) \in MirrorRecord
    PROVE  Reaches(m, <<e>>, Heard(m, e)) /\ <<e>> \in Seq(PipeEvent)
<1> DEFINE z == Heard(m, e)
           ms == [i \in 0..1 |-> IF i = 0 THEN m ELSE z]
           p == <<e>>
<1>1. Len(p) = 1 /\ p[1] = e /\ p \in Seq(PipeEvent)
  OBVIOUS
<1> HIDE DEF p
<1>z. z \in MirrorRecord /\ z = Heard(m, e)
  OBVIOUS
<1> HIDE DEF z
<1>2. ms \in [0..1 -> MirrorRecord] /\ ms[0] = m /\ ms[1] = z
  BY <1>z
<1> HIDE DEF ms
<1>3. \A i \in 1..Len(p) : i = 1 /\ i - 1 = 0
  BY <1>1
<1>4. Follows(ms, m, p)
  BY <1>1, <1>2, <1>3, <1>z DEF Follows
<1> QED
  BY <1>1, <1>2, <1>4, <1>z DEF Reaches, p

\* SetToSeq lists every element once.
LEMMA ListIsComplete ==
    ASSUME NEW S \in SUBSET ToolIds
    PROVE  /\ Cardinality(S) \in Nat /\ (S # {} => Cardinality(S) > 0)
           /\ \A i \in 1..Cardinality(S) : SetToSeq(S)[i] \in S
           /\ \A i, j \in 1..Cardinality(S) : SetToSeq(S)[i] = SetToSeq(S)[j] => i = j
           /\ \A x \in S : \E i \in 1..Cardinality(S) : SetToSeq(S)[i] = x
<1> DEFINE n == Cardinality(S)
           s == SetToSeq(S)
<1>1. IsFiniteSet(S)
  BY ChatAssumption, FS_Subset
<1>2. n \in Nat /\ \E f \in [1..n -> S] : IsInjective(f)
  BY <1>1, FS_CardinalityType DEF ExistsBijection, Bijection, Injection
<1>3. s \in [1..n -> S] /\ IsInjective(s)
  BY <1>2 DEF SetToSeq
<1>4. S # {} => n > 0
  BY <1>1, <1>2, FS_EmptySet
<1> HIDE DEF s, n
<1>5. s \in Surjection(1..n, S)
  <2>1. s \in Injection(1..n, S)
    BY <1>3 DEF Injection
  <2>2. Cardinality(1..n) = n
    BY <1>2, FS_Interval
  <2> QED
    BY <2>1, <2>2, <1>1, FS_Injection DEF n
<1>6. \A x \in S : \E i \in 1..n : s[i] = x
  BY <1>5 DEF Surjection
<1> QED
  BY <1>2, <1>3, <1>4, <1>6 DEF IsInjective, s, n

\* The results of a round arrive one by one; the last closes it.
LEMMA ReachesRound ==
    ASSUME NEW ids \in SUBSET ToolIds, ids # {}, NEW m \in MirrorRecord, m.open = ids, m.done = {}
    PROVE  LET es == [i \in 1..Cardinality(ids) |-> ToolCompleted(SetToSeq(ids)[i])]
           IN  /\ es \in Seq(PipeEvent)
               /\ Reaches(m, es, [NoMirror EXCEPT !.msgs = Append(m.msgs, ToolResults(ids))])
<1> DEFINE n == Cardinality(ids)
           s == SetToSeq(ids)
           es == [i \in 1..n |-> ToolCompleted(s[i])]
           Upto(i) == {s[j] : j \in 1..i}
           z == [NoMirror EXCEPT !.msgs = Append(m.msgs, ToolResults(ids))]
           ms == [i \in 0..n |-> IF i = n THEN z ELSE [m EXCEPT !.done = Upto(i)]]
<1>1. /\ n \in Nat /\ n > 0 /\ \A i \in 1..n : s[i] \in ids
      /\ \A i, j \in 1..n : s[i] = s[j] => i = j
      /\ \A x \in ids : \E i \in 1..n : s[i] = x
  BY ListIsComplete
<1> HIDE DEF n, s
<1>2. m.msgs \in Seq(Written) /\ DOMAIN m = {"msgs", "open", "done"}
  BY DEF MirrorRecord
<1>3. z \in MirrorRecord
  <2> DEFINE d == Append(m.msgs, ToolResults(ids))
  <2>1. d \in Seq(Written)
    BY <1>2, MessagesAreWritten, AppendShape
  <2>2. z = [NoMirror EXCEPT !.msgs = d]
    OBVIOUS
  <2> HIDE DEF d, z
  <2> QED
    BY <2>1, <2>2 DEF NoMirror, MirrorRecord
<1>e. /\ Len(es) = n /\ es \in Seq(PipeEvent)
      /\ \A i \in 1..n : es[i].kind = "tool" /\ es[i].id = s[i]
  <2>1. \A i \in 1..n : es[i] = ToolCompleted(s[i]) /\ s[i] \in ToolIds
    BY <1>1
  <2>2. \A i \in 1..n : es[i] \in PipeEvent
    BY <2>1, EndFacts
  <2>3. Len(es) = n /\ es \in Seq(PipeEvent)
    BY <2>2, <1>1
  <2> HIDE DEF es
  <2> QED
    BY <2>1, <2>3 DEF ToolCompleted
<1>m. m = [m EXCEPT !.done = Upto(0)] /\ Upto(0) = {}
  <2>1. Upto(0) = {}
    OBVIOUS
  <2> HIDE DEF Upto
  <2> QED
    BY <2>1 DEF MirrorRecord
<1>u. ASSUME NEW i \in 0..n PROVE Upto(i) \subseteq ids
  BY <1>1
<1>4. ASSUME NEW i \in 0..n, i # n
      PROVE  /\ Upto(i) \cup ({s[i + 1]} \cap ids) = Upto(i + 1)
             /\ Upto(i + 1) = ids <=> i + 1 = n
  <2>1. i + 1 \in 1..n /\ i \in Nat
    BY <1>1, <1>4
  <2>a. 1..(i + 1) = (1..i) \cup {i + 1}
    BY <2>1
  <2>2. s[i + 1] \in ids
    BY <2>1, <1>1
  <2>3. Upto(i) \cup ({s[i + 1]} \cap ids) = Upto(i + 1)
    BY <2>a, <2>2
  <2>4. i + 1 = n => Upto(i + 1) = ids
    BY <1>1, <2>1
  <2>5. ASSUME i + 1 # n PROVE Upto(i + 1) # ids
    <3>1. n \in 1..n /\ n \notin 1..(i + 1)
      BY <2>1, <2>5, <1>1
    <3>2. \A j \in 1..(i + 1) : j \in 1..n
      BY <2>1, <1>1
    <3>3. s[n] \in ids /\ s[n] \notin Upto(i + 1)
      BY <3>1, <3>2, <1>1
    <3> QED
      BY <3>3
  <2> QED
    BY <2>3, <2>4, <2>5
<1>5. ASSUME NEW i \in 0..n, i # n
      PROVE  Heard([m EXCEPT !.done = Upto(i)], es[i + 1])
                = IF i + 1 = n THEN z ELSE [m EXCEPT !.done = Upto(i + 1)]
  <2>1. i + 1 \in 1..n
    BY <1>1, <1>5
  <2>2. es[i + 1].kind = "tool" /\ es[i + 1].id = s[i + 1]
    BY <2>1, <1>e
  <2>3. /\ Upto(i) \cup ({s[i + 1]} \cap ids) = Upto(i + 1)
        /\ Upto(i + 1) = ids <=> i + 1 = n
    BY <1>4, <1>5
  <2> HIDE DEF Upto, es
  <2> DEFINE r == [m EXCEPT !.done = Upto(i)]
  <2>4. /\ r.open = ids /\ r.done = Upto(i) /\ r.msgs = m.msgs
        /\ \A x : [r EXCEPT !.done = x] = [m EXCEPT !.done = x]
    BY DEF MirrorRecord
  <2> HIDE DEF r
  <2>5. Heard(r, es[i + 1]) = OnToolCompleted(r, s[i + 1])
    BY <2>2 DEF Heard
  <2>6. OnToolCompleted(r, s[i + 1])
           = IF r.open # {} /\ r.done \cup ({s[i + 1]} \cap r.open) = r.open
             THEN [NoMirror EXCEPT !.msgs = Append(r.msgs, ToolResults(r.open))]
             ELSE [r EXCEPT !.done = r.done \cup ({s[i + 1]} \cap r.open)]
    BY DEF OnToolCompleted
  <2>7. CASE i + 1 = n
    BY <2>3, <2>4, <2>5, <2>6, <2>7 DEF r
  <2>8. CASE i + 1 # n
    BY <2>3, <2>4, <2>5, <2>6, <2>8 DEF r
  <2> QED
    BY <2>7, <2>8
<1>6. ms \in [0..n -> MirrorRecord]
  <2>1. ASSUME NEW i \in 0..n PROVE [m EXCEPT !.done = Upto(i)] \in MirrorRecord
    <3>1. Upto(i) \in SUBSET ToolIds
      BY <1>u
    <3> HIDE DEF Upto
    <3> QED
      BY <3>1 DEF MirrorRecord
  <2> HIDE DEF z, Upto
  <2> QED
    BY <2>1, <1>3
<1>7. ms[0] = m /\ ms[n] = z
  BY <1>1, <1>m
<1>8. ASSUME NEW i \in 1..n PROVE ms[i] = Heard(ms[i - 1], es[i])
  <2>1. i - 1 \in 0..n /\ i - 1 # n /\ (i - 1) + 1 = i /\ i \in 0..n
    BY <1>1
  <2> HIDE DEF z, Upto, es
  <2>2. ms[i - 1] = [m EXCEPT !.done = Upto(i - 1)]
    BY <2>1
  <2>3. ms[i] = IF i = n THEN z ELSE [m EXCEPT !.done = Upto(i)]
    BY <2>1
  <2>4. Heard([m EXCEPT !.done = Upto(i - 1)], es[(i - 1) + 1])
                = IF (i - 1) + 1 = n THEN z ELSE [m EXCEPT !.done = Upto((i - 1) + 1)]
    BY <2>1, <1>5
  <2> HIDE DEF ms
  <2> QED
    BY <2>1, <2>2, <2>3, <2>4
<1> HIDE DEF ms, z, es
<1>9. Follows(ms, m, es)
  BY <1>6, <1>7, <1>8, <1>e DEF Follows
<1>10. es \in Seq(PipeEvent) /\ Reaches(m, es, z)
  BY <1>7, <1>9, <1>e DEF Reaches
<1> QED
  BY <1>10 DEF es, z, n, s

-----------------------------------------------------------------------------
(* Mirror and conversation.                                                *)

\* The conversation once the kernel has carried out the clears it was sent.
AfterClears == IF ClearDue THEN <<>> ELSE conv

\* The mirror m holds what the conversation holds, and the message on the way
\* to the kernel; a round under way is open in it.
Expected(m) ==
    /\ Queued \/ Observed => m.open = {} /\ Sanitize(m.msgs) = Append(Sanitize(AfterClears), UserText)
    /\ phase \in {"executing", "dispatching"} =>
          /\ m.open = batch /\ m.done = {}
          /\ \E p \in Seq(Written) : /\ m.msgs = Append(p, Answer(FALSE, batch))
                                     /\ conv = Append(Sanitize(p), Answer(FALSE, batch))
    /\ phase \in Querying => m.open = {} /\ Sanitize(m.msgs) = conv
    /\ ~(Queued \/ Observed \/ Answering) => Sanitize(FlushPending(m).msgs) = Sanitize(AfterClears)

\* So it is when the pump has taken what is in the pipe, and nothing is in the
\* pipe but what a query has emitted.
Mirrored ==
    /\ pipe # <<>> => Answering \/ Ended
    /\ \E z : Reaches(mirror, pipe, z) /\ Expected(z)

MirrorInv ==
    /\ phase \notin {"compacting", "summarizing"}
    /\ ~overlap => Mirrored

LEMMA FlushShape ==
    ASSUME NEW m \in MirrorRecord
    PROVE  /\ m.open \in SUBSET ToolIds /\ m.msgs \in Seq(Written)
           /\ FlushPending(m).msgs \in Seq(Written)
           /\ m.open = {} => FlushPending(m).msgs = m.msgs
           /\ m.open # {} => FlushPending(m).msgs = Append(m.msgs, ToolResults(m.open))
           /\ PushUserText(m).open = {}
           /\ PushUserText(m).msgs = Append(FlushPending(m).msgs, UserText)
           /\ PushUserText(m) \in MirrorRecord
<1>1. m.msgs \in Seq(Written) /\ m.open \in SUBSET ToolIds
  BY DEF MirrorRecord
<1> DEFINE b == FlushPending(m)
           r == Append(m.msgs, ToolResults(m.open))
<1>2. r \in Seq(Written)
  BY <1>1, MessagesAreWritten, AppendShape
<1> HIDE DEF r
<1>3. /\ b.open = {} /\ DOMAIN b = {"msgs", "open", "done"} /\ b \in MirrorRecord
      /\ m.open = {} => b.msgs = m.msgs
      /\ m.open # {} => b.msgs = r
  <2>1. CASE m.open = {}
    BY <2>1 DEF FlushPending, MirrorRecord
  <2>2. CASE m.open # {}
    <3>1. b = [NoMirror EXCEPT !.msgs = r]
      BY <2>2 DEF FlushPending, r
    <3> HIDE DEF b
    <3> QED
      BY <3>1, <2>2, <1>2 DEF NoMirror, MirrorRecord
  <2> QED
    BY <2>1, <2>2
<1>4. PushUserText(m) = [b EXCEPT !.msgs = Append(b.msgs, UserText)]
  BY DEF PushUserText
<1> HIDE DEF b
<1>5. PushUserText(m).open = {} /\ PushUserText(m).msgs = Append(b.msgs, UserText)
  BY <1>3, <1>4 DEF MirrorRecord
<1> QED
  BY <1>1, <1>2, <1>3, <1>5, PushCounts DEF b, r

\* The message goes into the mirror as it will go into the conversation.
LEMMA PushFits ==
    ASSUME NEW m \in MirrorRecord, NEW c, Sanitize(FlushPending(m).msgs) = Sanitize(c)
    PROVE  /\ PushUserText(m).open = {}
           /\ Sanitize(PushUserText(m).msgs) = Append(Sanitize(c), UserText)
<1>1. UserText \in Written /\ UserText.uses = {} /\ UserText.results = {} /\ UserText.role = "user"
  BY UserTextIsWritten DEF UserText
<1>2. Sanitize(Append(FlushPending(m).msgs, UserText)) = Append(Sanitize(FlushPending(m).msgs), UserText)
  BY <1>1, FlushShape, SanitizeAppends
<1> QED
  BY <1>2, FlushShape

LEMMA TurnHeard ==
    ASSUME NEW m \in MirrorRecord, NEW q \in Written
    PROVE  LET z == Heard(m, TurnComplete(q))
           IN  z \in MirrorRecord /\ z.open = q.uses /\ z.done = {} /\ z.msgs = Append(m.msgs, q)
<1> DEFINE e == TurnComplete(q)
           d == Append(m.msgs, q)
<1>1. q.uses \in SUBSET ToolIds
  BY DEF Written, Message
<1>2. d \in Seq(Written)
  BY AppendShape DEF MirrorRecord
<1>3. e.kind = "turn" /\ e.msg = q
  BY DEF TurnComplete
<1>4. Heard(m, e) = [msgs |-> d, open |-> q.uses, done |-> {}]
  BY <1>3 DEF Heard, OnTurnComplete
<1> HIDE DEF d, e
<1>5. /\ Heard(m, e) \in MirrorRecord /\ Heard(m, e).open = q.uses /\ Heard(m, e).done = {}
      /\ Heard(m, e).msgs = d
  BY <1>1, <1>2, <1>4 DEF MirrorRecord
<1> QED
  BY <1>5 DEF d, e

LEMMA EndHeard ==
    ASSUME NEW m
    PROVE  Heard(m, Error) = m /\ Heard(m, Interrupted) = m
BY DEF Heard, Error, Interrupted

LEMMA ReachesMore ==
    ASSUME FlowInv, NEW z, Reaches(mirror, pipe, z), NEW e \in PipeEvent,
           Heard(z, e) \in MirrorRecord, emitted' = <<e>>, pipe' = pipe \o emitted', UNCHANGED mirror
    PROVE  Reaches(mirror', pipe', Heard(z, e))
<1>1. pipe \in Seq(PipeEvent) /\ z \in MirrorRecord
  BY ReachesTyped DEF FlowInv, PageTyped
<1>2. Reaches(z, <<e>>, Heard(z, e)) /\ <<e>> \in Seq(PipeEvent)
  BY <1>1, ReachesOne
<1>3. Reaches(mirror, pipe \o <<e>>, Heard(z, e))
  BY <1>1, <1>2, ReachesOn
<1> QED
  BY <1>3

\* The history that a query works on needs no repair.
LEMMA SanitizedStays ==
    ASSUME NEW c \in Seq(Written), NEW d, d = Sanitize(c)
    PROVE  Sanitize(d) = d /\ d \in Seq(Written)
<1>1. Paired(d, FALSE)
  BY SanitizePairs
<1> QED
  BY <1>1, SanitizeKeeps DEF Paired

\* A step of the kernel, and what it leaves to the page.
KernelMoves ==
    /\ KernelRuns \/ ModelSpeaks \/ BatchDone
    /\ pipe' = pipe \o emitted'
    /\ UNCHANGED <<mirror, outbox, base, overlap>>

LEMMA MirrorRests ==
    ASSUME FlowInv, KernelInv, KernelMoves, ~overlap, MessagesFollow, Mirrored,
           Start \/ IdleClosed \/ IdleTimeout \/ WaitingOver \/ ObserveSystem \/ ObserveClear
    PROVE  Mirrored'
<1> USE DEF inner, Answering, Querying, Executing
<1>1. PICK z : Reaches(mirror, pipe, z) /\ Expected(z)
  BY DEF Mirrored
<1>2. /\ emitted' = <<>> /\ UNCHANGED events /\ phase' \in {"idle", "completed", "waiting"}
      /\ ~Answering /\ ~Observed /\ ~Observed'
      /\ phase \in {"created", "idle", "waiting", "observing"}
  BY DEF Start, IdleClosed, IdleTimeout, WaitingOver, ObserveSystem, ObserveClear, Observed
<1>3. pipe' = pipe /\ Queued' = Queued /\ Ended' = Ended /\ ~Answering'
  BY <1>2 DEF KernelMoves, FlowInv, PageTyped, Queued, Ended
<1>4. Reaches(mirror', pipe', z)
  BY <1>1, <1>3 DEF KernelMoves
<1>5. AfterClears' = AfterClears
  <2>1. (ClearDue' => ClearDue) /\ (ClearDue /\ ~ClearDue' => ObserveClear)
    BY KernelCarries DEF KernelMoves
  <2>2. CASE ObserveClear
    <3>1. ClearDue /\ conv' = <<>>
      BY <2>2 DEF ObserveClear, ClearDue
    <3> QED
      BY <3>1 DEF AfterClears
  <2>3. CASE ~ObserveClear
    <3>1. conv' = conv
      BY <2>3 DEF Start, IdleClosed, IdleTimeout, WaitingOver, ObserveSystem
    <3> QED
      BY <3>1, <2>1, <2>3 DEF AfterClears
  <2> QED
    BY <2>2, <2>3
<1>6. Expected(z)'
  <2>1. phase' \notin {"executing", "dispatching"} /\ phase' \notin Querying
    BY <1>2
  <2>2. /\ Queued \/ Observed => z.open = {} /\ Sanitize(z.msgs) = Append(Sanitize(AfterClears), UserText)
        /\ ~(Queued \/ Observed \/ Answering) => Sanitize(FlushPending(z).msgs) = Sanitize(AfterClears)
    BY <1>1 DEF Expected
  <2> HIDE DEF Answering, Querying, Executing
  <2> QED
    BY <2>1, <2>2, <1>2, <1>3, <1>5 DEF Expected
<1>7. pipe' # <<>> => Answering' \/ Ended'
  BY <1>2, <1>3 DEF Mirrored
<1> QED
  BY <1>4, <1>6, <1>7 DEF Mirrored

LEMMA MirrorReceives ==
    ASSUME FlowInv, KernelInv, KernelMoves, ~overlap, MessagesFollow, Mirrored, IdleReceive
    PROVE  Mirrored'
<1> USE DEF inner, Answering, Querying, Executing
<1>1. PICK z : Reaches(mirror, pipe, z) /\ Expected(z)
  BY DEF Mirrored
<1>2. /\ emitted' = <<>> /\ phase = "idle" /\ phase' = "observing" /\ UNCHANGED conv
      /\ events # <<>> /\ event' = Head(events) /\ events' = Tail(events)
  BY DEF IdleReceive
<1>3. pipe' = pipe /\ Ended' = Ended /\ ~Answering' /\ ~Answering /\ ~Observed
  BY <1>2 DEF KernelMoves, FlowInv, PageTyped, Ended, Observed
<1>4. Reaches(mirror', pipe', z)
  BY <1>1, <1>3 DEF KernelMoves
<1>e. /\ Len(events') = Len(events) - 1 /\ Len(events) \in Nat /\ Len(events) > 0
      /\ event' = events[1] /\ events[1] \in HostEvent
      /\ \A i \in 1..Len(events') : events'[i] = events[i + 1]
  BY <1>2, TailShape DEF FlowInv, PageTyped
<1>5. Queued' \/ Observed' <=> Queued
  <2>1. 1 \in 1..Len(events) /\ \A i \in 1..Len(events') : i + 1 \in 1..Len(events)
    BY <1>e
  <2>2. Queued' \/ Observed' => Queued
    BY <2>1, <1>e DEF Queued, Observed
  <2>3. ASSUME Queued PROVE Queued' \/ Observed'
    <3>1. PICK i \in 1..Len(events) : events[i].kind = "user"
      BY <2>3 DEF Queued
    <3>2. CASE i = 1
      BY <3>1, <3>2, <1>2, <1>e DEF Observed
    <3>3. CASE i # 1
      <4>1. i - 1 \in 1..Len(events') /\ (i - 1) + 1 = i
        BY <3>3, <1>e
      <4>2. events'[i - 1] = events[i]
        BY <4>1, <1>e
      <4> QED
        BY <3>1, <4>1, <4>2 DEF Queued
    <3> QED
      BY <3>2, <3>3
  <2> QED
    BY <2>2, <2>3
<1>6. AfterClears' = AfterClears
  <2>1. (ClearDue' => ClearDue) /\ (ClearDue /\ ~ClearDue' => ObserveClear)
    BY KernelCarries DEF KernelMoves
  <2>2. ~ObserveClear
    BY <1>2 DEF ObserveClear
  <2> QED
    BY <2>1, <2>2, <1>2 DEF AfterClears
<1>7. Expected(z)'
  <2>1. phase' \notin {"executing", "dispatching"} /\ phase' \notin Querying
    BY <1>2
  <2>2. /\ Queued \/ Observed => z.open = {} /\ Sanitize(z.msgs) = Append(Sanitize(AfterClears), UserText)
        /\ ~(Queued \/ Observed \/ Answering) => Sanitize(FlushPending(z).msgs) = Sanitize(AfterClears)
    BY <1>1 DEF Expected
  <2> HIDE DEF Answering, Querying, Executing
  <2> QED
    BY <2>1, <2>2, <1>3, <1>5, <1>6 DEF Expected
<1>8. pipe' # <<>> => Answering' \/ Ended'
  BY <1>3 DEF Mirrored
<1> QED
  BY <1>4, <1>7, <1>8 DEF Mirrored

LEMMA MirrorBegins ==
    ASSUME FlowInv, KernelInv, KernelMoves, ~overlap, MessagesFollow, Mirrored, mirror \in MirrorRecord,
           ObservePrompt
    PROVE  Mirrored' /\ phase' = "querying"
<1> USE DEF inner
<1>1. PICK z : Reaches(mirror, pipe, z) /\ Expected(z)
  BY DEF Mirrored
<1>2. phase = "observing" /\ event.kind = "user" /\ Observed
  BY DEF ObservePrompt, FlowInv, PageTyped, HostEvent, Observed
<1>3. ~ClearDue /\ ~Queued /\ ~Answering /\ ~Ended /\ ~Unsent
  BY <1>2 DEF MessagesFollow, FlowInv, OnePlace
<1>4. pipe = <<>> /\ z = mirror
  <2>1. pipe = <<>>
    BY <1>3 DEF Mirrored
  <2> QED
    BY <2>1, <1>1, ReachesNow
<1>5. emitted' = <<>> /\ pipe' = <<>> /\ UNCHANGED <<events, mirror>>
  BY <1>4 DEF ObservePrompt, KernelMoves
<1>6. conv' = Append(Sanitize(conv), UserText) /\ conv' # <<>>
  <2>1. conv' = Append(Sanitize(conv), UserText)
    BY <1>2 DEF ObservePrompt
  <2>2. Sanitize(conv) \in Seq(Written) /\ UserText \in Written
    BY SanitizePairsTidy, UserTextIsWritten DEF KernelInv, LoopTyped, Paired
  <2> QED
    BY <2>1, <2>2, AppendShape
<1>7. phase' = "querying"
  BY <1>6 DEF ObservePrompt
<1>8. mirror.open = {} /\ Sanitize(mirror.msgs) = conv'
  BY <1>1, <1>2, <1>3, <1>4, <1>6 DEF Expected, AfterClears
<1>9. ~Queued' /\ ~Observed' /\ Answering' /\ phase' \notin {"executing", "dispatching"}
  BY <1>3, <1>5, <1>7 DEF Queued, Observed, Answering, Querying
<1>10. Expected(mirror)'
  BY <1>5, <1>8, <1>9 DEF Expected
<1>11. Reaches(mirror', pipe', mirror)
  BY <1>5, ReachesNow
<1> QED
  BY <1>5, <1>7, <1>10, <1>11 DEF Mirrored

\* An end that was emitted is in the pipe.
LEMMA EndsPipe ==
    ASSUME FlowInv, NEW e \in PipeEvent, UnlocksInput(e), emitted' = <<e>>, pipe' = pipe \o emitted'
    PROVE  Ended'
<1>1. /\ pipe \in Seq(PipeEvent) /\ <<e>> \in Seq(PipeEvent) /\ Len(<<e>>) = 1 /\ <<e>>[1] = e
  BY DEF FlowInv, PageTyped
<1>2. pipe' = pipe \o <<e>>
  OBVIOUS
<1>3. Len(pipe') = Len(pipe) + 1 /\ Len(pipe) \in Nat /\ pipe'[Len(pipe) + 1] = e
  <2> DEFINE t == <<e>>
  <2>1. t \in Seq(PipeEvent) /\ Len(t) = 1 /\ t[1] = e /\ 1 \in 1..Len(t)
    BY <1>1
  <2>2. pipe' = pipe \o t
    BY <1>2
  <2> HIDE DEF t
  <2> QED
    BY <1>1, <2>1, <2>2, JoinShape
<1> QED
  BY <1>3 DEF Ended

\* While the kernel answers, neither a message nor a clear is on the way to it.
LEMMA NothingElse ==
    ASSUME FlowInv, ~overlap, MessagesFollow, Answering, UNCHANGED events, phase' # "observing"
    PROVE  ~Queued' /\ ~Observed' /\ ~ClearDue' /\ AfterClears' = conv'
<1>1. ~Queued /\ ~ClearDue
  BY DEF MessagesFollow, FlowInv, OnePlace
<1> QED
  BY <1>1 DEF Queued, Observed, ClearDue, AfterClears

\* The query goes on without a word.
LEMMA MirrorWaits ==
    ASSUME FlowInv, KernelMoves, ~overlap, MessagesFollow, Mirrored,
           QueryTurn \/ OpenStream \/ StreamComplete \/ BatchDispatch
    PROVE  Mirrored'
<1> USE DEF inner, Querying, Executing
<1>1. PICK z : Reaches(mirror, pipe, z) /\ Expected(z)
  BY DEF Mirrored
<1>2. /\ emitted' = <<>> /\ UNCHANGED <<events, conv, batch>> /\ Answering /\ Answering'
      /\ phase' # "observing"
      /\ \/ phase \in Querying /\ phase' \in Querying /\ phase' \notin {"executing", "dispatching"}
         \/ phase = "executing" /\ phase' = "dispatching" /\ phase' \notin Querying
  BY DEF QueryTurn, OpenStream, StreamComplete, BatchDispatch, Answering
<1>3. pipe' = pipe
  BY <1>2 DEF KernelMoves, FlowInv, PageTyped
<1>4. Reaches(mirror', pipe', z)
  BY <1>1, <1>3 DEF KernelMoves
<1>5. ~Queued' /\ ~Observed'
  BY <1>2, NothingElse
<1> HIDE DEF Querying, Executing
<1>6. Expected(z)'
  BY <1>1, <1>2, <1>5 DEF Expected
<1> QED
  BY <1>2, <1>4, <1>6 DEF Mirrored

\* It fails, or is stopped between two rounds.
LEMMA MirrorFails ==
    ASSUME FlowInv, KernelMoves, ~overlap, MessagesFollow, Mirrored,
           \/ QueryLimit \/ OpenFails \/ StreamGivesUp \/ StreamEnds \/ AnswerEmpty \/ AnswerInvalid
           \/ QueryInterrupted \/ StreamInterrupted
    PROVE  Mirrored'
<1> USE DEF inner, Querying, Executing
<1>0. ~Hooks
  BY ChatAssumption
<1>1. PICK z : Reaches(mirror, pipe, z) /\ Expected(z)
  BY DEF Mirrored
<1>2. /\ emitted' = <<Error>> \/ emitted' = <<Interrupted>>
      /\ UNCHANGED <<events, conv>> /\ phase \in Querying /\ phase' = "idle" /\ Answering /\ ~Answering'
  BY <1>0 DEF QueryLimit, OpenFails, StreamGivesUp, StreamEnds, AnswerEmpty, AnswerInvalid,
              QueryInterrupted, StreamInterrupted, Answering
<1>3. z \in MirrorRecord /\ pipe' = pipe \o emitted' /\ UNCHANGED mirror
  BY <1>1, ReachesTyped DEF FlowInv, PageTyped, KernelMoves
<1>4. PICK e \in PipeEvent : emitted' = <<e>> /\ Heard(z, e) = z
  BY <1>2, EndFacts, EndHeard
<1>5. Reaches(mirror', pipe', z)
  BY <1>1, <1>3, <1>4, ReachesMore
<1>6. ~Queued' /\ ~Observed' /\ AfterClears' = conv'
  BY <1>2, NothingElse
<1>7. z.open = {} /\ Sanitize(z.msgs) = conv
  BY <1>1, <1>2 DEF Expected
<1>8. Sanitize(FlushPending(z).msgs) = Sanitize(conv)
  <2>1. FlushPending(z).msgs = z.msgs /\ z.msgs \in Seq(Written)
    BY <1>3, <1>7, FlushShape
  <2>2. Sanitize(conv) = conv
    BY <2>1, <1>7, SanitizedStays
  <2> QED
    BY <2>1, <2>2, <1>7
<1>9. phase' \notin {"executing", "dispatching"} /\ phase' \notin Querying
  BY <1>2
<1> HIDE DEF Querying, Executing
<1>10. Expected(z)'
  BY <1>2, <1>6, <1>8, <1>9 DEF Expected
<1>11. Ended'
  BY <1>2, <1>3, EndFacts, EndsPipe
<1> QED
  BY <1>5, <1>10, <1>11 DEF Mirrored

LEMMA MirrorAnswered ==
    ASSUME FlowInv, KernelMoves, ~overlap, MessagesFollow, Mirrored, AnswerFinal
    PROVE  Mirrored'
<1> USE DEF Querying, Executing
<1>0. ~Hooks
  BY ChatAssumption
<1> DEFINE q == Answer(TRUE, {})
           e == TurnComplete(q)
<1>1. PICK z : Reaches(mirror, pipe, z) /\ Expected(z)
  BY DEF Mirrored
<1>2. /\ emitted' = <<e>> /\ conv' = Append(conv, q)
      /\ UNCHANGED events /\ phase \in Querying /\ phase' = "idle" /\ Answering /\ ~Answering'
  BY <1>0 DEF AnswerFinal, Answering
<1>3. z \in MirrorRecord /\ pipe' = pipe \o emitted' /\ UNCHANGED mirror
  BY <1>1, ReachesTyped DEF FlowInv, PageTyped, KernelMoves
<1>q. /\ q \in Written /\ q.role = "assistant" /\ q.uses = {} /\ q.results = {}
      /\ ~IsEffectivelyEmpty(q)
  BY MessagesAreWritten
<1>5. e \in PipeEvent /\ UnlocksInput(e)
  BY EndFacts
<1> HIDE DEF q
<1>4. /\ Heard(z, e) \in MirrorRecord /\ Heard(z, e).open = {}
      /\ Heard(z, e).msgs = Append(z.msgs, q)
  BY <1>3, <1>q, TurnHeard
<1> HIDE DEF e
<1> DEFINE y == Heard(z, e)
<1>6. Reaches(mirror', pipe', y)
  BY <1>1, <1>2, <1>3, <1>4, <1>5, ReachesMore
<1>7. ~Queued' /\ ~Observed' /\ AfterClears' = conv'
  BY <1>2, NothingElse
<1>8. Sanitize(z.msgs) = conv /\ z.msgs \in Seq(Written)
  BY <1>1, <1>2, <1>3, FlushShape DEF Expected
<1>9. Sanitize(FlushPending(y).msgs) = Sanitize(conv')
  <2>1. FlushPending(y).msgs = Append(z.msgs, q)
    BY <1>4, FlushShape
  <2>2. Sanitize(Append(z.msgs, q)) = Append(conv, q)
    BY <1>8, <1>q, SanitizeAppends
  <2>3. Append(z.msgs, q) \in Seq(Written)
    BY <1>8, <1>q, AppendShape
  <2>4. Sanitize(Append(conv, q)) = Append(conv, q)
    BY <2>2, <2>3, SanitizedStays
  <2> QED
    BY <2>1, <2>2, <2>4, <1>2
<1>10. phase' \notin {"executing", "dispatching"} /\ phase' \notin Querying
  BY <1>2
<1> HIDE DEF Querying, Executing, y
<1>11. Expected(y)'
  BY <1>2, <1>7, <1>9, <1>10 DEF Expected
<1>12. Ended'
  BY <1>2, <1>3, <1>5, EndsPipe
<1> QED
  BY <1>6, <1>11, <1>12 DEF Mirrored

LEMMA MirrorCalls ==
    ASSUME FlowInv, KernelMoves, ~overlap, MessagesFollow, Mirrored, AnswerWithTools
    PROVE  Mirrored'
<1> USE DEF Querying, Executing
<1>0. PICK ids \in (SUBSET ToolIds) \ {{}} :
          /\ batch' = ids /\ conv' = Append(conv, Answer(FALSE, ids))
          /\ emitted' = <<TurnComplete(Answer(FALSE, ids))>>
  BY DEF AnswerWithTools
<1> DEFINE q == Answer(FALSE, ids)
           e == TurnComplete(q)
<1>1. PICK z : Reaches(mirror, pipe, z) /\ Expected(z)
  BY DEF Mirrored
<1>2. /\ UNCHANGED events /\ phase \in Querying /\ phase' = "executing" /\ Answering /\ Answering'
  BY DEF AnswerWithTools, Answering
<1>3. z \in MirrorRecord /\ pipe' = pipe \o emitted' /\ UNCHANGED mirror
  BY <1>1, ReachesTyped DEF FlowInv, PageTyped, KernelMoves
<1>q. q \in Written /\ q.uses = ids
  BY MessagesAreWritten
<1>4. /\ Heard(z, e) \in MirrorRecord /\ Heard(z, e).open = ids /\ Heard(z, e).done = {}
      /\ Heard(z, e).msgs = Append(z.msgs, q)
  BY <1>3, <1>q, TurnHeard
<1>5. e \in PipeEvent
  BY EndFacts
<1>6. emitted' = <<e>> /\ conv' = Append(conv, q)
  BY <1>0
<1> HIDE DEF e
<1> DEFINE y == Heard(z, e)
<1>7. Reaches(mirror', pipe', y)
  BY <1>1, <1>3, <1>4, <1>5, <1>6, ReachesMore
<1>8. ~Queued' /\ ~Observed'
  BY <1>2, NothingElse
<1>9. Sanitize(z.msgs) = conv /\ z.msgs \in Seq(Written)
  BY <1>1, <1>2, <1>3, FlushShape DEF Expected
<1>10. phase' \notin Querying
  BY <1>2
<1>11. \E p \in Seq(Written) : /\ y.msgs = Append(p, Answer(FALSE, batch'))
                               /\ conv' = Append(Sanitize(p), Answer(FALSE, batch'))
  BY <1>0, <1>4, <1>9
<1>12. y.open = batch' /\ y.done = {}
  BY <1>0, <1>4
<1> HIDE DEF Querying, Executing, y
<1>13. Expected(y)'
  BY <1>2, <1>8, <1>10, <1>11, <1>12 DEF Expected
<1> QED
  BY <1>2, <1>7, <1>13 DEF Mirrored

\* The batch has its results, as the mirror will have them.
LEMMA RoundCloses ==
    ASSUME KernelInv, NEW z \in MirrorRecord, Expected(z), phase \in {"executing", "dispatching"}
    PROVE  /\ z.open = batch /\ z.done = {} /\ batch \in SUBSET ToolIds /\ batch # {}
           /\ Sanitize(Append(z.msgs, ToolResults(batch))) = Append(conv, ToolResults(batch))
           /\ Append(z.msgs, ToolResults(batch)) \in Seq(Written)
<1>1. batch \in SUBSET ToolIds /\ batch # {}
  BY DEF KernelInv, LoopTyped
<1>2. z.open = batch /\ z.done = {}
  BY DEF Expected
<1>3. PICK p \in Seq(Written) : /\ z.msgs = Append(p, Answer(FALSE, batch))
                                /\ conv = Append(Sanitize(p), Answer(FALSE, batch))
  BY DEF Expected
<1>4. Sanitize(Append(Append(p, Answer(FALSE, batch)), ToolResults(batch)))
              = Append(Append(Sanitize(p), Answer(FALSE, batch)), ToolResults(batch))
  BY <1>1, SanitizeRound
<1>5. Append(z.msgs, ToolResults(batch)) \in Seq(Written)
  BY <1>1, FlushShape, MessagesAreWritten, AppendShape
<1> QED
  BY <1>1, <1>2, <1>3, <1>4, <1>5

LEMMA MirrorStopped ==
    ASSUME FlowInv, KernelInv, KernelMoves, ~overlap, MessagesFollow, Mirrored, BatchInterrupted
    PROVE  Mirrored'
<1> USE DEF Querying, Executing
<1>0. ~Hooks
  BY ChatAssumption
<1>1. PICK z : Reaches(mirror, pipe, z) /\ Expected(z)
  BY DEF Mirrored
<1>2. /\ emitted' = <<Interrupted>> /\ conv' = Append(conv, ToolResults(batch))
      /\ UNCHANGED events /\ phase = "executing" /\ phase' = "idle" /\ Answering /\ ~Answering'
  BY <1>0 DEF BatchInterrupted, Answering
<1>3. z \in MirrorRecord /\ pipe' = pipe \o emitted' /\ UNCHANGED mirror
  BY <1>1, ReachesTyped DEF FlowInv, PageTyped, KernelMoves
<1>4. Reaches(mirror', pipe', z)
  BY <1>1, <1>2, <1>3, EndFacts, EndHeard, ReachesMore
<1>5. ~Queued' /\ ~Observed' /\ AfterClears' = conv'
  BY <1>2, NothingElse
<1> DEFINE d == Append(z.msgs, ToolResults(batch))
<1>6. z.open = batch /\ batch # {} /\ Sanitize(d) = conv' /\ d \in Seq(Written)
  BY <1>1, <1>2, <1>3, RoundCloses
<1>7. Sanitize(FlushPending(z).msgs) = Sanitize(conv')
  <2>1. FlushPending(z).msgs = d
    BY <1>3, <1>6, FlushShape
  <2>2. Sanitize(conv') = conv'
    BY <1>6, SanitizedStays
  <2> QED
    BY <2>1, <2>2, <1>6
<1>8. phase' \notin {"executing", "dispatching"} /\ phase' \notin Querying
  BY <1>2
<1> HIDE DEF Querying, Executing, d
<1>9. Expected(z)'
  BY <1>2, <1>5, <1>7, <1>8 DEF Expected
<1>10. Ended'
  BY <1>2, <1>3, EndFacts, EndsPipe
<1> QED
  BY <1>4, <1>9, <1>10 DEF Mirrored

LEMMA MirrorRound ==
    ASSUME FlowInv, KernelInv, KernelMoves, ~overlap, MessagesFollow, Mirrored, BatchDone
    PROVE  Mirrored'
<1> USE DEF Querying, Executing
<1>1. PICK z : Reaches(mirror, pipe, z) /\ Expected(z)
  BY DEF Mirrored
<1> DEFINE es == [i \in 1..Cardinality(batch) |-> ToolCompleted(SetToSeq(batch)[i])]
           d == Append(z.msgs, ToolResults(batch))
<1>2. /\ emitted' = es /\ conv' = Append(conv, ToolResults(batch))
      /\ UNCHANGED events /\ phase = "dispatching" /\ phase' = "querying" /\ Answering /\ Answering'
  BY DEF BatchDone, Answering
<1>3. /\ z \in MirrorRecord /\ pipe \in Seq(PipeEvent) /\ pipe' = pipe \o emitted'
      /\ UNCHANGED mirror
  BY <1>1, ReachesTyped DEF FlowInv, PageTyped, KernelMoves
<1>4. /\ z.open = batch /\ z.done = {} /\ batch \in SUBSET ToolIds /\ batch # {}
      /\ Sanitize(d) = conv' /\ d \in Seq(Written)
  BY <1>1, <1>2, <1>3, RoundCloses
<1>5. es \in Seq(PipeEvent) /\ Reaches(z, es, [NoMirror EXCEPT !.msgs = d])
  BY <1>3, <1>4, ReachesRound
<1> HIDE DEF es, d
<1>y. PICK y : Reaches(z, es, y) /\ y.open = {} /\ y.msgs = d
  <2>1. [NoMirror EXCEPT !.msgs = d].open = {} /\ [NoMirror EXCEPT !.msgs = d].msgs = d
    BY DEF NoMirror
  <2> QED
    BY <2>1, <1>5
<1>z. y.open = {} /\ Sanitize(y.msgs) = conv'
  BY <1>4, <1>y
<1>6. Reaches(mirror', pipe', y)
  BY <1>1, <1>2, <1>3, <1>5, <1>y, ReachesOn
<1>7. ~Queued' /\ ~Observed'
  BY <1>2, NothingElse
<1>8. phase' \notin {"executing", "dispatching"}
  BY <1>2
<1> HIDE DEF Querying, Executing
<1>9. Expected(y)'
  BY <1>2, <1>7, <1>8, <1>z DEF Expected
<1> QED
  BY <1>2, <1>6, <1>9 DEF Mirrored

\* The kernel moves on, and the mirror will follow.
LEMMA MirrorKernel ==
    ASSUME ~AutoCompact, FlowInv, KernelInv, ForgetInv, MirrorInv, KernelMoves
    PROVE  MirrorInv'
<1> USE DEF inner
<1>0. ~Hooks /\ phase \notin HookPhases /\ phase \notin {"compacting", "summarizing"}
  BY ChatAssumption DEF FlowInv, PageTyped, MirrorInv
<1>1. mirror \in MirrorRecord /\ (~overlap => MessagesFollow /\ Mirrored)
  BY DEF ForgetInv, SessionTyped, MirrorInv
<1>2. ~(\/ ObserveBlocked \/ CompactBlocked \/ CompactLocally \/ CompactBySummary \/ StopHookDone
        \/ HaltHookDone \/ SummaryDone \/ SummaryRetryShorter \/ SummaryRetry \/ SummaryFails)
  BY <1>0 DEF HookPhases, ObserveBlocked, CompactBlocked, CompactLocally, CompactBySummary,
              StopHookDone, HaltHookDone, SummaryDone, SummaryRetryShorter, SummaryRetry,
              SummaryFails
<1>3. overlap' = overlap
  BY DEF KernelMoves
<1>4. CASE Start \/ IdleClosed \/ IdleTimeout \/ WaitingOver \/ ObserveSystem \/ ObserveClear
  <2>1. phase' \notin {"compacting", "summarizing"}
    BY <1>4 DEF Start, IdleClosed, IdleTimeout, WaitingOver, ObserveSystem, ObserveClear
  <2> QED
    BY <2>1, <1>1, <1>3, <1>4, MirrorRests DEF MirrorInv
<1>5. CASE IdleReceive
  <2>1. phase' \notin {"compacting", "summarizing"}
    BY <1>5 DEF IdleReceive
  <2> QED
    BY <2>1, <1>1, <1>3, <1>5, MirrorReceives DEF MirrorInv
<1>6. CASE ObservePrompt
  <2>1. phase' \notin {"compacting", "summarizing"}
    BY <1>6 DEF ObservePrompt
  <2> QED
    BY <2>1, <1>1, <1>3, <1>6, MirrorBegins DEF MirrorInv
<1>7. CASE QueryTurn \/ OpenStream \/ StreamComplete \/ BatchDispatch
  <2>1. phase' \notin {"compacting", "summarizing"}
    BY <1>7 DEF QueryTurn, OpenStream, StreamComplete, BatchDispatch
  <2> QED
    BY <2>1, <1>1, <1>3, <1>7, MirrorWaits DEF MirrorInv
<1>8. CASE \/ QueryLimit \/ OpenFails \/ StreamGivesUp \/ StreamEnds \/ AnswerEmpty \/ AnswerInvalid
           \/ QueryInterrupted \/ StreamInterrupted
  <2>1. phase' \notin {"compacting", "summarizing"}
    BY <1>8 DEF QueryLimit, OpenFails, StreamGivesUp, StreamEnds, AnswerEmpty, AnswerInvalid,
                QueryInterrupted, StreamInterrupted
  <2> QED
    BY <2>1, <1>1, <1>3, <1>8, MirrorFails DEF MirrorInv
<1>9. CASE AnswerFinal \/ AnswerWithTools \/ BatchInterrupted \/ BatchDone
  <2>1. phase' \notin {"compacting", "summarizing"}
    BY <1>9 DEF AnswerFinal, AnswerWithTools, BatchInterrupted, BatchDone
  <2> QED
    BY <2>1, <1>1, <1>3, <1>9, MirrorAnswered, MirrorCalls, MirrorStopped, MirrorRound DEF MirrorInv
<1> QED
  BY <1>2, <1>4, <1>5, <1>6, <1>7, <1>8, <1>9 DEF KernelMoves, KernelRuns, ModelSpeaks

\* A step of the page that touches neither.
LEMMA MirrorStays ==
    ASSUME MirrorInv, UNCHANGED <<phase, event, events, conv, batch, pipe, mirror, overlap>>
    PROVE  MirrorInv'
<1>1. /\ Queued' = Queued /\ Observed' = Observed /\ Answering' = Answering /\ Ended' = Ended
      /\ AfterClears' = AfterClears
  BY DEF Queued, Observed, Answering, Ended, AfterClears, ClearDue
<1>2. \A z : Expected(z)' = Expected(z)
  BY <1>1 DEF Expected
<1> QED
  BY <1>1, <1>2 DEF MirrorInv, Mirrored

LEMMA MirrorPump ==
    ASSUME MirrorInv, FlowInv, PumpTake
    PROVE  MirrorInv'
<1>0. /\ pipe # <<>> /\ pipe' = Tail(pipe) /\ mirror' = Heard(mirror, Head(pipe))
      /\ UNCHANGED <<phase, event, events, conv, batch, overlap>>
  BY DEF PumpTake, Heard, inner
<1>1. ASSUME ~overlap PROVE Mirrored'
  <2>1. PICK z : Reaches(mirror, pipe, z) /\ Expected(z)
    BY <1>1 DEF MirrorInv, Mirrored
  <2>2. Reaches(mirror', pipe', z)
    BY <2>1, <1>0, ReachesTail DEF FlowInv, PageTyped
  <2>3. /\ Queued' = Queued /\ Observed' = Observed /\ Answering' = Answering
        /\ AfterClears' = AfterClears
    BY <1>0 DEF Queued, Observed, Answering, AfterClears, ClearDue
  <2>4. Expected(z)'
    BY <2>1, <2>3, <1>0 DEF Expected
  <2>5. ASSUME pipe' # <<>>, ~Answering PROVE Ended'
    <3>1. Ended
      BY <2>5, <1>0, <1>1 DEF MirrorInv, Mirrored
    <3>2. PICK i \in 1..Len(pipe) : UnlocksInput(pipe[i]) /\ i = Len(pipe)
      BY <3>1, <1>1 DEF Ended, FlowInv, OnePlace
    <3>3. /\ Len(pipe') = Len(pipe) - 1 /\ Len(pipe) \in Nat /\ pipe' \in Seq(PipeEvent)
          /\ \A j \in 1..Len(pipe') : pipe'[j] = pipe[j + 1]
      BY <1>0, TailShape DEF FlowInv, PageTyped
    <3>4. Len(pipe') \in Nat /\ Len(pipe') # 0
      BY <2>5, <3>3
    <3>5. Len(pipe') \in 1..Len(pipe') /\ Len(pipe') + 1 = i
      BY <3>2, <3>3, <3>4
    <3> QED
      BY <3>2, <3>3, <3>5 DEF Ended
  <2> QED
    BY <2>2, <2>3, <2>4, <2>5 DEF Mirrored
<1> QED
  BY <1>0, <1>1 DEF MirrorInv

\* Nothing is open: the page and the kernel are at the same point.
LEMMA MirrorCalm ==
    ASSUME MirrorInv, ForgetInv, ~overlap, ~Queued, ~Observed, ~Answering, ~Ended
    PROVE  /\ pipe = <<>> /\ mirror \in MirrorRecord
           /\ Sanitize(FlushPending(mirror).msgs) = Sanitize(AfterClears)
<1>1. pipe = <<>> /\ mirror \in MirrorRecord
  BY DEF MirrorInv, Mirrored, ForgetInv, SessionTyped
<1>2. PICK z : Reaches(mirror, pipe, z) /\ Expected(z)
  BY DEF MirrorInv, Mirrored
<1>3. z = mirror
  BY <1>1, <1>2, ReachesNow
<1> QED
  BY <1>1, <1>2, <1>3 DEF Expected

\* A message goes to the kernel and into the mirror.
LEMMA MirrorPushes ==
    ASSUME MirrorInv, ForgetInv, FlowInv, ~overlap, ~Queued, ~Observed, ~Answering, ~Ended,
           NEW k \in Nat, events' = Append(events, [kind |-> "user", n |-> k]),
           mirror' = PushUserText(mirror), UNCHANGED <<phase, event, conv, batch, pipe>>
    PROVE  Mirrored'
<1>1. /\ pipe = <<>> /\ mirror \in MirrorRecord
      /\ Sanitize(FlushPending(mirror).msgs) = Sanitize(AfterClears)
  BY MirrorCalm
<1>2. AfterClears' = AfterClears
  <2>1. ClearDue' <=> ClearDue
    BY DueStays DEF FlowInv
  <2> QED
    BY <2>1 DEF AfterClears
<1> DEFINE z == PushUserText(mirror)
<1>3. z.open = {} /\ Sanitize(z.msgs) = Append(Sanitize(AfterClears), UserText)
  BY <1>1, PushFits
<1>4. mirror' \in MirrorRecord
  BY <1>1, FlushShape
<1>5. Reaches(mirror', pipe', mirror')
  BY <1>1, <1>4, ReachesNow
<1>6. Queued'
  <2> DEFINE m == [kind |-> "user", n |-> k]
  <2>1. m \in HostEvent /\ m.kind = "user" /\ events \in Seq(HostEvent)
    BY DEF HostEvent, FlowInv, PageTyped
  <2> HIDE DEF m
  <2>2. events' = Append(events, m)
    BY DEF m
  <2>3. Len(events') \in 1..Len(events') /\ events'[Len(events')] = m
    BY <2>1, <2>2, AppendShape
  <2> QED
    BY <2>1, <2>3 DEF Queued
<1>7. phase' \notin {"executing", "dispatching"} /\ phase' \notin Querying
  BY DEF Answering, Executing
<1>8. mirror'.open = {} /\ Sanitize(mirror'.msgs) = Append(Sanitize(AfterClears'), UserText)
  BY <1>2, <1>3
<1> HIDE DEF z
<1>9. Expected(mirror)'
  BY <1>6, <1>7, <1>8 DEF Expected
<1> QED
  BY <1>1, <1>5, <1>9 DEF Mirrored

LEMMA MirrorSends ==
    ASSUME MirrorInv, ForgetInv, FlowInv, SendTask \/ SkillLoaded
    PROVE  MirrorInv'
<1>0. UNCHANGED <<phase, event, conv, batch, pipe>> /\ mirror' = PushUserText(mirror)
  BY DEF SendTask, SkillLoaded, inner
<1>1. ASSUME ~overlap' PROVE Mirrored'
  <2>1. CASE SendTask
    <3>1. ~overlap /\ Unsent /\ outbox \in Seq(Nat)
      BY <2>1, <1>1 DEF SendTask, Unsent, FlowInv, PageTyped
    <3>2. ~Queued /\ ~Observed /\ ~Answering /\ ~Ended
      BY <3>1 DEF FlowInv, OnePlace
    <3>3. Head(outbox) \in Nat
      BY <3>1, TailShape DEF Unsent
    <3>4. events' = Append(events, [kind |-> "user", n |-> Head(outbox)])
      BY <2>1 DEF SendTask
    <3> QED
      BY <3>1, <3>2, <3>3, <3>4, <1>0, MirrorPushes
  <2>2. CASE SkillLoaded
    <3>a. overlap' = (overlap \/ ~InputEnabled)
      BY <2>2 DEF SkillLoaded
    <3>b. sent \in Nat
      BY DEF FlowInv, PageTyped
    <3>1. ~overlap /\ InputEnabled
      BY <3>a, <1>1
    <3>c. sent + 1 \in Nat
      BY <3>b
    <3>2. ~Queued /\ ~Observed /\ ~Answering /\ ~Ended
      BY <3>1, ComposerOpen DEF Open
    <3>3. events' = Append(events, [kind |-> "user", n |-> sent + 1])
      BY <2>2 DEF SkillLoaded
    <3> QED
      BY <3>1, <3>2, <3>3, <3>c, <1>0, MirrorPushes
  <2> QED
    BY <2>1, <2>2
<1> QED
  BY <1>0, <1>1 DEF MirrorInv

LEMMA MirrorClears ==
    ASSUME MirrorInv, ForgetInv, FlowInv, ClearCommit
    PROVE  MirrorInv'
<1>0. /\ clearing = "deleted" /\ mirror' = NoMirror
      /\ events' = Append(events, [kind |-> "clear", n |-> sent])
      /\ UNCHANGED <<phase, event, conv, batch, pipe, overlap>>
  BY DEF ClearCommit, inner
<1>1. ASSUME ~overlap PROVE Mirrored'
  <2>1. ~Queued /\ ~Observed /\ ~Answering /\ ~Ended
    BY <1>0, <1>1 DEF FlowInv, PageWaits, Open
  <2>2. pipe = <<>>
    BY <2>1, <1>1, MirrorCalm
  <2>3. mirror' \in MirrorRecord /\ mirror'.open = {} /\ mirror'.msgs = <<>>
    <3>1. <<>> \in Seq(Written)
      OBVIOUS
    <3> QED
      BY <1>0, <3>1 DEF NoMirror, MirrorRecord
  <2>4. Reaches(mirror', pipe', mirror')
    BY <2>2, <2>3, <1>0, ReachesNow
  <2> DEFINE m == [kind |-> "clear", n |-> sent]
  <2>5. m \in HostEvent /\ m.kind = "clear" /\ events \in Seq(HostEvent)
    BY DEF HostEvent, FlowInv, PageTyped
  <2>6. events' = Append(events, m)
    BY <1>0
  <2> HIDE DEF m
  <2>7. /\ Len(events') = Len(events) + 1 /\ Len(events) \in Nat /\ events'[Len(events) + 1] = m
        /\ \A i \in 1..Len(events) : events'[i] = events[i]
    BY <2>5, <2>6, AppendShape
  <2>8. ClearDue'
    BY <2>5, <2>7 DEF ClearDue
  <2>9. ~Queued'
    <3> SUFFICES ASSUME NEW i \in 1..Len(events'), events'[i].kind = "user" PROVE FALSE
      BY DEF Queued
    <3>1. i \in 1..Len(events) \/ i = Len(events) + 1
      BY <2>7
    <3> QED
      BY <3>1, <2>1, <2>5, <2>7 DEF Queued
  <2>10. ~Observed' /\ phase' \notin {"executing", "dispatching"} /\ phase' \notin Querying
    BY <2>1, <1>0 DEF Observed, Answering, Executing
  <2>11. Sanitize(FlushPending(mirror').msgs) = Sanitize(AfterClears')
    BY <2>3, <2>8, FlushShape DEF AfterClears
  <2>12. Expected(mirror)'
    BY <2>9, <2>10, <2>11 DEF Expected
  <2> QED
    BY <2>2, <2>4, <2>12, <1>0 DEF Mirrored
<1> QED
  BY <1>0, <1>1 DEF MirrorInv

LEMMA MirrorInit == ChatInit => MirrorInv
<1> SUFFICES ASSUME ChatInit PROVE MirrorInv
  OBVIOUS
<1>1. /\ mirror = [NoMirror EXCEPT !.msgs = conv] /\ events = <<>> /\ pipe = <<>> /\ phase = "created"
      /\ conv \in Seq(Written)
  BY KernelAssumption DEF ChatInit, KernelInit
<1>2. mirror \in MirrorRecord /\ mirror.open = {} /\ mirror.msgs = conv
  BY <1>1 DEF NoMirror, MirrorRecord
<1>3. /\ ~Queued /\ ~Observed /\ ~ClearDue /\ phase \notin {"compacting", "summarizing"}
      /\ phase \notin {"executing", "dispatching"} /\ phase \notin Querying
  BY <1>1 DEF Queued, Observed, ClearDue, Querying
<1>4. Sanitize(FlushPending(mirror).msgs) = Sanitize(AfterClears)
  BY <1>2, <1>3, FlushShape DEF AfterClears
<1>5. Expected(mirror)
  BY <1>3, <1>4 DEF Expected
<1>6. Reaches(mirror, pipe, mirror)
  BY <1>1, <1>2, ReachesNow
<1> QED
  BY <1>1, <1>3, <1>5, <1>6 DEF MirrorInv, Mirrored

LEMMA MirrorStep ==
    ASSUME ~AutoCompact, MirrorInv, ForgetInv, FlowInv, KernelInv, [ChatNext]_chatVars
    PROVE  MirrorInv'
<1> USE DEF inner, host, view, tasks, store, session, asks, kernelVars, chatPage
<1>1. CASE UNCHANGED chatVars
  BY <1>1, MirrorStays DEF chatVars
<1>2. CASE Kernel \/ KernelBatchDone
  <2>1. KernelMoves
    BY <1>2 DEF Kernel, KernelBatchDone, KernelMoves
  <2> QED
    BY <2>1, MirrorKernel
<1>3. CASE AskUser \/ CreateSkill \/ OnSkill \/ AnswerDialog \/ SkillDropped \/ DialogPump
           \/ OnInterrupt \/ OnSend(TRUE) \/ OnSend(FALSE)
  <2>1. UNCHANGED <<phase, event, events, conv, batch, pipe, mirror, overlap>>
    BY <1>3 DEF AskUser, CreateSkill, OnSkill, AnswerDialog, SkillDropped, DialogPump, OnInterrupt,
                OnSend
  <2> QED
    BY <2>1, MirrorStays
<1>4. CASE PumpLock \/ PumpSaved \/ OnClear \/ ClearLock \/ ClearFails \/ ClearDelete
  <2>1. UNCHANGED <<phase, event, events, conv, batch, pipe, mirror, overlap>>
    BY <1>4 DEF PumpLock, PumpSaved, OnClear, ClearLock, ClearFails, ClearDelete
  <2> QED
    BY <2>1, MirrorStays
<1>5. CASE SendTask \/ SkillLoaded \/ PumpTake \/ ClearCommit
  BY <1>5, MirrorSends, MirrorPump, MirrorClears
<1> QED
  BY <1>1, <1>2, <1>3, <1>4, <1>5 DEF ChatNext, User, PageTasks

\* Where the context is not compacted, the page's own record of the conversation
\* (ConversationMirror, which is what it saves) and the kernel's agree whenever
\* both have come to rest, for any restored session, any tools, and any number
\* of messages, Stops and clears: a round that a Stop cut off is completed in
\* both, a failed query leaves both where they were, and what the pump has not
\* applied yet is exactly what the mirror lacks.  And the composer is open.
THEOREM MirrorsAgree == ~AutoCompact => (ChatSpec => []MirrorAgrees)
<1> SUFFICES ASSUME ~AutoCompact PROVE ChatSpec => []MirrorAgrees
  OBVIOUS
<1> DEFINE Sound == KernelInv /\ FlowInv /\ ForgetInv /\ MirrorInv
<1>1. ChatInit => Sound
  BY KernelInitInv, FlowInit, ForgetInit, MirrorInit DEF ChatInit
<1>2. Sound /\ [ChatNext]_chatVars => Sound'
  <2> SUFFICES ASSUME Sound, [ChatNext]_chatVars PROVE Sound'
    OBVIOUS
  <2>1. KernelInv' /\ FlowInv' /\ MirrorInv'
    BY KernelStep, FlowStep, MirrorStep
  <2> QED
    BY <2>1, ForgetStep
<1>3. Sound => MirrorAgrees
  <2> SUFFICES ASSUME Sound, Quiet, ~overlap
               PROVE  ~busy /\ ~stopping /\ Sanitize(FlushPending(mirror).msgs) = Sanitize(conv)
    BY DEF MirrorAgrees
  <2>1. /\ ~Unsent /\ ~Queued /\ ~Observed /\ ~Answering /\ ~Ended /\ ~ClearDue
    BY DEF Quiet, Unsent, Queued, Observed, Answering, Ended, ClearDue, Querying, Executing
  <2>2. ~busy /\ ~stopping
    BY <2>1 DEF FlowInv, PageWaits, Open
  <2>3. Sanitize(FlushPending(mirror).msgs) = Sanitize(conv)
    BY <2>1, MirrorCalm DEF AfterClears
  <2> QED
    BY <2>2, <2>3
<1> QED
  BY <1>1, <1>2, <1>3, PTL DEF ChatSpec
=============================================================================
