------------------------------ MODULE Snowflake ------------------------------
(***************************************************************************)
(* The lock-free id generator of the server (utils/snowflake.rs): threads  *)
(* of one process share last_timestamp and sequence, and every id of an    *)
(* order, a user, a plan or a metering row comes from generate().          *)
(*                                                                         *)
(* One action is one access to an atomic or to the system clock.           *)
(***************************************************************************)
EXTENDS Integers, Sequences

CONSTANTS
    Threads,
    MaxSequence,    \* MAX_SEQUENCE (4095): sequence numbers stay below it
    MaxClock,       \* bound of the model: the last millisecond
    MaxIds          \* bound of the model: ids issued

VARIABLES
    lastTimestamp,  \* SnowflakeGenerator.last_timestamp
    sequence,       \* SnowflakeGenerator.sequence
    clock,          \* the system clock, which may be set back
    call,           \* what each thread is at in generate(), and its locals
    issued          \* history: the (timestamp, sequence) pairs returned

vars == <<lastTimestamp, sequence, clock, call, issued>>

Init ==
    /\ lastTimestamp = 0 /\ sequence = 0
    /\ clock = 1
    /\ call = [t \in Threads |-> [pc |-> "idle", last |-> 0, now |-> 0]]
    /\ issued = <<>>

\* compose_id puts the two numbers into bits of their own as long as the
\* sequence number is at most MaxSequence.
Return(t, seq) ==
    /\ issued' = Append(issued, <<call[t].now, seq>>)
    /\ call' = [call EXCEPT ![t].pc = "idle"]

\* A call, or the next iteration of its loop, reads last_timestamp ...
Load(t) ==
    /\ \/ call[t].pc = "loop"
       \/ call[t].pc = "idle" /\ Len(issued) < MaxIds
    /\ call' = [call EXCEPT ![t] = [pc |-> "loaded", last |-> lastTimestamp,
                                    now |-> 0]]
    /\ UNCHANGED <<lastTimestamp, sequence, clock, issued>>

\* ... and then the clock.
ReadClock(t) ==
    /\ call[t].pc = "loaded"
    /\ call' = [call EXCEPT ![t].now = clock,
                            ![t].pc = CASE clock < call[t].last -> "behind"
                                        [] clock = call[t].last -> "same"
                                        [] OTHER -> "new"]
    /\ UNCHANGED <<lastTimestamp, sequence, clock, issued>>

\* Spin until the clock has caught up.
CaughtUp(t) ==
    /\ call[t].pc = "behind" /\ clock >= call[t].last
    /\ call' = [call EXCEPT ![t].pc = "loop"]
    /\ UNCHANGED <<lastTimestamp, sequence, clock, issued>>

SameMillisecond(t) ==
    /\ call[t].pc = "same"
    /\ sequence' = sequence + 1
    /\ IF sequence < MaxSequence THEN Return(t, sequence)
       ELSE call' = [call EXCEPT ![t].pc = "full"] /\ UNCHANGED issued
    /\ UNCHANGED <<lastTimestamp, clock>>

\* Spin until the next millisecond.
NextMillisecond(t) ==
    /\ call[t].pc = "full" /\ clock > call[t].now
    /\ call' = [call EXCEPT ![t].pc = "loop"]
    /\ UNCHANGED <<lastTimestamp, sequence, clock, issued>>

\* compare_exchange of last_timestamp.
Exchange(t) ==
    /\ call[t].pc = "new"
    /\ IF lastTimestamp = call[t].last
       THEN /\ lastTimestamp' = call[t].now
            /\ call' = [call EXCEPT ![t].pc = "won"]
       ELSE /\ UNCHANGED lastTimestamp
            /\ call' = [call EXCEPT ![t].pc = "loop"]
    /\ UNCHANGED <<sequence, clock, issued>>

Reset(t) ==
    /\ call[t].pc = "won"
    /\ sequence' = 0
    /\ call' = [call EXCEPT ![t].pc = "claim"]
    /\ UNCHANGED <<lastTimestamp, clock, issued>>

Claim(t) ==
    /\ call[t].pc = "claim"
    /\ sequence' = sequence + 1
    /\ Return(t, sequence)
    /\ UNCHANGED <<lastTimestamp, clock>>

Tick == /\ clock < MaxClock /\ clock' = clock + 1
        /\ UNCHANGED <<lastTimestamp, sequence, call, issued>>

SetBack == /\ clock > 1 /\ clock' = clock - 1
           /\ UNCHANGED <<lastTimestamp, sequence, call, issued>>

Generate(t) == \/ Load(t) \/ ReadClock(t) \/ CaughtUp(t)
               \/ SameMillisecond(t) \/ NextMillisecond(t)
               \/ Exchange(t) \/ Reset(t) \/ Claim(t)

Next == Tick \/ SetBack \/ \E t \in Threads : Generate(t)

Spec == Init /\ [][Next]_vars

-----------------------------------------------------------------------------
\* "no duplicate (timestamp, sequence) combination is produced under any
\* concurrency", says the doc comment of generate(): two calls never return
\* the same pair, whatever the threads and the clock do.
IdsUnique ==
    \A i, j \in 1..Len(issued) : issued[i] = issued[j] => i = j
=============================================================================
