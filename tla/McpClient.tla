------------------------------ MODULE McpClient -----------------------------
(***************************************************************************)
(* The client of an MCP server that runs as a child process                *)
(* (crates/rust-agent/src/tools/mcp.rs): StdioTransport with its request   *)
(* ids and time limits, the handshake and the listing of tools of          *)
(* McpClientManager::connect_one, and the calls of McpToolAdapter, which   *)
(* share the transport under a lock.                                       *)
(*                                                                         *)
(* A line on a pipe is two pieces, so that a write or a read may be cut in *)
(* the middle.  A piece names the request it belongs to by id, and by the  *)
(* caller that made it, which nobody looks at.                             *)
(***************************************************************************)
EXTENDS Integers, Sequences, FiniteSets, SequencesExt

CONSTANTS
    McpCalls,       \* tool calls that may be made at the same time
    Manager,        \* the caller that connects
    Cursors,        \* values of nextCursor
    MaxPages,       \* MCP_MAX_TOOL_LIST_PAGES
    MaxLines,       \* lines one request reads at most, 256 in the code
    PipePieces,     \* bound of the model: pieces a pipe holds
    MaxNotes        \* bound of the model: notifications the server sends

McpCallers == McpCalls \cup {Manager}
NoCaller == "nobody"

ASSUME McpAssumption ==
    /\ Manager \notin McpCalls /\ NoCaller \notin McpCallers
    /\ MaxPages \in Nat \ {0} /\ MaxLines \in Nat \ {0}
    /\ PipePieces \in Nat \ {0} /\ MaxNotes \in Nat

VARIABLES
    nextId,         \* StdioTransport.next_id
    stdin, stdout,  \* the pieces under way
    transport,      \* the holder of the transport's lock
    rpc,            \* what each caller is doing
    status,         \* McpConnectionStatus.state
    paging,         \* list_all_tools: cursor and seen_cursors
    child           \* the server process

mcpVars == <<nextId, stdin, stdout, transport, rpc, status, paging, child>>

Piece(c, id, end) == [who |-> c, id |-> id, end |-> end]

(* A line that can be parsed: the two halves of one message.               *)
Whole(line) ==
    /\ Len(line) = 2
    /\ line[1].end = FALSE /\ line[2].end = TRUE
    /\ line[1].who = line[2].who /\ line[1].id = line[2].id

IdleRpc == [at |-> "idle", id |-> 0, line |-> <<>>, lines |-> 0, got |-> NoCaller]

McpInit ==
    /\ nextId = 1 /\ stdin = <<>> /\ stdout = <<>>
    /\ transport = Manager
    /\ rpc = [c \in McpCallers |-> IdleRpc]
    /\ status = "pending"
    /\ paging = [stage |-> "initialize", seen |-> {}, page |-> 0]
    /\ child = [up |-> TRUE, line |-> <<>>, open |-> {}, says |-> <<>>, notes |-> 0]

-----------------------------------------------------------------------------
(* One request, under the lock.                                            *)

(* Mutant: the id is used again when the request before has failed.        *)
IdAfterAnswer(c) == nextId' = nextId

(* The id is taken whether or not the request will succeed.                *)
TakeId(c) == nextId' = nextId + 1

StartRequest(c) ==
    /\ rpc[c].at = "locked"
    /\ TakeId(c)
    /\ rpc' = [rpc EXCEPT ![c] = [IdleRpc EXCEPT !.at = "write", !.id = nextId]]
    /\ UNCHANGED <<stdin, stdout, transport, status, paging, child>>

(* What the caller does with the outcome: a tool call lets the lock go,    *)
(* the manager continues its handshake or gives up.                        *)
Outcome(c, from) ==
    /\ rpc' = [rpc EXCEPT ![c] = [IdleRpc EXCEPT
                    !.at = IF c = Manager THEN "answered" ELSE "done",
                    !.id = rpc[c].id, !.got = from]]
    /\ transport' = IF c = Manager THEN transport ELSE NoCaller

(* send_line writes while the pipe has room.                               *)
WritePiece(c) ==
    /\ rpc[c].at \in {"write", "write_rest"} /\ child.up
    /\ Len(stdin) < PipePieces
    /\ stdin' = Append(stdin, Piece(c, rpc[c].id, rpc[c].at = "write_rest"))
    /\ rpc' = [rpc EXCEPT ![c].at = IF @ = "write" THEN "write_rest" ELSE "read"]
    /\ UNCHANGED <<nextId, stdout, transport, status, paging, child>>

(* The limit of 30 s, or a child that is gone: what was written stays.     *)
RequestUnsent(c) ==
    /\ rpc[c].at \in {"write", "write_rest"}
    /\ Outcome(c, NoCaller)
    /\ UNCHANGED <<nextId, stdin, stdout, status, paging, child>>

(* read_line_bounded and read_response: a complete line is the answer, or  *)
(* is skipped when it cannot be parsed or has another id, or none.         *)
ReadPiece(c) ==
    LET line == Append(rpc[c].line, Head(stdout))
        answer == Whole(line) /\ line[1].id = rpc[c].id
    IN  /\ rpc[c].at = "read" /\ stdout # <<>>
        /\ stdout' = Tail(stdout)
        /\ \/ /\ ~Last(line).end
              /\ rpc' = [rpc EXCEPT ![c].line = line] /\ UNCHANGED transport
           \/ Last(line).end /\ answer /\ Outcome(c, line[1].who)
           \/ /\ Last(line).end /\ ~answer /\ rpc[c].lines + 1 < MaxLines
              /\ rpc' = [rpc EXCEPT ![c].line = <<>>, ![c].lines = @ + 1]
              /\ UNCHANGED transport
           \/ /\ Last(line).end /\ ~answer /\ rpc[c].lines + 1 >= MaxLines
              /\ Outcome(c, NoCaller)
        /\ UNCHANGED <<nextId, stdin, status, paging, child>>

(* The limit of 30 s, or the end of the pipe: the half of a line that was  *)
(* read is dropped with the future.                                        *)
AnswerMissed(c) ==
    /\ rpc[c].at = "read"
    /\ Outcome(c, NoCaller)
    /\ UNCHANGED <<nextId, stdin, stdout, status, paging, child>>

-----------------------------------------------------------------------------
(* McpToolAdapter::execute.                                                *)

(* session_handle: only a connected server has a session to be shared.     *)
CallTool(c) ==
    /\ rpc[c].at = "idle" /\ status \in {"connected", "failed"}
    /\ rpc' = [rpc EXCEPT ![c].at = IF status = "connected" THEN "lock" ELSE "done"]
    /\ UNCHANGED <<nextId, stdin, stdout, transport, status, paging, child>>

LockTransport(c) ==
    /\ rpc[c].at = "lock" /\ transport = NoCaller
    /\ transport' = c
    /\ rpc' = [rpc EXCEPT ![c].at = "locked"]
    /\ UNCHANGED <<nextId, stdin, stdout, status, paging, child>>

-----------------------------------------------------------------------------
(* connect_one: initialize, notifications/initialized, tools/list.         *)

AskServer ==
    /\ status = "pending" /\ rpc[Manager].at = "idle"
    /\ rpc' = [rpc EXCEPT ![Manager].at = "locked"]
    /\ UNCHANGED <<nextId, stdin, stdout, transport, status, paging, child>>

(* mark_failed: the transport is dropped and its child killed.             *)
MarkFailed ==
    /\ status' = "failed" /\ transport' = NoCaller
    /\ rpc' = [rpc EXCEPT ![Manager] = [IdleRpc EXCEPT !.at = "done"]]
    /\ stdin' = <<>> /\ stdout' = <<>>
    /\ child' = [child EXCEPT !.up = FALSE, !.open = {}, !.says = <<>>]
    /\ UNCHANGED <<nextId, paging>>

HandshakeFails == rpc[Manager].at = "answered" /\ MarkFailed

(* The answer to initialize names the right version, and the notification  *)
(* goes out.                                                               *)
Initialized ==
    /\ rpc[Manager].at = "answered" /\ rpc[Manager].got # NoCaller
    /\ paging.stage = "initialize"
    /\ paging' = [paging EXCEPT !.stage = "list"]
    /\ rpc' = [rpc EXCEPT ![Manager] = IdleRpc]
    /\ UNCHANGED <<nextId, stdin, stdout, transport, status, child>>

(* A page with another one behind it: not one seen before, and not too     *)
(* many.                                                                   *)
NextPage(cursor) ==
    /\ rpc[Manager].at = "answered" /\ rpc[Manager].got # NoCaller
    /\ paging.stage = "list"
    /\ IF cursor \in paging.seen \/ paging.page + 1 = MaxPages
       THEN MarkFailed
       ELSE /\ paging' = [paging EXCEPT !.seen = @ \cup {cursor}, !.page = @ + 1]
            /\ rpc' = [rpc EXCEPT ![Manager] = IdleRpc]
            /\ UNCHANGED <<nextId, stdin, stdout, transport, status, child>>

(* The last page: the session is shared from here on.                      *)
Connected ==
    /\ rpc[Manager].at = "answered" /\ rpc[Manager].got # NoCaller
    /\ paging.stage = "list"
    /\ status' = "connected" /\ transport' = NoCaller
    /\ rpc' = [rpc EXCEPT ![Manager] = [IdleRpc EXCEPT !.at = "done"]]
    /\ UNCHANGED <<nextId, stdin, stdout, paging, child>>

-----------------------------------------------------------------------------
(* The server (external): reads lines, answers those it can parse in any   *)
(* order and at any time, sends notifications, dies.                       *)

ServerReads ==
    LET line == Append(child.line, Head(stdin))
    IN  /\ child.up /\ stdin # <<>>
        /\ stdin' = Tail(stdin)
        /\ child' = IF Last(line).end
                    THEN [child EXCEPT !.line = <<>>,
                            !.open = IF Whole(line) THEN @ \cup {[who |-> line[1].who, id |-> line[1].id]}
                                     ELSE @]
                    ELSE [child EXCEPT !.line = line]
        /\ UNCHANGED <<nextId, stdout, transport, rpc, status, paging>>

ServerAnswers(r) ==
    /\ child.up /\ r \in child.open /\ child.says = <<>>
    /\ child' = [child EXCEPT !.open = @ \ {r},
                              !.says = <<Piece(r.who, r.id, FALSE), Piece(r.who, r.id, TRUE)>>]
    /\ UNCHANGED <<nextId, stdin, stdout, transport, rpc, status, paging>>

ServerNotifies ==
    /\ child.up /\ child.says = <<>> /\ child.notes < MaxNotes
    /\ child' = [child EXCEPT !.notes = @ + 1,
                              !.says = <<Piece(NoCaller, 0, FALSE), Piece(NoCaller, 0, TRUE)>>]
    /\ UNCHANGED <<nextId, stdin, stdout, transport, rpc, status, paging>>

ServerWrites ==
    /\ child.up /\ child.says # <<>> /\ Len(stdout) < PipePieces
    /\ stdout' = Append(stdout, Head(child.says))
    /\ child' = [child EXCEPT !.says = Tail(@)]
    /\ UNCHANGED <<nextId, stdin, transport, rpc, status, paging>>

ServerDies ==
    /\ child.up
    /\ child' = [child EXCEPT !.up = FALSE, !.open = {}, !.says = <<>>, !.line = <<>>]
    /\ stdin' = <<>>
    /\ UNCHANGED <<nextId, stdout, transport, rpc, status, paging>>

-----------------------------------------------------------------------------

RequestSteps(c) ==
    \/ StartRequest(c) \/ WritePiece(c) \/ RequestUnsent(c) \/ ReadPiece(c) \/ AnswerMissed(c)

McpNext ==
    \/ \E c \in McpCallers : RequestSteps(c)
    \/ \E c \in McpCalls : CallTool(c) \/ LockTransport(c)
    \/ AskServer \/ HandshakeFails \/ Initialized \/ Connected
    \/ \E cursor \in Cursors : NextPage(cursor)
    \/ \E r \in child.open : ServerAnswers(r)
    \/ ServerReads \/ ServerNotifies \/ ServerWrites \/ ServerDies

McpSpec == McpInit /\ [][McpNext]_mcpVars

-----------------------------------------------------------------------------

(* What a call is given is the answer to its own request: an answer that   *)
(* comes after its time limit, whole or cut by it, is skipped by whoever   *)
(* reads next, and nobody's half-written request is answered as another's  *)
(* (next_id is advanced before the request is sent; read_response compares *)
(* ids and skips what it cannot parse).  A tool call never runs on a       *)
(* server whose handshake is not complete, and only one is on the wire.    *)
AnswersReachTheirCall ==
    /\ \A c \in McpCallers : rpc[c].got \in {NoCaller, c}
    /\ \A c \in McpCalls : rpc[c].at \notin {"idle", "done"} => status = "connected"
    /\ \A c, d \in McpCallers :
        rpc[c].at \in {"write", "write_rest", "read"} /\ rpc[d].at \in {"write", "write_rest", "read"}
            => c = d

=============================================================================
