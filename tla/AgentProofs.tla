----------------------------- MODULE AgentProofs -----------------------------
(***************************************************************************)
(* Proofs about the agent's own parts: the client of an MCP server         *)
(* (McpClient), for any number of tool calls; the tool switches of the web *)
(* client (ToolStates), for any number of accounts, tools and switches;    *)
(* the registry of background tasks (BackgroundTasks), for any number of   *)
(* tasks, waits and stops; and a skill package (SkillStore), for any       *)
(* number of versions, pages, failed writes and closed pages.              *)
(***************************************************************************)
EXTENDS McpClient, ToolStates, BackgroundTasks, SkillStore, FiniteSetTheorems, WellFoundedInduction, TLAPS

-----------------------------------------------------------------------------
(* The MCP client.                                                         *)

OnTheWire == {"write", "write_rest", "read"}

McpPiece == [who : McpCallers \cup {NoCaller}, id : Nat, end : BOOLEAN]

\* A message with the id of a request under way was made by or for its caller.
Owned(x) ==
    /\ x.id < nextId
    /\ \A c \in McpCallers : rpc[c].at \in OnTheWire /\ x.id = rpc[c].id => x.who = c

OwnedPieces == {x \in McpPiece : Owned(x)}

McpRpc == [at : {"idle", "lock", "locked", "write", "write_rest", "read", "answered", "done"},
           id : Nat, line : Seq(McpPiece), lines : Nat, got : McpCallers \cup {NoCaller}]

McpChild == [up : BOOLEAN, line : Seq(McpPiece), open : SUBSET [who : McpCallers \cup {NoCaller}, id : Nat],
             says : Seq(McpPiece), notes : Nat]

\* What the steps of the client need of its state.
RpcTyped ==
    /\ nextId \in Nat \ {0}
    /\ rpc \in [McpCallers -> McpRpc]
    /\ \A c \in McpCallers : rpc[c].got \in {NoCaller, c}
    /\ \A c \in McpCallers : rpc[c].at \in OnTheWire => 0 < rpc[c].id /\ rpc[c].id < nextId

\* The lock: the manager has it until the handshake has ended, then one call at
\* a time.
LockHolds ==
    /\ rpc[Manager].at # "done" => status = "pending" /\ transport = Manager
    /\ \A c \in McpCalls :
         /\ rpc[c].at \notin {"idle", "done"} => status = "connected"
         /\ rpc[c].at \in OnTheWire \cup {"locked"} => transport = c

\* Every message under way, whole or in part, is owned.
PipesOwned ==
    /\ stdin \in Seq(OwnedPieces) /\ stdout \in Seq(OwnedPieces)
    /\ \A c \in McpCallers : rpc[c].line \in Seq(OwnedPieces)
    /\ child.line \in Seq(OwnedPieces) /\ child.says \in Seq(OwnedPieces)
    /\ \A r \in child.open : Owned(r)
    /\ child \in McpChild

McpInv == RpcTyped /\ LockHolds /\ PipesOwned

LEMMA IdleRpcShape ==
    /\ IdleRpc \in McpRpc /\ IdleRpc.at = "idle" /\ IdleRpc.got = NoCaller
    /\ IdleRpc.line = <<>> /\ IdleRpc.id = 0
BY DEF IdleRpc, McpRpc

LEMMA McpInitInv == McpInit => McpInv
<1> SUFFICES ASSUME McpInit PROVE McpInv
  OBVIOUS
<1>1. RpcTyped
  BY IdleRpcShape DEF McpInit, RpcTyped, OnTheWire
<1>2. LockHolds
  BY IdleRpcShape DEF McpInit, LockHolds, OnTheWire, McpCallers
<1>3. PipesOwned
  <2>1. \A S : <<>> \in Seq(S)
    OBVIOUS
  <2>2. child \in McpChild
    BY <2>1 DEF McpInit, McpChild
  <2>3. child.line = <<>> /\ child.says = <<>> /\ child.open = {}
    BY DEF McpInit
  <2> QED
    BY <2>1, <2>2, <2>3, IdleRpcShape DEF McpInit, PipesOwned
<1> QED
  BY <1>1, <1>2, <1>3 DEF McpInv

\* What is owned stays owned while ids only grow and nobody takes an old one.
LEMMA OwnedStays ==
    ASSUME McpInv, nextId' \in Nat, nextId <= nextId',
           \A c \in McpCallers : rpc'[c].at \in OnTheWire =>
             \/ rpc[c].at \in OnTheWire /\ rpc'[c].id = rpc[c].id
             \/ rpc'[c].id = nextId
    PROVE  /\ \A x : x.id \in Nat /\ Owned(x) => Owned(x)'
           /\ OwnedPieces \subseteq OwnedPieces'
           /\ Seq(OwnedPieces) \subseteq Seq(OwnedPieces')
<1>1. ASSUME NEW x, x.id \in Nat, Owned(x) PROVE Owned(x)'
  BY <1>1 DEF Owned, McpInv, RpcTyped
<1>2. OwnedPieces \subseteq OwnedPieces'
  BY <1>1 DEF OwnedPieces, McpPiece
<1> QED
  BY <1>1, <1>2

\* A caller moves on, with its id or with a new one.
LEMMA CallerMoves ==
    ASSUME McpInv, NEW c \in McpCallers, NEW n \in McpRpc, rpc' = [rpc EXCEPT ![c] = n],
           n.got \in {NoCaller, c}, n.line \in Seq(OwnedPieces),
           \/ nextId' = nextId /\ (n.at \in OnTheWire => rpc[c].at \in OnTheWire /\ n.id = rpc[c].id)
           \/ nextId' = nextId + 1 /\ n.id = nextId,
           stdin' \in Seq(OwnedPieces), stdout' \in Seq(OwnedPieces), child' = child
    PROVE  RpcTyped' /\ PipesOwned'
<1>0. nextId \in Nat \ {0} /\ rpc \in [McpCallers -> McpRpc]
  BY DEF McpInv, RpcTyped
<1>1. nextId' \in Nat \ {0} /\ nextId <= nextId'
  BY <1>0
<1>2. /\ rpc' \in [McpCallers -> McpRpc] /\ rpc'[c] = n
      /\ \A d \in McpCallers : d # c => rpc'[d] = rpc[d]
  BY <1>0
<1>3. RpcTyped'
  <2>1. \A d \in McpCallers : rpc'[d].got \in {NoCaller, d}
    BY <1>2 DEF McpInv, RpcTyped
  <2>2. ASSUME NEW d \in McpCallers, rpc'[d].at \in OnTheWire
        PROVE  0 < rpc'[d].id /\ rpc'[d].id < nextId'
    <3>1. rpc[d].at \in OnTheWire => 0 < rpc[d].id /\ rpc[d].id < nextId /\ rpc[d].id \in Nat
      BY DEF McpInv, RpcTyped, McpRpc
    <3>2. \/ rpc[d].at \in OnTheWire /\ rpc'[d].id = rpc[d].id
          \/ rpc'[d].id = nextId /\ nextId' = nextId + 1
      BY <2>2, <1>2
    <3> QED
      BY <3>1, <3>2, <1>0, <1>1
  <2> QED
    BY <1>1, <1>2, <2>1, <2>2 DEF RpcTyped
<1>4. \A d \in McpCallers : rpc'[d].at \in OnTheWire =>
             \/ rpc[d].at \in OnTheWire /\ rpc'[d].id = rpc[d].id
             \/ rpc'[d].id = nextId
  BY <1>2
<1>5. /\ \A x : x.id \in Nat /\ Owned(x) => Owned(x)'
      /\ Seq(OwnedPieces) \subseteq Seq(OwnedPieces')
  BY <1>1, <1>4, OwnedStays
<1>6. \A d \in McpCallers : rpc'[d].line \in Seq(OwnedPieces)
  BY <1>2 DEF McpInv, PipesOwned
<1>7. \A r \in child.open : r.id \in Nat /\ Owned(r)
  BY DEF McpInv, PipesOwned, McpChild
<1>8. \A r \in child'.open : Owned(r)'
  BY <1>5, <1>7
<1>9. child' \in McpChild /\ child'.line \in Seq(OwnedPieces) /\ child'.says \in Seq(OwnedPieces)
  BY DEF McpInv, PipesOwned
<1>10. PipesOwned'
  BY <1>5, <1>6, <1>8, <1>9 DEF PipesOwned
<1> QED
  BY <1>3, <1>10

\* The lock stays where it is.
LEMMA LockStays ==
    ASSUME McpInv, NEW c \in McpCallers, NEW n \in McpRpc, rpc' = [rpc EXCEPT ![c] = n],
           n.at # "done" => rpc[c].at # "done",
           n.at \notin {"idle", "done"} => c = Manager \/ rpc[c].at \notin {"idle", "done"},
           n.at \in OnTheWire \cup {"locked"} => c = Manager \/ rpc[c].at \in OnTheWire \cup {"locked"},
           UNCHANGED <<status, transport>>
    PROVE  LockHolds'
<1>1. /\ rpc'[c] = n /\ \A d \in McpCallers : d # c => rpc'[d] = rpc[d]
  BY DEF McpInv, RpcTyped
<1> QED
  BY <1>1, McpAssumption DEF McpInv, LockHolds, McpCallers

LEMMA OneOnTheWire ==
    ASSUME McpInv, NEW c \in McpCallers, NEW d \in McpCallers,
           rpc[c].at \in OnTheWire, rpc[d].at \in OnTheWire
    PROVE  c = d /\ transport = c
BY DEF McpInv, LockHolds, McpCallers, OnTheWire

\* The end of a request.
LEMMA OutcomeKeeps ==
    ASSUME McpInv, NEW c \in McpCallers, NEW from \in {NoCaller, c}, Outcome(c, from),
           rpc[c].at \in OnTheWire, UNCHANGED <<nextId, status, child>>,
           stdin' \in Seq(OwnedPieces), stdout' \in Seq(OwnedPieces)
    PROVE  McpInv'
<1>1. PICK at \in {"answered", "done"} : at = IF c = Manager THEN "answered" ELSE "done"
  OBVIOUS
<1> DEFINE n == [IdleRpc EXCEPT !.at = at, !.id = rpc[c].id, !.got = from]
<1>2. rpc[c] \in McpRpc
  BY DEF McpInv, RpcTyped
<1>3. n \in McpRpc /\ n.at = at /\ n.got = from /\ n.line = <<>>
  BY <1>2, IdleRpcShape DEF McpRpc
<1>4. rpc' = [rpc EXCEPT ![c] = n]
  BY <1>1 DEF Outcome
<1> HIDE DEF n
<1>5. RpcTyped' /\ PipesOwned'
  <2>1. n.line \in Seq(OwnedPieces) /\ n.at \notin OnTheWire
    BY <1>1, <1>3 DEF OnTheWire
  <2> QED
    BY <1>3, <1>4, <2>1, CallerMoves
<1>6. CASE c = Manager
  <2>1. UNCHANGED transport /\ n.at = "answered" /\ rpc[c].at # "done"
    BY <1>1, <1>3, <1>6 DEF Outcome, OnTheWire
  <2>2. LockHolds'
    BY <1>3, <1>4, <1>6, <2>1, LockStays DEF OnTheWire
  <2> QED
    BY <1>5, <2>2 DEF McpInv
<1>7. CASE c # Manager
  <2>1. transport' = NoCaller /\ n.at = "done" /\ transport = c
    BY <1>1, <1>3, <1>7, OneOnTheWire DEF Outcome
  <2>2. /\ rpc'[c] = n /\ \A d \in McpCallers : d # c => rpc'[d] = rpc[d]
    BY <1>4 DEF McpInv, RpcTyped
  <2>3. LockHolds'
    BY <1>7, <2>1, <2>2, McpAssumption DEF McpInv, LockHolds, McpCallers, OnTheWire
  <2> QED
    BY <1>5, <2>3 DEF McpInv
<1> QED
  BY <1>6, <1>7

LEMMA RequestKeeps ==
    ASSUME McpInv, NEW c \in McpCallers, RequestSteps(c)
    PROVE  McpInv'
<1>0. /\ nextId \in Nat \ {0} /\ rpc[c] \in McpRpc /\ rpc[c].got \in {NoCaller, c}
      /\ rpc[c].line \in Seq(OwnedPieces)
      /\ stdin \in Seq(OwnedPieces) /\ stdout \in Seq(OwnedPieces)
      /\ rpc \in [McpCallers -> McpRpc]
  BY DEF McpInv, RpcTyped, PipesOwned
<1>1. CASE StartRequest(c)
  <2> DEFINE n == [IdleRpc EXCEPT !.at = "write", !.id = nextId]
  <2>1. n \in McpRpc /\ n.at = "write" /\ n.got = NoCaller /\ n.line = <<>> /\ n.id = nextId
    BY <1>0, IdleRpcShape DEF McpRpc
  <2>2. /\ rpc' = [rpc EXCEPT ![c] = n] /\ nextId' = nextId + 1 /\ rpc[c].at = "locked"
        /\ UNCHANGED <<stdin, stdout, transport, status, child>>
    BY <1>1 DEF StartRequest, TakeId
  <2> HIDE DEF n
  <2>3. RpcTyped' /\ PipesOwned'
    <3>1. n.line \in Seq(OwnedPieces)
      BY <2>1
    <3> QED
      BY <1>0, <2>1, <2>2, <3>1, CallerMoves
  <2>4. LockHolds'
    BY <2>1, <2>2, LockStays DEF OnTheWire
  <2> QED
    BY <2>3, <2>4 DEF McpInv
<1>2. CASE WritePiece(c)
  <2>1. PICK b \in BOOLEAN, at \in {"write_rest", "read"} :
          /\ stdin' = Append(stdin, Piece(c, rpc[c].id, b))
          /\ rpc' = [rpc EXCEPT ![c].at = at]
    BY <1>2 DEF WritePiece
  <2> DEFINE n == [rpc[c] EXCEPT !.at = at]
  <2>2. /\ n \in McpRpc /\ n.at = at /\ n.got = rpc[c].got /\ n.line = rpc[c].line
        /\ n.id = rpc[c].id
    BY <1>0 DEF McpRpc
  <2>3. rpc' = [rpc EXCEPT ![c] = n]
    BY <1>0, <2>1
  <2> HIDE DEF n
  <2>4. /\ rpc[c].at \in {"write", "write_rest"}
        /\ UNCHANGED <<nextId, stdout, transport, status, child>>
    BY <1>2 DEF WritePiece
  <2>5. Piece(c, rpc[c].id, b) \in OwnedPieces
    <3> DEFINE x == Piece(c, rpc[c].id, b)
    <3>1. x \in McpPiece /\ x.id = rpc[c].id /\ x.who = c
      BY <1>0 DEF Piece, McpPiece, McpRpc
    <3>2. rpc[c].id < nextId
      BY <2>4 DEF McpInv, RpcTyped, OnTheWire
    <3>3. \A d \in McpCallers : rpc[d].at \in OnTheWire => d = c
      BY <2>4, OneOnTheWire DEF OnTheWire
    <3> HIDE DEF x
    <3> QED
      BY <3>1, <3>2, <3>3 DEF OwnedPieces, Owned, x
  <2>6. stdin' \in Seq(OwnedPieces)
    BY <1>0, <2>1, <2>5
  <2>7. RpcTyped' /\ PipesOwned'
    BY <1>0, <2>2, <2>3, <2>4, <2>6, CallerMoves DEF OnTheWire
  <2>8. LockHolds'
    BY <2>2, <2>3, <2>4, LockStays DEF OnTheWire
  <2> QED
    BY <2>7, <2>8 DEF McpInv
<1>3. CASE RequestUnsent(c) \/ AnswerMissed(c)
  <2>1. /\ Outcome(c, NoCaller) /\ rpc[c].at \in OnTheWire
        /\ UNCHANGED <<nextId, stdin, stdout, status, child>>
    BY <1>3 DEF RequestUnsent, AnswerMissed, OnTheWire
  <2> QED
    BY <1>0, <2>1, OutcomeKeeps
<1>4. CASE ReadPiece(c)
  <2> DEFINE line == Append(rpc[c].line, Head(stdout))
             answer == Whole(line) /\ line[1].id = rpc[c].id
  <2>1. /\ rpc[c].at = "read" /\ stdout # <<>> /\ stdout' = Tail(stdout)
        /\ UNCHANGED <<nextId, stdin, status, child>>
    BY <1>4 DEF ReadPiece
  <2>2. stdout' \in Seq(OwnedPieces) /\ line \in Seq(OwnedPieces) /\ Len(line) >= 1
    <3>1. Head(stdout) \in OwnedPieces /\ Tail(stdout) \in Seq(OwnedPieces)
      BY <1>0, <2>1
    <3> QED
      BY <1>0, <2>1, <3>1
  <2>3. \/ rpc' = [rpc EXCEPT ![c].line = line] /\ UNCHANGED transport
        \/ answer /\ Outcome(c, line[1].who)
        \/ rpc' = [rpc EXCEPT ![c].line = <<>>, ![c].lines = @ + 1] /\ UNCHANGED transport
        \/ Outcome(c, NoCaller)
    BY <1>4 DEF ReadPiece
  <2>4. answer => line[1].who = c
    <3> SUFFICES ASSUME answer PROVE line[1].who = c
      OBVIOUS
    <3>1. line[1] \in OwnedPieces
      BY <2>2
    <3> QED
      BY <2>1, <3>1 DEF OwnedPieces, Owned, OnTheWire
  <2> HIDE DEF line, answer
  <2>5. CASE Outcome(c, NoCaller) \/ (answer /\ Outcome(c, line[1].who))
    <3>1. PICK from \in {NoCaller, c} : Outcome(c, from)
      BY <2>4, <2>5
    <3> QED
      BY <1>0, <2>1, <2>2, <3>1, OutcomeKeeps DEF OnTheWire
  <2>6. ASSUME NEW l \in Seq(OwnedPieces), NEW k \in Nat, UNCHANGED transport,
               rpc' = [rpc EXCEPT ![c] = [rpc[c] EXCEPT !.line = l, !.lines = k]]
        PROVE  McpInv'
    <3> DEFINE n == [rpc[c] EXCEPT !.line = l, !.lines = k]
    <3>1. l \in Seq(McpPiece)
      BY DEF OwnedPieces
    <3>2. /\ n \in McpRpc /\ n.at = rpc[c].at /\ n.got = rpc[c].got /\ n.line = l
          /\ n.id = rpc[c].id
      BY <1>0, <3>1 DEF McpRpc
    <3>3. rpc' = [rpc EXCEPT ![c] = n]
      BY <2>6
    <3> HIDE DEF n
    <3>4. RpcTyped' /\ PipesOwned'
      BY <1>0, <2>1, <2>2, <3>2, <3>3, CallerMoves
    <3>5. LockHolds'
      BY <2>1, <2>6, <3>2, <3>3, LockStays
    <3> QED
      BY <3>4, <3>5 DEF McpInv
  <2>7. CASE rpc' = [rpc EXCEPT ![c].line = line] /\ UNCHANGED transport
    <3>1. rpc[c].lines \in Nat
      BY <1>0 DEF McpRpc
    <3>2. rpc' = [rpc EXCEPT ![c] = [rpc[c] EXCEPT !.line = line, !.lines = rpc[c].lines]]
      BY <1>0, <2>7 DEF McpRpc
    <3> QED
      BY <2>2, <2>6, <2>7, <3>1, <3>2
  <2>8. CASE /\ rpc' = [rpc EXCEPT ![c].line = <<>>, ![c].lines = @ + 1]
             /\ UNCHANGED transport
    <3>1. PICK k \in Nat : k = rpc[c].lines + 1
      BY <1>0 DEF McpRpc
    <3>2. rpc' = [rpc EXCEPT ![c] = [rpc[c] EXCEPT !.line = <<>>, !.lines = k]]
      BY <1>0, <2>8, <3>1 DEF McpRpc
    <3>3. <<>> \in Seq(OwnedPieces)
      OBVIOUS
    <3> QED
      BY <2>6, <2>8, <3>2, <3>3
  <2> QED
    BY <2>3, <2>5, <2>7, <2>8
<1> QED
  BY <1>1, <1>2, <1>3, <1>4 DEF RequestSteps

\* A caller's own step outside a request.
LEMMA CallKeeps ==
    ASSUME McpInv, NEW c \in McpCalls, CallTool(c) \/ LockTransport(c)
    PROVE  McpInv'
<1>0. /\ c \in McpCallers /\ rpc \in [McpCallers -> McpRpc] /\ rpc[c] \in McpRpc
      /\ rpc[c].got \in {NoCaller, c} /\ rpc[c].line \in Seq(OwnedPieces)
      /\ stdin \in Seq(OwnedPieces) /\ stdout \in Seq(OwnedPieces)
      /\ UNCHANGED <<nextId, stdin, stdout, status, child>>
  BY DEF McpInv, RpcTyped, PipesOwned, McpCallers, CallTool, LockTransport
<1>1. PICK at \in {"lock", "done", "locked"} :
        /\ rpc' = [rpc EXCEPT ![c].at = at]
        /\ \/ at = "done" /\ UNCHANGED transport
           \/ at = "lock" /\ UNCHANGED transport /\ status = "connected"
           \/ /\ at = "locked" /\ transport = NoCaller /\ transport' = c
              /\ rpc[c].at = "lock"
  BY DEF CallTool, LockTransport
<1> DEFINE n == [rpc[c] EXCEPT !.at = at]
<1>2. n \in McpRpc /\ n.at = at /\ n.got = rpc[c].got /\ n.line = rpc[c].line
  BY <1>0 DEF McpRpc
<1>3. rpc' = [rpc EXCEPT ![c] = n]
  BY <1>0, <1>1
<1> HIDE DEF n
<1>4. RpcTyped' /\ PipesOwned'
  BY <1>0, <1>1, <1>2, <1>3, CallerMoves DEF OnTheWire
<1>5. /\ rpc'[c] = n /\ \A d \in McpCallers : d # c => rpc'[d] = rpc[d]
  BY <1>0, <1>3
<1>6. LockHolds'
  BY <1>0, <1>1, <1>2, <1>5, McpAssumption DEF McpInv, LockHolds, McpCallers, OnTheWire
<1> QED
  BY <1>4, <1>6 DEF McpInv

\* The manager's steps: it has the lock, and no call is under way.
LEMMA ManagerFacts ==
    ASSUME McpInv, rpc[Manager].at # "done"
    PROVE  /\ Manager \in McpCallers /\ status = "pending" /\ transport = Manager
           /\ rpc \in [McpCallers -> McpRpc] /\ rpc[Manager] \in McpRpc
           /\ rpc[Manager].got \in {NoCaller, Manager}
           /\ rpc[Manager].line \in Seq(OwnedPieces)
           /\ \A c \in McpCalls : rpc[c].at \in {"idle", "done"}
BY DEF McpInv, RpcTyped, LockHolds, PipesOwned, McpCallers

LEMMA ManagerKeeps ==
    ASSUME McpInv, \/ AskServer \/ Initialized \/ Connected
                   \/ \E cursor \in Cursors : NextPage(cursor) /\ ~MarkFailed
    PROVE  McpInv'
<1>1. PICK n \in McpRpc :
        /\ rpc' = [rpc EXCEPT ![Manager] = n] /\ rpc[Manager].at # "done"
        /\ n.got \in {NoCaller, Manager} /\ n.line \in Seq(OwnedPieces)
        /\ n.at \notin OnTheWire
        /\ \/ UNCHANGED <<status, transport>>
           \/ n.at = "done" /\ status' = "connected" /\ transport' = NoCaller
        /\ UNCHANGED <<nextId, stdin, stdout, child>>
  <2>0. <<>> \in Seq(OwnedPieces)
    OBVIOUS
  <2>1. CASE AskServer
    <3> DEFINE n == [rpc[Manager] EXCEPT !.at = "locked"]
    <3>1. rpc[Manager].at # "done"
      BY <2>1 DEF AskServer
    <3>2. n \in McpRpc /\ n.at = "locked" /\ n.got = rpc[Manager].got
          /\ n.line = rpc[Manager].line
      BY <3>1, ManagerFacts DEF McpRpc
    <3>3. rpc' = [rpc EXCEPT ![Manager] = n]
          /\ UNCHANGED <<nextId, stdin, stdout, child, status, transport>>
      BY <2>1 DEF AskServer
    <3> HIDE DEF n
    <3> QED
      BY <3>1, <3>2, <3>3, ManagerFacts DEF OnTheWire
  <2>2. CASE Initialized \/ \E cursor \in Cursors : NextPage(cursor) /\ ~MarkFailed
    <3>1. /\ rpc' = [rpc EXCEPT ![Manager] = IdleRpc] /\ rpc[Manager].at = "answered"
          /\ UNCHANGED <<nextId, stdin, stdout, child, status, transport>>
      BY <2>2 DEF Initialized, NextPage
    <3> QED
      BY <2>0, <3>1, IdleRpcShape DEF OnTheWire
  <2>3. CASE Connected
    <3> DEFINE n == [IdleRpc EXCEPT !.at = "done"]
    <3>1. n \in McpRpc /\ n.at = "done" /\ n.got = NoCaller /\ n.line = <<>>
      BY IdleRpcShape DEF McpRpc
    <3>2. /\ rpc' = [rpc EXCEPT ![Manager] = n] /\ rpc[Manager].at = "answered"
          /\ UNCHANGED <<nextId, stdin, stdout, child>>
          /\ status' = "connected" /\ transport' = NoCaller
      BY <2>3 DEF Connected
    <3> HIDE DEF n
    <3> QED
      BY <2>0, <3>1, <3>2 DEF OnTheWire
  <2> QED
    BY <2>1, <2>2, <2>3
<1>2. stdin' \in Seq(OwnedPieces) /\ stdout' \in Seq(OwnedPieces)
  BY <1>1 DEF McpInv, PipesOwned
<1>3. RpcTyped' /\ PipesOwned'
  BY <1>1, <1>2, ManagerFacts, CallerMoves
<1>4. /\ rpc'[Manager] = n /\ \A d \in McpCallers : d # Manager => rpc'[d] = rpc[d]
  BY <1>1, ManagerFacts
<1>5. LockHolds'
  BY <1>1, <1>4, ManagerFacts, McpAssumption DEF McpInv, LockHolds, McpCallers, OnTheWire
<1> QED
  BY <1>3, <1>5 DEF McpInv

LEMMA FailureKeeps ==
    ASSUME McpInv, MarkFailed, rpc[Manager].at = "answered"
    PROVE  McpInv'
<1> DEFINE n == [IdleRpc EXCEPT !.at = "done"]
<1>1. n \in McpRpc /\ n.at = "done" /\ n.got = NoCaller /\ n.line = <<>>
  BY IdleRpcShape DEF McpRpc
<1>2. /\ rpc' = [rpc EXCEPT ![Manager] = n] /\ UNCHANGED nextId
      /\ stdin' = <<>> /\ stdout' = <<>> /\ status' = "failed" /\ transport' = NoCaller
  BY DEF MarkFailed
<1> HIDE DEF n
<1>3. /\ rpc' \in [McpCallers -> McpRpc] /\ rpc'[Manager] = n
      /\ \A d \in McpCallers : d # Manager => rpc'[d] = rpc[d]
  BY <1>1, <1>2, ManagerFacts
<1>4. RpcTyped'
  BY <1>1, <1>2, <1>3 DEF McpInv, RpcTyped, OnTheWire
<1>5. LockHolds'
  BY <1>1, <1>2, <1>3, ManagerFacts, McpAssumption DEF McpInv, LockHolds, McpCallers, OnTheWire
<1>6. /\ Seq(OwnedPieces) \subseteq Seq(OwnedPieces')
  <2>1. \A d \in McpCallers : rpc'[d].at \in OnTheWire =>
             rpc[d].at \in OnTheWire /\ rpc'[d].id = rpc[d].id
    BY <1>1, <1>3 DEF OnTheWire
  <2>2. nextId' \in Nat /\ nextId <= nextId'
    BY <1>2 DEF McpInv, RpcTyped
  <2> QED
    BY <2>1, <2>2, OwnedStays
<1>7. <<>> \in Seq(OwnedPieces)
  OBVIOUS
<1>8. \A d \in McpCallers : rpc'[d].line \in Seq(OwnedPieces)
  BY <1>1, <1>3, <1>7 DEF McpInv, PipesOwned
<1>9. child' \in McpChild /\ child'.line = child.line /\ child'.open = {} /\ child'.says = <<>>
  <2>1. child \in McpChild /\ child' = [child EXCEPT !.up = FALSE, !.open = {}, !.says = <<>>]
    BY DEF McpInv, PipesOwned, MarkFailed
  <2>2. <<>> \in Seq(McpPiece)
    OBVIOUS
  <2> QED
    BY <2>1, <2>2 DEF McpChild
<1>10. child.line \in Seq(OwnedPieces)
  BY DEF McpInv, PipesOwned
<1>11. PipesOwned'
  BY <1>2, <1>6, <1>7, <1>8, <1>9, <1>10 DEF PipesOwned
<1> QED
  BY <1>4, <1>5, <1>11 DEF McpInv

\* The server makes up neither ids nor callers.
LEMMA ServerKeeps ==
    ASSUME McpInv,
           \/ ServerReads \/ ServerNotifies \/ ServerWrites \/ ServerDies
           \/ \E r \in child.open : ServerAnswers(r)
    PROVE  McpInv'
<1>0. /\ UNCHANGED <<nextId, transport, rpc, status>>
      /\ stdin \in Seq(OwnedPieces) /\ stdout \in Seq(OwnedPieces)
      /\ child.line \in Seq(OwnedPieces) /\ child.says \in Seq(OwnedPieces)
      /\ child \in McpChild /\ (\A r \in child.open : Owned(r))
      /\ nextId \in Nat \ {0} /\ rpc \in [McpCallers -> McpRpc]
  BY DEF McpInv, RpcTyped, PipesOwned, ServerReads, ServerNotifies, ServerWrites, ServerDies,
         ServerAnswers
<1>1. OwnedPieces' = OwnedPieces /\ (\A x : Owned(x)' <=> Owned(x))
  BY <1>0 DEF OwnedPieces, Owned
<1>2. RpcTyped' /\ LockHolds' /\ \A c \in McpCallers : rpc'[c].line \in Seq(OwnedPieces)
  BY <1>0 DEF McpInv, RpcTyped, LockHolds, PipesOwned
<1>3. SUFFICES ASSUME TRUE
               PROVE  /\ stdin' \in Seq(OwnedPieces) /\ stdout' \in Seq(OwnedPieces)
                      /\ child'.line \in Seq(OwnedPieces) /\ child'.says \in Seq(OwnedPieces)
                      /\ child' \in McpChild /\ (\A r \in child'.open : Owned(r))
  BY <1>0, <1>1, <1>2 DEF McpInv, PipesOwned
<1>4. \A l \in Seq(OwnedPieces) : l \in Seq(McpPiece)
  BY DEF OwnedPieces
<1>5. ASSUME NEW w \in McpCallers \cup {NoCaller}, NEW k \in Nat,
             Owned([who |-> w, id |-> k])
      PROVE  <<Piece(w, k, FALSE), Piece(w, k, TRUE)>> \in Seq(OwnedPieces)
  <2> DEFINE x == Piece(w, k, FALSE)
             y == Piece(w, k, TRUE)
  <2>1. x \in McpPiece /\ y \in McpPiece /\ x.id = k /\ y.id = k /\ x.who = w /\ y.who = w
    BY DEF Piece, McpPiece
  <2> HIDE DEF x, y
  <2>2. x \in OwnedPieces /\ y \in OwnedPieces
    BY <1>5, <2>1 DEF OwnedPieces, Owned
  <2>3. <<x, y>> \in Seq(OwnedPieces)
    BY <2>2
  <2> QED
    BY <2>3 DEF x, y
<1>6. CASE ServerReads
  <2> DEFINE line == Append(child.line, Head(stdin))
             r == [who |-> line[1].who, id |-> line[1].id]
  <2>1. stdin' = Tail(stdin) /\ stdin # <<>> /\ UNCHANGED stdout
    BY <1>6 DEF ServerReads
  <2>2. Head(stdin) \in OwnedPieces /\ Tail(stdin) \in Seq(OwnedPieces)
    BY <1>0, <2>1
  <2>3. line \in Seq(OwnedPieces) /\ Len(line) >= 1
    BY <1>0, <2>2
  <2>4. line[1] \in OwnedPieces
    BY <2>3
  <2>5. r \in [who : McpCallers \cup {NoCaller}, id : Nat] /\ Owned(r)
    BY <2>4 DEF OwnedPieces, McpPiece, Owned
  <2>6. \/ child' = [child EXCEPT !.line = <<>>, !.open = child.open \cup {r}]
        \/ child' = [child EXCEPT !.line = <<>>, !.open = child.open]
        \/ child' = [child EXCEPT !.line = line]
    BY <1>6 DEF ServerReads
  <2> HIDE DEF line, r
  <2>7. <<>> \in Seq(OwnedPieces) /\ <<>> \in Seq(McpPiece) /\ line \in Seq(McpPiece)
    BY <1>4, <2>3
  <2>8. /\ child' \in McpChild /\ child'.says = child.says
        /\ child'.line \in {<<>>, line} /\ child'.open \subseteq child.open \cup {r}
    <3>1. PICK o \in SUBSET [who : McpCallers \cup {NoCaller}, id : Nat] :
            o = child.open \cup {r}
      BY <1>0, <2>5 DEF McpChild
    <3>2. CASE child' = [child EXCEPT !.line = <<>>, !.open = child.open \cup {r}]
      <4>1. child' = [child EXCEPT !.line = <<>>, !.open = o]
        BY <3>1, <3>2
      <4> QED
        BY <1>0, <2>7, <3>1, <4>1 DEF McpChild
    <3>3. CASE child' = [child EXCEPT !.line = <<>>, !.open = child.open]
      BY <1>0, <2>7, <3>3 DEF McpChild
    <3>4. CASE child' = [child EXCEPT !.line = line]
      BY <1>0, <2>7, <3>4 DEF McpChild
    <3> QED
      BY <2>6, <3>2, <3>3, <3>4
  <2> QED
    BY <1>0, <2>1, <2>2, <2>3, <2>5, <2>7, <2>8
<1>7. CASE ServerNotifies
  <2> DEFINE says == <<Piece(NoCaller, 0, FALSE), Piece(NoCaller, 0, TRUE)>>
  <2>1. UNCHANGED <<stdin, stdout>> /\ child' = [child EXCEPT !.notes = @ + 1, !.says = says]
    BY <1>7 DEF ServerNotifies
  <2>2. Owned([who |-> NoCaller, id |-> 0])
    BY <1>0 DEF Owned, McpInv, RpcTyped
  <2>3. says \in Seq(OwnedPieces)
    BY <1>5, <2>2
  <2> HIDE DEF says
  <2>4. PICK k \in Nat : k = child.notes + 1
    BY <1>0 DEF McpChild
  <2>5. child' = [child EXCEPT !.notes = k, !.says = says]
    BY <2>1, <2>4
  <2>6. /\ child' \in McpChild /\ child'.says = says
        /\ child'.line = child.line /\ child'.open = child.open
    BY <1>0, <1>4, <2>3, <2>5 DEF McpChild
  <2> QED
    BY <1>0, <2>1, <2>3, <2>6
<1>8. CASE ServerWrites
  <2>1. /\ child.says # <<>> /\ UNCHANGED stdin
        /\ stdout' = Append(stdout, Head(child.says))
        /\ child' = [child EXCEPT !.says = Tail(child.says)]
    BY <1>8 DEF ServerWrites
  <2>2. Head(child.says) \in OwnedPieces /\ Tail(child.says) \in Seq(OwnedPieces)
    BY <1>0, <2>1
  <2>3. stdout' \in Seq(OwnedPieces)
    BY <1>0, <2>1, <2>2
  <2>4. PICK s \in Seq(OwnedPieces) : s = Tail(child.says)
    BY <2>2
  <2>5. /\ child' \in McpChild /\ child'.says = s
        /\ child'.line = child.line /\ child'.open = child.open
    BY <1>0, <1>4, <2>1, <2>4 DEF McpChild
  <2> QED
    BY <1>0, <2>1, <2>3, <2>5
<1>9. CASE ServerDies
  <2>1. /\ stdin' = <<>> /\ UNCHANGED stdout
        /\ child' = [child EXCEPT !.up = FALSE, !.open = {}, !.says = <<>>, !.line = <<>>]
    BY <1>9 DEF ServerDies
  <2>2. <<>> \in Seq(OwnedPieces) /\ <<>> \in Seq(McpPiece)
    OBVIOUS
  <2>3. child' \in McpChild /\ child'.says = <<>> /\ child'.line = <<>> /\ child'.open = {}
    BY <1>0, <2>1, <2>2 DEF McpChild
  <2> QED
    BY <1>0, <2>1, <2>2, <2>3
<1>10. CASE \E r \in child.open : ServerAnswers(r)
  <2>1. PICK r \in child.open : ServerAnswers(r)
    BY <1>10
  <2>2. PICK w \in McpCallers \cup {NoCaller}, k \in Nat : r = [who |-> w, id |-> k]
    BY <1>0, <2>1 DEF McpChild
  <2> DEFINE says == <<Piece(w, k, FALSE), Piece(w, k, TRUE)>>
  <2>3. Owned([who |-> w, id |-> k])
    BY <1>0, <2>2
  <2>4. says \in Seq(OwnedPieces)
    BY <1>5, <2>3
  <2>5. UNCHANGED <<stdin, stdout>>
        /\ child' = [child EXCEPT !.open = child.open \ {r}, !.says = says]
    BY <2>1, <2>2 DEF ServerAnswers
  <2> HIDE DEF says
  <2>6. /\ child' \in McpChild /\ child'.says = says
        /\ child'.line = child.line /\ child'.open = child.open \ {r}
    BY <1>0, <1>4, <2>4, <2>5 DEF McpChild
  <2> QED
    BY <1>0, <2>4, <2>5, <2>6
<1> QED
  BY <1>6, <1>7, <1>8, <1>9, <1>10

LEMMA McpNextInv == McpInv /\ [McpNext]_mcpVars => McpInv'
<1> SUFFICES ASSUME McpInv, [McpNext]_mcpVars PROVE McpInv'
  OBVIOUS
<1>1. CASE \E c \in McpCallers : RequestSteps(c)
  BY <1>1, RequestKeeps
<1>2. CASE \E c \in McpCalls : CallTool(c) \/ LockTransport(c)
  BY <1>2, CallKeeps
<1>3. CASE AskServer \/ Initialized \/ Connected
  BY <1>3, ManagerKeeps
<1>4. CASE HandshakeFails
  BY <1>4, FailureKeeps DEF HandshakeFails
<1>5. CASE \E cursor \in Cursors : NextPage(cursor)
  <2>1. CASE MarkFailed
    <3>1. rpc[Manager].at = "answered"
      BY <1>5 DEF NextPage
    <3> QED
      BY <2>1, <3>1, FailureKeeps
  <2> QED
    BY <1>5, <2>1, ManagerKeeps
<1>6. CASE \/ ServerReads \/ ServerNotifies \/ ServerWrites \/ ServerDies
           \/ \E r \in child.open : ServerAnswers(r)
  BY <1>6, ServerKeeps
<1>7. CASE UNCHANGED mcpVars
  <2>1. UNCHANGED <<nextId, stdin, stdout, transport, rpc, status, child>>
    BY <1>7 DEF mcpVars
  <2>2. OwnedPieces' = OwnedPieces /\ (\A x : Owned(x)' <=> Owned(x))
    BY <2>1 DEF OwnedPieces, Owned
  <2> QED
    BY <2>1, <2>2 DEF McpInv, RpcTyped, LockHolds, PipesOwned
<1> QED
  BY <1>1, <1>2, <1>3, <1>4, <1>5, <1>6, <1>7 DEF McpNext

\* For any number of tool calls, cursors and lines: a call is given the answer
\* to its own request or none, whatever came late or was cut by a time limit,
\* and a tool call is on the wire alone and only after the handshake
\* (StdioTransport and McpToolAdapter).
THEOREM McpAnswersReachTheirCall == McpSpec => []AnswersReachTheirCall
<1>1. McpInv => AnswersReachTheirCall
  <2> SUFFICES ASSUME McpInv PROVE AnswersReachTheirCall
    OBVIOUS
  <2>1. \A c, d \in McpCallers : rpc[c].at \in OnTheWire /\ rpc[d].at \in OnTheWire => c = d
    BY OneOnTheWire
  <2> QED
    BY <2>1 DEF McpInv, RpcTyped, LockHolds, AnswersReachTheirCall, OnTheWire
<1> QED
  BY <1>1, McpInitInv, McpNextInv, PTL DEF McpSpec

-----------------------------------------------------------------------------
(* The tool switches.                                                      *)

Agrees(v) ==
    \A t \in SwitchTools : (chosen[t] = "off" => t \in v) /\ (chosen[t] = "on" => t \notin v)

Owners == Accounts \cup {NoAccount}

PageRecord ==
    [at : {"away", "owner", "lock", "read", "apply", "sync", "marker", "again", "show", "ready"},
     owner : Owners, value : SUBSET Names, inFlight : BOOLEAN, marked : BOOLEAN]

SwitchesTyped ==
    /\ account \in Accounts /\ scope \in Owners /\ dirty \in Nat
    /\ switchedOff \subseteq Names
    /\ chosen \in [SwitchTools -> {"none", "off", "on"}]
    /\ kvSet \in [Accounts -> SUBSET Names] /\ offBy \in [Accounts -> SUBSET Names]
    /\ kvMarker \in [Accounts -> BOOLEAN]
    /\ page \in PageRecord
    /\ saver \in [at : {"none", "begin", "lock", "write", "mark", "unmark", "clean"},
                  scope : Owners, value : SUBSET Names, version : Nat]
    /\ persistState = "idle" => saver.at = "none"

\* PERSIST_LOCK: the page has it while it loads, the saver while it stores.
KvLockHolds ==
    /\ kvLock = "page" <=> page.at \in {"read", "apply"}
    /\ kvLock = "saver" <=> saver.at \in {"write", "mark", "unmark", "clean"}

\* What a page may take for granted of its owner.
PageKnowsItsOwner ==
    /\ page.at \in {"lock", "read", "apply"} => page.owner = account
    /\ page.at \in {"read", "apply"} => scope = page.owner
    /\ page.at \in {"sync", "marker", "again", "show", "ready"} => scope \in {NoAccount, account}
    /\ page.at \in {"marker", "again"} => page.owner \in Accounts
    /\ page.at = "apply" => page.value = kvSet[page.owner]

\* What a save writes is the set in force at the version it will mark clean.
SaveIsOfItsVersion ==
    /\ saver.at \notin {"none", "begin"} => saver.scope \in Accounts
    /\ saver.at \in {"write", "mark", "unmark", "clean"} =>
         /\ scope \in {NoAccount, saver.scope}
         /\ saver.value \subseteq offBy[saver.scope]
         /\ scope = saver.scope => dirty >= saver.version
         /\ scope = saver.scope /\ dirty = saver.version => Agrees(saver.value)
    /\ saver.at \in {"unmark", "clean"} => kvSet[saver.scope] = saver.value

\* Without unsaved switches the stored set is as good as the one in force.
CleanIsStored ==
    /\ scope # NoAccount /\ dirty = 0 => Agrees(kvSet[scope])
    /\ scope # NoAccount => switchedOff \subseteq offBy[scope]

SwitchesInv ==
    /\ SwitchesTyped /\ KvLockHolds /\ PageKnowsItsOwner /\ SaveIsOfItsVersion
    /\ CleanIsStored /\ Agrees(switchedOff)
    /\ \A s \in Accounts : kvSet[s] \subseteq offBy[s]

LEMMA SwitchesInitInv == ToolStatesInit => SwitchesInv
<1> SUFFICES ASSUME ToolStatesInit PROVE SwitchesInv
  OBVIOUS
<1>1. NoChoice \in [SwitchTools -> {"none", "off", "on"}]
      /\ \A t \in SwitchTools : NoChoice[t] = "none"
  BY DEF NoChoice
<1>2. SwitchesTyped
  BY <1>1 DEF ToolStatesInit, SwitchesTyped, PageRecord, NoPage, Owners, Names
<1>3. KvLockHolds /\ PageKnowsItsOwner /\ SaveIsOfItsVersion /\ CleanIsStored
  BY DEF ToolStatesInit, KvLockHolds, PageKnowsItsOwner, SaveIsOfItsVersion, CleanIsStored, NoPage
<1>4. Agrees(switchedOff) /\ \A s \in Accounts : kvSet[s] \subseteq offBy[s]
  BY <1>1 DEF ToolStatesInit, Agrees
<1> QED
  BY <1>2, <1>3, <1>4 DEF SwitchesInv

\* A step of the page that leaves the service, the store and the saver alone.
LEMMA PageMoves ==
    ASSUME SwitchesInv, SwitchesTyped', KvLockHolds', PageKnowsItsOwner',
           UNCHANGED <<switchedOff, dirty, scope, chosen, kvSet, offBy, saver>>
    PROVE  SwitchesInv'
<1>1. \A v : Agrees(v)' <=> Agrees(v)
  BY DEF Agrees
<1>2. SaveIsOfItsVersion' /\ CleanIsStored'
  BY <1>1 DEF SwitchesInv, SaveIsOfItsVersion, CleanIsStored
<1> QED
  BY <1>1, <1>2 DEF SwitchesInv

LEMMA PageKeeps ==
    ASSUME SwitchesInv,
           \/ Mount \/ Unmount \/ LoadReads \/ SyncBegins \/ ReadMarker \/ ShowMarker
    PROVE  SwitchesInv'
<1>0. /\ SwitchesTyped /\ KvLockHolds /\ PageKnowsItsOwner
      /\ UNCHANGED <<switchedOff, dirty, scope, chosen, kvSet, kvMarker, offBy, saver, persistState>>
  BY DEF SwitchesInv, Mount, Unmount, LoadReads, SyncBegins, ReadMarker, ShowMarker, service,
         stored, history
<1>1. CASE Mount
  <2>1. page' = [NoPage EXCEPT !.at = "owner"] /\ UNCHANGED <<account, kvLock>> /\ page.at = "away"
    BY <1>1 DEF Mount, history
  <2>2. SwitchesTyped'
    BY <1>0, <2>1 DEF SwitchesTyped, PageRecord, NoPage, Owners
  <2>3. KvLockHolds' /\ PageKnowsItsOwner'
    BY <1>0, <2>1 DEF KvLockHolds, PageKnowsItsOwner, NoPage
  <2> QED
    BY <1>0, <2>2, <2>3, PageMoves
<1>2. CASE Unmount
  <2>1. /\ page' = NoPage /\ account' \in Accounts
        /\ kvLock' = IF kvLock = "page" THEN "free" ELSE kvLock
    BY <1>2 DEF Unmount, PageHolds
  <2>2. SwitchesTyped'
    BY <1>0, <2>1 DEF SwitchesTyped, PageRecord, NoPage, Owners
  <2>3. KvLockHolds' /\ PageKnowsItsOwner'
    BY <1>0, <2>1 DEF KvLockHolds, PageKnowsItsOwner, NoPage
  <2> QED
    BY <1>0, <2>2, <2>3, PageMoves
<1>3. CASE LoadReads
  <2>1. /\ page.at = "read" /\ UNCHANGED account /\ kvLock = "page"
        /\ page.owner \in Accounts /\ scope = page.owner /\ page.owner = account
    BY <1>0, <1>3 DEF LoadReads, history, KvLockHolds, PageKnowsItsOwner, SwitchesTyped, PageRecord
  <2>2. \/ page' = [page EXCEPT !.at = "apply", !.value = kvSet[page.owner]] /\ UNCHANGED kvLock
        \/ page' = [page EXCEPT !.at = "sync"] /\ kvLock' = "free"
    BY <1>3, <2>1 DEF LoadReads, GoTo, PageHolds
  <2>3. SwitchesTyped'
    <3>1. page \in PageRecord /\ kvSet[page.owner] \in SUBSET Names
      BY <1>0, <2>1 DEF SwitchesTyped
    <3>2. page' \in PageRecord
      BY <3>1, <2>2 DEF PageRecord
    <3> QED
      BY <1>0, <2>1, <2>2, <3>2 DEF SwitchesTyped
  <2>4. KvLockHolds' /\ PageKnowsItsOwner'
    BY <1>0, <2>1, <2>2 DEF SwitchesTyped, PageRecord, KvLockHolds, PageKnowsItsOwner
  <2> QED
    BY <1>0, <2>3, <2>4, PageMoves
<1>4. CASE SyncBegins
  <2>1. PICK b \in BOOLEAN : b = (persistState # "idle")
    OBVIOUS
  <2>2. /\ page.at = "sync" /\ UNCHANGED <<account, kvLock>>
        /\ \/ page' = [page EXCEPT !.at = "ready"]
           \/ /\ scope # NoAccount
              /\ page' = [page EXCEPT !.at = "marker", !.owner = scope, !.inFlight = b]
    BY <1>4, <2>1 DEF SyncBegins, GoTo, history
  <2>3. SwitchesTyped'
    BY <1>0, <2>2 DEF SwitchesTyped, PageRecord
  <2>4. KvLockHolds' /\ PageKnowsItsOwner'
    BY <1>0, <2>2 DEF SwitchesTyped, PageRecord, KvLockHolds, PageKnowsItsOwner, Owners
  <2> QED
    BY <1>0, <2>3, <2>4, PageMoves
<1>5. CASE ReadMarker
  <2>1. /\ page.at \in {"marker", "again"} /\ UNCHANGED <<account, kvLock>>
        /\ page.owner \in Accounts
    BY <1>0, <1>5 DEF ReadMarker, history, PageKnowsItsOwner
  <2>2. PICK b \in BOOLEAN, at \in {"again", "show"} :
          page' = [page EXCEPT !.marked = b, !.at = at]
    <3>1. PICK b \in BOOLEAN : b = kvMarker[page.owner]
      BY <1>0, <2>1 DEF SwitchesTyped, PageRecord
    <3>2. PICK at \in {"again", "show"} :
            at = IF page.at = "marker" /\ ~page.inFlight THEN "again" ELSE "show"
      OBVIOUS
    <3> QED
      BY <1>5, <3>1, <3>2 DEF ReadMarker
  <2>3. SwitchesTyped'
    BY <1>0, <2>1, <2>2 DEF SwitchesTyped, PageRecord
  <2>4. KvLockHolds' /\ PageKnowsItsOwner'
    BY <1>0, <2>1, <2>2 DEF SwitchesTyped, PageRecord, KvLockHolds, PageKnowsItsOwner
  <2> QED
    BY <1>0, <2>3, <2>4, PageMoves
<1>6. CASE ShowMarker
  <2>1. page.at = "show" /\ page' = [page EXCEPT !.at = "ready"] /\ UNCHANGED <<account, kvLock>>
    BY <1>6 DEF ShowMarker, GoTo, history
  <2>2. SwitchesTyped'
    BY <1>0, <2>1 DEF SwitchesTyped, PageRecord
  <2>3. KvLockHolds' /\ PageKnowsItsOwner'
    BY <1>0, <2>1 DEF SwitchesTyped, PageRecord, KvLockHolds, PageKnowsItsOwner
  <2> QED
    BY <1>0, <2>2, <2>3, PageMoves
<1> QED
  BY <1>1, <1>2, <1>3, <1>4, <1>5, <1>6

\* The service starts from nothing: another owner, or none.
LEMMA ServiceResets ==
    ASSUME SwitchesInv, switchedOff' = {}, dirty' = 0, chosen' = NoChoice,
           scope' \in Owners,
           scope' = NoAccount \/ saver.at \notin {"write", "mark", "unmark", "clean"},
           UNCHANGED <<kvSet, offBy, saver>>,
           SwitchesTyped', KvLockHolds', PageKnowsItsOwner'
    PROVE  SwitchesInv'
<1>1. \A v : Agrees(v)'
  BY DEF Agrees, NoChoice
<1>2. SaveIsOfItsVersion'
  <2>1. SaveIsOfItsVersion /\ SwitchesTyped
    BY DEF SwitchesInv
  <2>2. saver.at \in {"write", "mark", "unmark", "clean"} => scope' # saver.scope
    BY <2>1, ToolStatesAssumption DEF SaveIsOfItsVersion
  <2> QED
    BY <1>1, <2>1, <2>2 DEF SaveIsOfItsVersion
<1>3. CleanIsStored'
  BY <1>1 DEF CleanIsStored
<1> QED
  BY <1>1, <1>2, <1>3 DEF SwitchesInv

LEMMA LoadKeeps ==
    ASSUME SwitchesInv, ResolveOwner \/ LoadBegins \/ LoadApplies
    PROVE  SwitchesInv'
<1>0. /\ SwitchesTyped /\ KvLockHolds /\ PageKnowsItsOwner
      /\ UNCHANGED <<kvSet, kvMarker, account, offBy, saver, persistState>>
  BY DEF SwitchesInv, ResolveOwner, LoadBegins, LoadApplies, stored, history
<1>1. CASE ResolveOwner
  <2>1. page.at = "owner" /\ UNCHANGED kvLock
    BY <1>1 DEF ResolveOwner
  <2>2. CASE clear_active_scope /\ GoTo("sync")
    <3>1. /\ switchedOff' = {} /\ dirty' = 0 /\ scope' = NoAccount /\ chosen' = NoChoice
          /\ page' = [page EXCEPT !.at = "sync"]
      BY <2>2 DEF clear_active_scope, GoTo
    <3>2. chosen' \in [SwitchTools -> {"none", "off", "on"}]
      BY <3>1 DEF NoChoice
    <3>3. SwitchesTyped'
      BY <1>0, <3>1, <3>2 DEF SwitchesTyped, PageRecord, Owners
    <3>4. KvLockHolds' /\ PageKnowsItsOwner'
      BY <1>0, <2>1, <3>1 DEF SwitchesTyped, PageRecord, KvLockHolds, PageKnowsItsOwner
    <3> QED
      BY <1>0, <3>1, <3>3, <3>4, ServiceResets DEF Owners
  <2>3. CASE /\ UNCHANGED service
             /\ \/ page' = [page EXCEPT !.at = "lock", !.owner = account]
                \/ scope = NoAccount /\ page' = [page EXCEPT !.at = "sync"]
    <3>1. UNCHANGED <<switchedOff, dirty, scope, chosen>>
      BY <2>3 DEF service
    <3>2. SwitchesTyped'
      BY <1>0, <2>3, <3>1 DEF SwitchesTyped, PageRecord, Owners
    <3>3. KvLockHolds' /\ PageKnowsItsOwner'
      BY <1>0, <2>1, <2>3, <3>1 DEF SwitchesTyped, PageRecord, KvLockHolds, PageKnowsItsOwner
    <3> QED
      BY <1>0, <3>1, <3>2, <3>3, PageMoves
  <2> QED
    BY <1>1, <2>2, <2>3 DEF ResolveOwner, GoTo
<1>2. CASE LoadBegins
  <2>1. /\ page.at = "lock" /\ kvLock = "free" /\ kvLock' = "page"
        /\ page' = [page EXCEPT !.at = "read"] /\ page.owner = account
        /\ activate_scope(page.owner)
    BY <1>0, <1>2 DEF LoadBegins, MayLoad, GoTo, PageKnowsItsOwner
  <2>2. CASE page.owner = scope
    <3>1. UNCHANGED <<switchedOff, dirty, scope, chosen>>
      BY <2>1, <2>2 DEF activate_scope, service
    <3>2. SwitchesTyped'
      BY <1>0, <2>1, <3>1 DEF SwitchesTyped, PageRecord
    <3>3. KvLockHolds' /\ PageKnowsItsOwner'
      BY <1>0, <2>1, <2>2, <3>1 DEF SwitchesTyped, PageRecord, KvLockHolds, PageKnowsItsOwner
    <3> QED
      BY <1>0, <3>1, <3>2, <3>3, PageMoves
  <2>3. CASE page.owner # scope
    <3>1. switchedOff' = {} /\ dirty' = 0 /\ scope' = page.owner /\ chosen' = NoChoice
      BY <2>1, <2>3 DEF activate_scope
    <3>2. chosen' \in [SwitchTools -> {"none", "off", "on"}]
      BY <3>1 DEF NoChoice
    <3>3. SwitchesTyped'
      BY <1>0, <2>1, <3>1, <3>2 DEF SwitchesTyped, PageRecord, Owners
    <3>4. KvLockHolds' /\ PageKnowsItsOwner'
      BY <1>0, <2>1, <3>1 DEF SwitchesTyped, PageRecord, KvLockHolds, PageKnowsItsOwner
    <3>5. saver.at \notin {"write", "mark", "unmark", "clean"} /\ scope' \in Owners
      BY <1>0, <2>1, <3>1 DEF KvLockHolds, SwitchesTyped, PageRecord, Owners
    <3> QED
      BY <1>0, <3>1, <3>3, <3>4, <3>5, ServiceResets
  <2> QED
    BY <2>2, <2>3
<1>3. CASE LoadApplies
  <2>1. /\ page.at = "apply" /\ kvLock = "page" /\ kvLock' = "free"
        /\ page' = [page EXCEPT !.at = "sync"] /\ page.owner = account /\ scope = page.owner
        /\ page.value = kvSet[scope] /\ scope # NoAccount /\ scope \in Accounts
    BY <1>0, <1>3, ToolStatesAssumption
       DEF LoadApplies, PageHolds, GoTo, KvLockHolds, PageKnowsItsOwner, SwitchesTyped, PageRecord
  <2>2. /\ switchedOff' = IF dirty # 0 THEN switchedOff ELSE kvSet[scope]
        /\ UNCHANGED <<dirty, scope, chosen>>
    BY <1>3, <2>1 DEF LoadApplies, apply_from_store_for_scope
  <2>3. SwitchesTyped'
    BY <1>0, <2>1, <2>2 DEF SwitchesTyped, PageRecord
  <2>4. KvLockHolds' /\ PageKnowsItsOwner'
    BY <1>0, <2>1, <2>2 DEF SwitchesTyped, PageRecord, KvLockHolds, PageKnowsItsOwner
  <2>5. \A v : Agrees(v)' <=> Agrees(v)
    BY <2>2 DEF Agrees
  <2>6. SaveIsOfItsVersion'
    BY <1>0, <2>2, <2>5 DEF SwitchesInv, SaveIsOfItsVersion
  <2>7. CleanIsStored' /\ Agrees(switchedOff)'
    <3>1. Agrees(switchedOff) /\ CleanIsStored /\ kvSet[scope] \subseteq offBy[scope]
      BY <2>1 DEF SwitchesInv
    <3>2. switchedOff' \subseteq offBy[scope] /\ Agrees(switchedOff')
      BY <2>1, <2>2, <3>1 DEF CleanIsStored
    <3>3. CleanIsStored'
      BY <1>0, <2>2, <2>5, <3>1, <3>2 DEF CleanIsStored
    <3>4. Agrees(switchedOff)'
      BY <2>2, <3>2 DEF Agrees
    <3> QED
      BY <3>3, <3>4
  <2> QED
    BY <1>0, <2>3, <2>4, <2>6, <2>7 DEF SwitchesInv
<1> QED
  BY <1>1, <1>2, <1>3

\* A round ends, and with it what the saver may hold.
LEMMA RoundOver ==
    ASSUME SwitchesInv, NEW f, RoundEnds(f),
           kvLock' = IF saver.at \in {"begin", "lock"} THEN kvLock ELSE "free",
           saver.at # "none", UNCHANGED <<switchedOff, scope, chosen, kvSet, offBy, account, page>>,
           kvMarker' \in [Accounts -> BOOLEAN], dirty' \in Nat,
           dirty' = dirty \/ (dirty' = 0 /\ (scope # NoAccount => Agrees(kvSet[scope])))
    PROVE  SwitchesInv'
<1>0. SwitchesTyped /\ KvLockHolds /\ PageKnowsItsOwner /\ CleanIsStored
  BY DEF SwitchesInv
<1>1. PICK at \in {"begin", "none"} :
        saver' = [saver EXCEPT !.at = at] /\ (persistState' = "idle" => at = "none")
  BY DEF RoundEnds, persist_on_round_done
<1>2. SwitchesTyped' /\ saver'.at = at
  BY <1>0, <1>1 DEF SwitchesTyped
<1>3. KvLockHolds'
  <2>1. saver.at \in {"begin", "lock", "write", "mark", "unmark", "clean"}
    BY <1>0 DEF SwitchesTyped
  <2>2. saver.at \in {"begin", "lock"} => kvLock # "saver"
    BY <1>0 DEF KvLockHolds
  <2>3. saver.at \notin {"begin", "lock"} => kvLock = "saver"
    BY <1>0, <2>1 DEF KvLockHolds
  <2> QED
    BY <1>0, <1>2, <2>2, <2>3 DEF KvLockHolds
<1>4. PageKnowsItsOwner' /\ SaveIsOfItsVersion'
  BY <1>0, <1>2 DEF PageKnowsItsOwner, SaveIsOfItsVersion
<1>5. \A v : Agrees(v)' <=> Agrees(v)
  BY DEF Agrees
<1>6. CleanIsStored'
  BY <1>0, <1>5 DEF CleanIsStored
<1>7. Agrees(switchedOff)' /\ \A s \in Accounts : kvSet'[s] \subseteq offBy'[s]
  BY <1>5 DEF SwitchesInv
<1> QED
  BY <1>2, <1>3, <1>4, <1>6, <1>7 DEF SwitchesInv

LEMMA SaverKeeps ==
    ASSUME SwitchesInv, SaverStep
    PROVE  SwitchesInv'
<1>0. /\ SwitchesTyped /\ KvLockHolds /\ PageKnowsItsOwner /\ SaveIsOfItsVersion /\ CleanIsStored
      /\ UNCHANGED <<switchedOff, scope, chosen, offBy, account, page>>
  BY DEF SwitchesInv, SaverStep, SaveBegins, SaveSnapshots, SaveWrites, SaveMarks, SaveUnmarks,
         SaveCleans, service, stored, history
<1>a. \A v : Agrees(v)' <=> Agrees(v)
  BY <1>0 DEF Agrees
<1>1. CASE SaveBegins
  <2>0. saver.at = "begin" /\ UNCHANGED <<dirty, kvSet, kvMarker, kvLock>>
    BY <1>1 DEF SaveBegins, service, stored
  <2>1. CASE RoundEnds(TRUE)
    BY <1>0, <2>0, <2>1, RoundOver DEF SwitchesTyped
  <2>2. CASE /\ scope # NoAccount /\ saver' = [saver EXCEPT !.at = "lock", !.scope = scope]
             /\ UNCHANGED persistState
    <3>1. saver'.at = "lock" /\ saver'.scope = scope /\ scope \in Accounts /\ SwitchesTyped'
      BY <1>0, <2>0, <2>2 DEF SwitchesTyped, Owners
    <3>2. KvLockHolds' /\ PageKnowsItsOwner' /\ SaveIsOfItsVersion' /\ CleanIsStored'
      BY <1>0, <1>a, <2>0, <3>1
         DEF KvLockHolds, PageKnowsItsOwner, SaveIsOfItsVersion, CleanIsStored
    <3> QED
      BY <1>0, <1>a, <2>0, <3>1, <3>2 DEF SwitchesInv
  <2> QED
    BY <1>1, <2>1, <2>2 DEF SaveBegins
<1>2. CASE SaveSnapshots
  <2>0. saver.at = "lock" /\ kvLock = "free" /\ UNCHANGED <<dirty, kvSet, kvMarker>>
    BY <1>2 DEF SaveSnapshots, service, stored
  <2>1. CASE RoundEnds(FALSE) /\ UNCHANGED kvLock
    BY <1>0, <2>0, <2>1, RoundOver DEF SwitchesTyped
  <2>2. CASE /\ scope = saver.scope /\ kvLock' = "saver" /\ UNCHANGED persistState
             /\ saver' = [saver EXCEPT !.at = "write", !.version = dirty,
                                       !.value = switchedOff \cap SwitchTools]
    <3>1. PICK v \in SUBSET Names : v = switchedOff \cap SwitchTools
      BY <1>0 DEF SwitchesTyped
    <3>2. saver' = [saver EXCEPT !.at = "write", !.version = dirty, !.value = v]
      BY <2>2, <3>1
    <3>3. /\ saver'.at = "write" /\ saver'.scope = scope /\ saver'.version = dirty
          /\ saver'.value = v /\ SwitchesTyped'
      BY <1>0, <2>0, <2>2, <3>2 DEF SwitchesTyped
    <3>4. scope \in Accounts /\ scope # NoAccount
      BY <1>0, <2>0, <2>2, ToolStatesAssumption DEF SaveIsOfItsVersion
    <3>5. Agrees(v) /\ v \subseteq offBy[scope]
      BY <1>0, <3>1, <3>4 DEF SwitchesInv, Agrees, CleanIsStored
    <3>6. KvLockHolds' /\ PageKnowsItsOwner'
      BY <1>0, <2>0, <2>2, <3>3 DEF KvLockHolds, PageKnowsItsOwner
    <3>7. SaveIsOfItsVersion'
      BY <1>0, <1>a, <2>0, <3>3, <3>4, <3>5 DEF SaveIsOfItsVersion, SwitchesTyped
    <3>8. CleanIsStored'
      BY <1>0, <1>a, <2>0 DEF CleanIsStored
    <3> QED
      BY <1>0, <1>a, <2>0, <3>3, <3>6, <3>7, <3>8 DEF SwitchesInv
  <2> QED
    BY <1>2, <2>1, <2>2 DEF SaveSnapshots
<1>3. CASE SaveWrites
  <2>0. /\ saver.at = "write" /\ UNCHANGED <<dirty, kvMarker, kvLock, persistState>>
        /\ saver.scope \in Accounts
    BY <1>0, <1>3 DEF SaveWrites, service, SaveIsOfItsVersion
  <2>1. PICK at \in {"unmark", "mark"} :
          /\ saver' = [saver EXCEPT !.at = at]
          /\ kvSet' = IF at = "unmark" THEN [kvSet EXCEPT ![saver.scope] = saver.value] ELSE kvSet
    BY <1>3 DEF SaveWrites
  <2>2. /\ saver'.at = at /\ saver'.scope = saver.scope /\ saver'.value = saver.value
        /\ saver'.version = saver.version /\ SwitchesTyped'
    BY <1>0, <2>0, <2>1 DEF SwitchesTyped
  <2>3. KvLockHolds'
    BY <1>0, <2>0, <2>2 DEF KvLockHolds
  <2>4. PageKnowsItsOwner'
    <3>1. page.at # "apply"
      BY <1>0, <2>0 DEF KvLockHolds
    <3> QED
      BY <1>0, <3>1 DEF PageKnowsItsOwner
  <2>5. \A s \in Accounts : kvSet'[s] = IF at = "unmark" /\ s = saver.scope THEN saver.value
                                        ELSE kvSet[s]
    BY <1>0, <2>0, <2>1 DEF SwitchesTyped
  <2>6. SaveIsOfItsVersion'
    BY <1>0, <1>a, <2>0, <2>2, <2>5 DEF SaveIsOfItsVersion
  <2>7. CleanIsStored'
    <3>1. CASE scope = saver.scope /\ dirty = 0 /\ at = "unmark"
      <4>1. dirty = saver.version
        BY <1>0, <2>0, <3>1 DEF SaveIsOfItsVersion, SwitchesTyped
      <4>2. Agrees(saver.value)
        BY <1>0, <2>0, <3>1, <4>1 DEF SaveIsOfItsVersion
      <4> QED
        BY <1>0, <1>a, <2>0, <2>5, <3>1, <4>2 DEF CleanIsStored
    <3>2. CASE ~(scope = saver.scope /\ dirty = 0 /\ at = "unmark")
      BY <1>0, <1>a, <2>0, <2>5, <3>2 DEF CleanIsStored, SwitchesTyped, Owners
    <3> QED
      BY <3>1, <3>2
  <2>8. \A s \in Accounts : kvSet'[s] \subseteq offBy'[s]
    BY <1>0, <2>0, <2>5 DEF SwitchesInv, SaveIsOfItsVersion
  <2> QED
    BY <1>0, <1>a, <2>2, <2>3, <2>4, <2>6, <2>7, <2>8 DEF SwitchesInv
<1>4. CASE SaveMarks
  <2>1. /\ saver.at = "mark" /\ kvLock' = "free" /\ RoundEnds(TRUE) /\ UNCHANGED <<dirty, kvSet>>
        /\ saver.scope \in Accounts
    BY <1>0, <1>4 DEF SaveMarks, service, SaveIsOfItsVersion
  <2>2. kvMarker' \in [Accounts -> BOOLEAN]
    BY <1>0, <1>4 DEF SaveMarks, SwitchesTyped
  <2> QED
    BY <1>0, <2>1, <2>2, RoundOver DEF SwitchesTyped
<1>5. CASE SaveUnmarks
  <2>1. /\ saver.at = "unmark" /\ UNCHANGED <<dirty, kvSet, kvLock, persistState>>
        /\ saver' = [saver EXCEPT !.at = "clean"] /\ saver.scope \in Accounts
    BY <1>0, <1>5 DEF SaveUnmarks, service, SaveIsOfItsVersion
  <2>2. kvMarker' \in [Accounts -> BOOLEAN]
    BY <1>0, <1>5 DEF SaveUnmarks, SwitchesTyped
  <2>3. /\ saver'.at = "clean" /\ saver'.scope = saver.scope /\ saver'.value = saver.value
        /\ saver'.version = saver.version /\ SwitchesTyped'
    BY <1>0, <2>1, <2>2 DEF SwitchesTyped
  <2>4. KvLockHolds' /\ PageKnowsItsOwner' /\ CleanIsStored'
    BY <1>0, <1>a, <2>1, <2>3 DEF KvLockHolds, PageKnowsItsOwner, CleanIsStored
  <2>5. SaveIsOfItsVersion'
    BY <1>0, <1>a, <2>1, <2>3 DEF SaveIsOfItsVersion
  <2> QED
    BY <1>0, <1>a, <2>1, <2>3, <2>4, <2>5 DEF SwitchesInv
<1>6. CASE SaveCleans
  <2>1. /\ saver.at = "clean" /\ kvLock' = "free" /\ RoundEnds(FALSE) /\ UNCHANGED <<kvSet, kvMarker>>
        /\ saver.scope \in Accounts /\ kvSet[saver.scope] = saver.value
        /\ dirty' = IF scope = saver.scope /\ dirty = saver.version THEN 0 ELSE dirty
    BY <1>0, <1>6 DEF SaveCleans, stored, SaveIsOfItsVersion
  <2>2. dirty' \in Nat /\ kvMarker' \in [Accounts -> BOOLEAN]
    BY <1>0, <2>1 DEF SwitchesTyped
  <2>3. dirty' = dirty \/ (dirty' = 0 /\ Agrees(kvSet[scope]))
    BY <1>0, <2>1 DEF SaveIsOfItsVersion
  <2> QED
    BY <1>0, <2>1, <2>2, <2>3, RoundOver
<1> QED
  BY <1>1, <1>2, <1>3, <1>4, <1>5, <1>6 DEF SaverStep

LEMMA ToggleKeeps ==
    ASSUME SwitchesInv, NEW t \in SwitchTools, Toggle(t)
    PROVE  SwitchesInv'
<1>0. /\ SwitchesTyped /\ KvLockHolds /\ PageKnowsItsOwner /\ SaveIsOfItsVersion /\ CleanIsStored
      /\ UNCHANGED <<scope, kvSet, kvMarker, account, kvLock, page>> /\ page.at = "ready"
  BY DEF SwitchesInv, Toggle, stored
<1>1. PICK c \in {"off", "on"} :
        /\ chosen' = [chosen EXCEPT ![t] = c]
        /\ switchedOff' = IF c = "off" THEN switchedOff \cup {t} ELSE switchedOff \ {t}
  <2>1. CASE t \notin switchedOff
    BY <2>1 DEF Toggle
  <2>2. CASE t \in switchedOff
    BY <2>2 DEF Toggle
  <2> QED
    BY <2>1, <2>2
<1>2. /\ dirty' = dirty + 1 /\ offBy' = [offBy EXCEPT ![account] = offBy[account] \cup {t}]
      /\ persistState' # "idle"
      /\ \/ saver' = saver
         \/ saver.at = "none" /\ saver' = [saver EXCEPT !.at = "begin"]
  BY <1>0 DEF Toggle, persist_on_toggle, SwitchesTyped
<1>3. t \in Names /\ scope \in {NoAccount, account} /\ account \in Accounts
  BY <1>0 DEF Names, PageKnowsItsOwner, SwitchesTyped
<1>4. \A s \in Accounts : offBy[s] \subseteq offBy'[s] /\ offBy'[account] = offBy[account] \cup {t}
  BY <1>0, <1>2, <1>3 DEF SwitchesTyped
<1>5. SwitchesTyped'
  <2>1. dirty' \in Nat /\ switchedOff' \subseteq Names
    BY <1>0, <1>1, <1>2, <1>3 DEF SwitchesTyped
  <2>2. chosen' \in [SwitchTools -> {"none", "off", "on"}]
    BY <1>0, <1>1 DEF SwitchesTyped
  <2>3. offBy' \in [Accounts -> SUBSET Names]
    BY <1>0, <1>2, <1>3 DEF SwitchesTyped
  <2> QED
    BY <1>0, <1>2, <2>1, <2>2, <2>3 DEF SwitchesTyped
<1>6. saver'.at \in {"write", "mark", "unmark", "clean", "lock"} => saver' = saver
  BY <1>0, <1>2 DEF SwitchesTyped
<1>7. KvLockHolds' /\ PageKnowsItsOwner'
  BY <1>0, <1>2 DEF KvLockHolds, PageKnowsItsOwner, SwitchesTyped
<1>8. dirty \in Nat /\ dirty' \in Nat /\ dirty' = dirty + 1
      /\ saver \in [at : {"none", "begin", "lock", "write", "mark", "unmark", "clean"},
                    scope : Owners, value : SUBSET Names, version : Nat]
  BY <1>0, <1>2, <1>5 DEF SwitchesTyped
<1>9. SaveIsOfItsVersion'
  <2>1. saver'.at \notin {"none", "begin"} => saver' = saver
    BY <1>2, <1>8
  <2>2. CASE saver' = saver
    <3>1. saver.at \in {"write", "mark", "unmark", "clean"} /\ scope = saver.scope
            => dirty' >= saver.version /\ dirty' # saver.version
      BY <1>0, <1>8 DEF SaveIsOfItsVersion
    <3>2. saver.at \in {"write", "mark", "unmark", "clean"} => saver.value \subseteq offBy'[saver.scope]
      BY <1>0, <1>4 DEF SaveIsOfItsVersion
    <3> QED
      BY <1>0, <2>2, <3>1, <3>2 DEF SaveIsOfItsVersion
  <2>3. CASE saver'.at \in {"none", "begin"}
    BY <2>3 DEF SaveIsOfItsVersion
  <2> QED
    BY <2>1, <2>2, <2>3
<1>10. CleanIsStored'
  <2>1. dirty' # 0
    BY <1>8
  <2>2. scope # NoAccount => switchedOff' \subseteq offBy'[scope]
    BY <1>0, <1>1, <1>3, <1>4 DEF CleanIsStored
  <2> QED
    BY <1>0, <2>1, <2>2 DEF CleanIsStored
<1>11. Agrees(switchedOff)'
  <2>1. \A u \in SwitchTools : chosen'[u] = IF u = t THEN c ELSE chosen[u]
    BY <1>0, <1>1 DEF SwitchesTyped
  <2>2. Agrees(switchedOff)
    BY DEF SwitchesInv
  <2> QED
    BY <1>1, <2>1, <2>2 DEF Agrees
<1>12. \A s \in Accounts : kvSet'[s] \subseteq offBy'[s]
  BY <1>0, <1>4 DEF SwitchesInv
<1> QED
  BY <1>5, <1>7, <1>9, <1>10, <1>11, <1>12 DEF SwitchesInv

LEMMA SwitchesNextInv == SwitchesInv /\ [ToolStatesNext]_toolStateVars => SwitchesInv'
<1> SUFFICES ASSUME SwitchesInv, [ToolStatesNext]_toolStateVars PROVE SwitchesInv'
  OBVIOUS
<1>1. CASE UNCHANGED toolStateVars
  <2>1. UNCHANGED <<account, switchedOff, dirty, scope, persistState, kvLock, kvSet, kvMarker,
                    page, saver, chosen, offBy>>
    BY <1>1 DEF toolStateVars
  <2>2. SwitchesTyped' /\ KvLockHolds' /\ PageKnowsItsOwner'
    BY <2>1 DEF SwitchesInv, SwitchesTyped, KvLockHolds, PageKnowsItsOwner
  <2> QED
    BY <2>1, <2>2, PageMoves
<1> QED
  BY <1>1, PageKeeps, LoadKeeps, SaverKeeps, ToggleKeeps DEF ToolStatesNext, PageStep

\* For any number of accounts, tools and switches: the set in force is what the
\* user last chose, whatever loads and saves interleave, and neither it nor
\* the set stored for an account holds what another account switched off
\* (ToolStateService, load_tool_states, persist_tool_states).
THEOREM SwitchesAreKept == ToolStatesSpec => []SwitchesHold
<1>1. SwitchesInv => SwitchesHold
  <2> SUFFICES ASSUME SwitchesInv PROVE SwitchesHold
    OBVIOUS
  <2>1. page.at = "ready" /\ scope # NoAccount => switchedOff \subseteq offBy[account]
    BY DEF SwitchesInv, PageKnowsItsOwner, CleanIsStored
  <2> QED
    BY <2>1 DEF SwitchesInv, Agrees, SwitchesHold
<1> QED
  BY <1>1, SwitchesInitInv, SwitchesNextInv, PTL DEF ToolStatesSpec

-----------------------------------------------------------------------------
(* Background tasks.                                                       *)

TaskRecord == [status : {"absent", "running"} \cup Terminal, output : Nat, progress : 0..1]

SpawnerRecord == [at : {"called", "register", "handle", "over"}, id : Nat]

CallerRecord ==
    [at : {"idle", "stop", "cancel", "fetch", "enable", "look", "park", "settle", "over"},
     op : {"wait", "stop"}, id : Nat, woken : BOOLEAN]

Numbered == {s \in Spawners : spawner[s].at # "called"}

TasksTyped ==
    /\ taskSeq \in Nat
    /\ tasks \in [TaskIds -> TaskRecord]
    /\ order \in Seq(TaskIds)
    /\ spawner \in [Spawners -> SpawnerRecord]
    /\ taskCall \in [TaskCallers -> CallerRecord]

\* Numbers are taken once: each spawn that has one has its own, and nothing is
\* registered under a number before the spawn that took it registers it.
NumbersHold ==
    /\ taskSeq = Cardinality(Numbered)
    /\ \A s \in Numbered : spawner[s].id \in 1..taskSeq
    /\ \A s, r \in Numbered : spawner[s].id = spawner[r].id => s = r
    /\ \A id \in TaskIds : id > taskSeq => tasks[id].status = "absent"
    /\ \A s \in Spawners : spawner[s].at = "register" => tasks[spawner[s].id].status = "absent"

\* A task that was registered and runs no more: it never will again.
Past(id) ==
    /\ tasks[id].status # "running"
    /\ \A s \in Spawners : spawner[s].at = "register" => spawner[s].id # id

\* A caller names a number that was taken, and a stop settles a task only after
\* it saw it ended.
CallersHold ==
    \A c \in TaskCallers :
        /\ taskCall[c].at # "idle" => taskCall[c].id \in 1..taskSeq
        /\ taskCall[c].at = "settle" => Past(taskCall[c].id)

TasksInv == TasksTyped /\ NumbersHold /\ CallersHold /\ TaskRegistryHolds

\* Numbers taken are ids of tasks.
LEMMA NumbersAreIds ==
    ASSUME TasksTyped, NumbersHold
    PROVE  /\ Cardinality(Spawners) \in Nat /\ taskSeq <= Cardinality(Spawners)
           /\ 1..taskSeq \subseteq TaskIds
           /\ IsFiniteSet(Numbered) /\ IsFiniteSet(TaskIds)
<1>1. IsFiniteSet(Spawners)
  BY TaskAssumption
<1>2. Cardinality(Spawners) \in Nat
  BY <1>1, FS_CardinalityType
<1>3. Numbered \in SUBSET Spawners
  BY DEF Numbered
<1>4. IsFiniteSet(Numbered) /\ Cardinality(Numbered) <= Cardinality(Spawners)
  BY <1>1, <1>3, FS_Subset
<1>5. IsFiniteSet(TaskIds)
  BY <1>2, FS_Interval DEF TaskIds
<1> QED
  BY <1>2, <1>4, <1>5 DEF TasksTyped, NumbersHold, TaskIds

LEMMA TasksInitInv == TaskInit => TasksInv
<1> SUFFICES ASSUME TaskInit PROVE TasksInv
  OBVIOUS
<1>1. Numbered = {}
  BY DEF TaskInit, Numbered
<1>2. TasksTyped
  BY DEF TaskInit, TasksTyped, NoRecord, TaskRecord, SpawnerRecord, CallerRecord
<1>3. NumbersHold
  BY <1>1, FS_EmptySet DEF TaskInit, NumbersHold, NoRecord
<1>4. CallersHold
  BY DEF TaskInit, CallersHold
<1>5. Present(tasks) = {} /\ Active(tasks) = {}
  BY DEF TaskInit, Present, Active, NoRecord
<1>6. TaskRegistryHolds
  <2>1. ToSet(order) = {} /\ IsInjective(order)
    BY DEF TaskInit, ToSet, IsInjective
  <2>2. \A id \in TaskIds : tasks[id].output = 0
    BY DEF TaskInit, NoRecord
  <2>3. cancels = {}
    BY DEF TaskInit
  <2> QED
    BY <1>5, <2>1, <2>2, <2>3, FS_EmptySet, TaskAssumption DEF TaskRegistryHolds
<1> QED
  BY <1>2, <1>3, <1>4, <1>6 DEF TasksInv

\* What a step of a caller that leaves the tables alone keeps.
LEMMA WaiterMoves ==
    ASSUME NEW c \in TaskCallers, TasksInv, UNCHANGED <<taskSeq, tasks, order, cancels, spawner>>,
           taskCall' \in [TaskCallers -> CallerRecord],
           \A d \in TaskCallers : d # c => taskCall'[d] = taskCall[d],
           taskCall'[c].at # "idle" => taskCall'[c].id \in 1..taskSeq,
           taskCall'[c].at = "settle" => \E i \in Nat : taskCall'[c].id = i /\ Past(i)
    PROVE  TasksInv'
<1>1. TasksTyped'
  BY DEF TasksInv, TasksTyped
<1>2. NumbersHold'
  BY DEF TasksInv, NumbersHold, Numbered
<1>3. CallersHold'
  BY DEF TasksInv, CallersHold, Past
<1>4. TaskRegistryHolds'
  BY DEF TasksInv, TaskRegistryHolds
<1> QED
  BY <1>1, <1>2, <1>3, <1>4 DEF TasksInv

LEMMA WaiterKeeps ==
    ASSUME TasksInv, NEW c \in TaskCallers, CallerStep(c)
    PROVE  TasksInv'
<1> DEFINE r == taskCall[c]
<1>a. r \in CallerRecord /\ taskCall \in [TaskCallers -> CallerRecord]
  BY DEF TasksInv, TasksTyped
<1>b. r.at # "idle" => r.id \in 1..taskSeq /\ r.id \in TaskIds
  BY NumbersAreIds DEF TasksInv, CallersHold
<1>c. r.at = "settle" => Past(r.id)
  BY DEF TasksInv, CallersHold
<1>d. /\ \A d \in TaskCallers : d # c => taskCall'[d] = taskCall[d]
      /\ taskCall' \in [TaskCallers -> CallerRecord]
      /\ taskCall'[c].at # "idle" => taskCall'[c].id \in 1..taskSeq
      /\ taskCall'[c].at = "settle" => \E i \in Nat : taskCall'[c].id = i /\ Past(i)
  <2>1. ASSUME Return(c), r.at # "idle" PROVE <1>d!1 /\ <1>d!2 /\ <1>d!3 /\ <1>d!4
    BY <2>1, <1>a, <1>b DEF Return, CallerRecord
  <2>2. ASSUME NEW at \in {"cancel", "fetch", "enable", "look", "park"}, Step(c, at), r.at # "idle"
        PROVE  <1>d!1 /\ <1>d!2 /\ <1>d!3 /\ <1>d!4
    BY <2>2, <1>a, <1>b DEF Step, CallerRecord
  <2>3. ASSUME CallWait(c) PROVE <1>d!1 /\ <1>d!2 /\ <1>d!3 /\ <1>d!4
    <3>1. PICK id \in 1..taskSeq, op \in {"wait", "stop"} :
            taskCall' = [taskCall EXCEPT ![c] =
              [@ EXCEPT !.id = id, !.op = op, !.at = IF op = "stop" THEN "stop" ELSE "fetch"]]
      BY <2>3 DEF CallWait
    <3> DEFINE n == [r EXCEPT !.id = id, !.op = op, !.at = IF op = "stop" THEN "stop" ELSE "fetch"]
    <3>2. n \in CallerRecord /\ n.id = id /\ n.at # "settle"
      <4>1. taskSeq \in Nat
        BY DEF TasksInv, TasksTyped
      <4>2. id \in Nat
        BY <4>1
      <4> QED
        BY <4>2, <1>a DEF CallerRecord
    <3>3. taskCall' = [taskCall EXCEPT ![c] = n]
      BY <3>1
    <3> HIDE DEF n
    <3> QED
      BY <3>2, <3>3, <1>a
  <2>4. ASSUME StopCheck(c) PROVE <1>d!1 /\ <1>d!2 /\ <1>d!3 /\ <1>d!4
    BY <2>4, <2>1, <2>2 DEF StopCheck
  <2>5. ASSUME StopCancel(c) PROVE <1>d!1 /\ <1>d!2 /\ <1>d!3 /\ <1>d!4
    BY <2>5, <2>2 DEF StopCancel
  <2>6. ASSUME WaitFetch(c) PROVE <1>d!1 /\ <1>d!2 /\ <1>d!3 /\ <1>d!4
    BY <2>6, <2>1, <2>2 DEF WaitFetch
  <2>7. ASSUME WaitEnable(c) PROVE <1>d!1 /\ <1>d!2 /\ <1>d!3 /\ <1>d!4
    BY <2>7, <1>a, <1>b DEF WaitEnable, CallerRecord
  <2>8. ASSUME WaitLook(c) PROVE <1>d!1 /\ <1>d!2 /\ <1>d!3 /\ <1>d!4
    <3>1. CASE is_terminal(r.id) /\ r.op = "stop"
               /\ taskCall' = [taskCall EXCEPT ![c].at = "settle", ![c].woken = FALSE]
      <4>1. r.id \in 1..taskSeq /\ r.id \in TaskIds
        BY <2>8, <1>b DEF WaitLook
      <4>2. Past(r.id)
        <5>1. tasks[r.id].status \in Terminal
          BY <3>1 DEF is_terminal
        <5>2. tasks[r.id].status # "running" /\ tasks[r.id].status # "absent"
          BY <5>1 DEF Terminal
        <5> QED
          BY <5>2 DEF Past, TasksInv, NumbersHold
      <4>3. taskCall'[c].id = r.id
        BY <3>1, <1>a DEF CallerRecord
      <4> QED
        BY <3>1, <4>1, <4>2, <4>3, <1>a DEF CallerRecord
    <3> QED
      BY <3>1, <2>8, <2>1, <2>2 DEF WaitLook
  <2>9. ASSUME WaitWoken(c) PROVE <1>d!1 /\ <1>d!2 /\ <1>d!3 /\ <1>d!4
    BY <2>9, <1>a, <1>b DEF WaitWoken, CallerRecord
  <2>10. ASSUME GraceEnds(c) PROVE <1>d!1 /\ <1>d!2 /\ <1>d!3 /\ <1>d!4
    BY <2>10, <2>1 DEF GraceEnds
  <2>11. ASSUME StopSettle(c) PROVE <1>d!1 /\ <1>d!2 /\ <1>d!3 /\ <1>d!4
    BY <2>11, <2>1 DEF StopSettle
  <2> QED
    BY <2>3, <2>4, <2>5, <2>6, <2>7, <2>8, <2>9, <2>10, <2>11 DEF CallerStep, CallerRuns
<1>e. UNCHANGED <<taskSeq, tasks, order, cancels, spawner>>
  <2>1. CASE StopSettle(c)
    BY <2>1, <1>c DEF StopSettle, Past
  <2>2. CASE StopCancel(c)
    BY <2>2 DEF StopCancel
  <2> QED
    BY <2>1, <2>2 DEF CallerStep, CallerRuns, CallWait, StopCheck, WaitFetch, WaitEnable,
                      WaitLook, WaitWoken, GraceEnds, Tables
<1> QED
  BY <1>d, <1>e, WaiterMoves

\* A step that rewrites one record, without making a task run, and may wake
\* callers.
LEMMA RecordChanges ==
    ASSUME TasksInv, NEW id \in TaskIds, NEW n \in TaskRecord,
           tasks' = [tasks EXCEPT ![id] = n],
           n.status = "absent" <=> tasks[id].status = "absent",
           n.status = "running" => tasks[id].status = "running",
           n.status \in {"completed", "killed"} => n.output = 0,
           cancels' = IF n.status = "running" THEN cancels ELSE cancels \ {id},
           taskCall' \in [TaskCallers -> CallerRecord],
           \A c \in TaskCallers : taskCall'[c].at = taskCall[c].at /\ taskCall'[c].id = taskCall[c].id,
           UNCHANGED <<taskSeq, order, spawner>>
    PROVE  TasksInv'
<1>a. tasks \in [TaskIds -> TaskRecord] /\ TasksTyped /\ NumbersHold /\ CallersHold
      /\ TaskRegistryHolds
  BY DEF TasksInv, TasksTyped
<1>b. tasks'[id] = n /\ \A i \in TaskIds : i # id => tasks'[i] = tasks[i]
  BY <1>a
<1>1. TasksTyped'
  BY <1>a DEF TasksTyped
<1>2. NumbersHold'
  <2>1. Numbered' = Numbered
    BY DEF Numbered
  <2>2. \A i \in TaskIds : tasks'[i].status = "absent" <=> tasks[i].status = "absent"
    BY <1>b
  <2>3. \A s \in Spawners : spawner[s].at = "register" => spawner[s].id \in TaskIds
    BY <1>a, NumbersAreIds DEF NumbersHold, Numbered
  <2> QED
    BY <1>a, <2>1, <2>2, <2>3 DEF NumbersHold
<1>3. CallersHold'
  <2>1. \A i \in TaskIds : Past(i) => Past(i)'
    BY <1>b DEF Past
  <2>2. 1..taskSeq \subseteq TaskIds
    BY <1>a, NumbersAreIds
  <2> QED
    BY <1>a, <2>1, <2>2 DEF CallersHold, Past
<1>4. TaskRegistryHolds'
  <2>1. Present(tasks') = Present(tasks)
    BY <1>a, <1>b DEF Present
  <2>2. Active(tasks') = IF n.status = "running" THEN Active(tasks) ELSE Active(tasks) \ {id}
    BY <1>a, <1>b DEF Active
  <2>3. cancels' = Active(tasks')
    BY <1>a, <2>2 DEF TaskRegistryHolds
  <2>4. Cardinality(Active(tasks')) <= MaxActive
    <3>1. IsFiniteSet(TaskIds)
      BY <1>a, NumbersAreIds
    <3>2. Active(tasks) \in SUBSET TaskIds /\ Active(tasks') \in SUBSET Active(tasks)
      BY <1>a, <2>2 DEF Active
    <3>3. IsFiniteSet(Active(tasks))
      BY <3>1, <3>2, FS_Subset
    <3>4. Cardinality(Active(tasks')) <= Cardinality(Active(tasks))
      BY <3>2, <3>3, FS_Subset
    <3>5. IsFiniteSet(Active(tasks'))
      BY <3>2, <3>3, FS_Subset
    <3>6. Cardinality(Active(tasks')) \in Nat /\ Cardinality(Active(tasks)) \in Nat
      BY <3>3, <3>5, FS_CardinalityType
    <3>7. Cardinality(Active(tasks)) <= MaxActive /\ MaxActive \in Nat
      BY <1>a, TaskAssumption DEF TaskRegistryHolds
    <3> HIDE DEF Active
    <3> QED
      BY <3>4, <3>6, <3>7
  <2>5. \A i \in TaskIds : tasks'[i].status \in {"completed", "killed"} => tasks'[i].output = 0
    BY <1>a, <1>b DEF TaskRegistryHolds
  <2> QED
    BY <1>a, <2>1, <2>3, <2>4, <2>5 DEF TaskRegistryHolds
<1> QED
  BY <1>1, <1>2, <1>3, <1>4 DEF TasksInv

LEMMA OutputKeeps ==
    ASSUME TasksInv, NEW id \in TaskIds, OutputStep(id) \/ TaskEnds(id)
    PROVE  TasksInv'
<1> DEFINE r == tasks[id]
<1>a. tasks \in [TaskIds -> TaskRecord] /\ r \in TaskRecord
      /\ taskCall \in [TaskCallers -> CallerRecord]
  BY DEF TasksInv, TasksTyped
<1>b. cancels = Active(tasks) /\ (r.status \in {"completed", "killed"} => r.output = 0)
  BY DEF TasksInv, TaskRegistryHolds
<1>c. tasks = [tasks EXCEPT ![id] = r]
  BY <1>a
<1>d. r.status # "running" => cancels = cancels \ {id}
  BY <1>b DEF Active
<1>1. CASE SinkChunk(id)
  <2>1. UNCHANGED <<taskSeq, tasks, order, cancels, spawner, taskCall>>
    BY <1>1 DEF SinkChunk
  <2>2. tasks' = [tasks EXCEPT ![id] = r]
    BY <2>1, <1>c
  <2> QED
    BY <2>1, <2>2, <1>a, <1>b, <1>d, RecordChanges
<1>2. CASE ConsumeChunk(id)
  <2>1. UNCHANGED <<taskSeq, order, cancels, spawner, taskCall>>
    BY <1>2 DEF ConsumeChunk
  <2>2. CASE r.status = "running"
    <3> DEFINE n == [r EXCEPT !.output = @ + 1]
    <3>1. n \in TaskRecord /\ n.status = "running"
      BY <2>2, <1>a DEF TaskRecord
    <3>2. tasks' = [tasks EXCEPT ![id] = n]
      BY <1>2, <2>2, <1>a DEF ConsumeChunk, Accepts
    <3> HIDE DEF n
    <3> QED
      BY <2>1, <2>2, <3>1, <3>2, <1>a, RecordChanges
  <2>3. CASE r.status # "running"
    <3>1. tasks' = [tasks EXCEPT ![id] = r]
      BY <1>2, <2>3, <1>c DEF ConsumeChunk, Accepts
    <3> QED
      BY <2>1, <2>3, <3>1, <1>a, <1>b, <1>d, RecordChanges
  <2> QED
    BY <2>2, <2>3
<1>3. CASE UpdateTask(id)
  <2>1. UNCHANGED <<taskSeq, order, cancels, spawner, taskCall>> /\ r.status = "running"
    BY <1>3 DEF UpdateTask
  <2> DEFINE n == [r EXCEPT !.progress = 1]
  <2>2. n \in TaskRecord /\ n.status = "running"
    BY <2>1, <1>a DEF TaskRecord
  <2>3. tasks' = [tasks EXCEPT ![id] = n]
    BY <1>3, <1>a DEF UpdateTask
  <2> HIDE DEF n
  <2> QED
    BY <2>1, <2>2, <2>3, <1>a, RecordChanges
<1>4. CASE TaskEnds(id)
  <2>1. PICK ending \in Endings(id) : tasks' = [tasks EXCEPT ![id] = Settled(id, ending)]
    BY <1>4 DEF TaskEnds
  <2> DEFINE n == Settled(id, ending)
  <2>2. ending \in {"completed", "failed", "error", "killed"}
    BY DEF Endings
  <2>3. /\ n \in TaskRecord /\ n.status # "running"
        /\ n.status = "absent" <=> r.status = "absent"
        /\ n.status \in {"completed", "killed"} => n.output = 0
    BY <2>2, <1>a, <1>b DEF Settled, TaskRecord, Terminal
  <2>4. cancels' = cancels \ {id}
    <3>1. id \notin Present(tasks) => cancels = cancels \ {id}
      BY <1>d, <1>a DEF Present
    <3> QED
      BY <3>1, <1>4 DEF TaskEnds
  <2>5. taskCall' \in [TaskCallers -> CallerRecord]
        /\ \A c \in TaskCallers : taskCall'[c].at = taskCall[c].at /\ taskCall'[c].id = taskCall[c].id
    <3>1. \A q \in CallerRecord : /\ [q EXCEPT !.woken = TRUE] \in CallerRecord
                                  /\ [q EXCEPT !.woken = TRUE].at = q.at
                                  /\ [q EXCEPT !.woken = TRUE].id = q.id
      BY DEF CallerRecord
    <3> QED
      BY <3>1, <1>4, <1>a DEF TaskEnds, Wake
  <2>6. UNCHANGED <<taskSeq, order, spawner>>
    BY <1>4 DEF TaskEnds
  <2>7. tasks' = [tasks EXCEPT ![id] = n]
    BY <2>1
  <2> HIDE DEF n
  <2> QED
    BY <2>3, <2>4, <2>5, <2>6, <2>7, <1>a, RecordChanges
<1> QED
  BY <1>1, <1>2, <1>3, <1>4 DEF OutputStep

LEMMA NumberKeeps ==
    ASSUME TasksInv, NEW s \in Spawners, SpawnNumber(s)
    PROVE  TasksInv'
<1>a. TasksTyped /\ NumbersHold /\ CallersHold /\ TaskRegistryHolds
  BY DEF TasksInv
<1>b. /\ spawner[s].at = "called" /\ taskSeq' = taskSeq + 1
      /\ spawner' = [spawner EXCEPT ![s] = [at |-> "register", id |-> taskSeq + 1]]
      /\ UNCHANGED <<tasks, order, cancels, taskCall>>
  BY DEF SpawnNumber
<1>c. taskSeq \in Nat /\ spawner \in [Spawners -> SpawnerRecord]
  BY <1>a DEF TasksTyped
<1>d. /\ spawner'[s].at = "register" /\ spawner'[s].id = taskSeq + 1
      /\ \A r \in Spawners : r # s => spawner'[r] = spawner[r]
  BY <1>b, <1>c
<1>1. TasksTyped'
  <2>1. [at |-> "register", id |-> taskSeq + 1] \in SpawnerRecord
    BY <1>c DEF SpawnerRecord
  <2> QED
    BY <1>a, <1>b, <1>c, <2>1 DEF TasksTyped
<1>2. taskSeq' = Cardinality(Numbered')
  <2>1. Numbered' = Numbered \cup {s} /\ s \notin Numbered
    BY <1>b, <1>d DEF Numbered
  <2>2. IsFiniteSet(Numbered)
    BY <1>a, NumbersAreIds
  <2> QED
    BY <1>a, <1>b, <2>1, <2>2, FS_AddElement DEF NumbersHold
<1>3. taskSeq + 1 \in TaskIds
  <2>1. Numbered' \in SUBSET Spawners /\ IsFiniteSet(Spawners)
    BY TaskAssumption DEF Numbered
  <2>2. Cardinality(Numbered') <= Cardinality(Spawners)
    BY <2>1, FS_Subset
  <2>3. Cardinality(Spawners) \in Nat
    BY <2>1, FS_CardinalityType
  <2> QED
    BY <1>b, <1>c, <1>2, <2>2, <2>3 DEF TaskIds
<1>4. NumbersHold'
  <2>1. \A r \in Spawners : r # s /\ spawner[r].at # "called" => spawner[r].id \in 1..taskSeq
    BY <1>a DEF NumbersHold, Numbered
  <2>2. \A r \in Numbered' : spawner'[r].id \in 1..taskSeq'
    BY <1>b, <1>c, <1>d, <2>1 DEF Numbered
  <2>3. \A r, q \in Numbered' : spawner'[r].id = spawner'[q].id => r = q
    <3>1. \A r \in Numbered' : r # s => r \in Numbered /\ spawner'[r].id # taskSeq + 1
      BY <1>c, <1>d, <2>1 DEF Numbered
    <3> QED
      BY <3>1, <1>a, <1>d DEF NumbersHold, Numbered
  <2>4. \A i \in TaskIds : i > taskSeq' => tasks'[i].status = "absent"
    <3>1. \A i \in TaskIds : i \in Int
      BY <1>a, NumbersAreIds DEF TaskIds
    <3> QED
      BY <3>1, <1>a, <1>b, <1>c DEF NumbersHold
  <2>5. \A r \in Spawners : spawner'[r].at = "register" => tasks'[spawner'[r].id].status = "absent"
    <3>1. tasks[taskSeq + 1].status = "absent"
      BY <1>3, <1>c, <1>a DEF NumbersHold
    <3> QED
      BY <3>1, <1>a, <1>b, <1>d DEF NumbersHold
  <2> QED
    BY <1>2, <2>2, <2>3, <2>4, <2>5 DEF NumbersHold
<1>5. CallersHold'
  <2>1. \A i \in 1..taskSeq : i \in 1..taskSeq' /\ i # taskSeq + 1
    BY <1>b, <1>c
  <2>2. \A i \in 1..taskSeq : Past(i) => Past(i)'
    BY <1>b, <1>d, <2>1 DEF Past
  <2> QED
    BY <1>a, <1>b, <2>1, <2>2 DEF CallersHold, Past
<1>6. TaskRegistryHolds'
  BY <1>a, <1>b DEF TaskRegistryHolds
<1> QED
  BY <1>1, <1>4, <1>5, <1>6 DEF TasksInv

\* A spawn that goes on without registering anything.
LEMMA SpawnerMoves ==
    ASSUME TasksInv, NEW s \in Spawners, NEW at \in {"handle", "over"}, spawner[s].at # "called",
           spawner' = [spawner EXCEPT ![s].at = at],
           UNCHANGED <<taskSeq, tasks, order, cancels, taskCall>>
    PROVE  TasksInv'
<1>a. TasksTyped /\ NumbersHold /\ CallersHold /\ TaskRegistryHolds
  BY DEF TasksInv
<1>b. spawner \in [Spawners -> SpawnerRecord]
  BY <1>a DEF TasksTyped
<1>c. /\ spawner'[s].at = at /\ spawner' \in [Spawners -> SpawnerRecord]
      /\ \A r \in Spawners : spawner'[r].id = spawner[r].id /\ (r # s => spawner'[r].at = spawner[r].at)
  BY <1>b DEF SpawnerRecord
<1>1. TasksTyped'
  BY <1>a, <1>c DEF TasksTyped
<1>2. NumbersHold'
  <2>1. Numbered' = Numbered
    BY <1>c DEF Numbered
  <2>2. \A r \in Numbered : spawner'[r].id = spawner[r].id
    BY <1>c DEF Numbered
  <2>3. \A r \in Spawners : spawner'[r].at = "register" => tasks'[spawner'[r].id].status = "absent"
    BY <1>a, <1>c DEF NumbersHold
  <2> QED
    BY <1>a, <2>1, <2>2, <2>3 DEF NumbersHold
<1>3. CallersHold'
  BY <1>a, <1>c DEF CallersHold, Past
<1>4. TaskRegistryHolds'
  BY <1>a DEF TaskRegistryHolds
<1> QED
  BY <1>1, <1>2, <1>3, <1>4 DEF TasksInv

\* Taking one position out of a sequence without repetitions takes out its
\* element and nothing else.
LEMMA RemoveAtKeeps ==
    ASSUME NEW S, NEW q \in Seq(S), IsInjective(q), NEW k \in 1..Len(q)
    PROVE  /\ RemoveAt(q, k) \in Seq(S)
           /\ ToSet(RemoveAt(q, k)) = ToSet(q) \ {q[k]}
           /\ IsInjective(RemoveAt(q, k))
<1> DEFINE r == RemoveAt(q, k)
<1> DEFINE front == SubSeq(q, 1, k - 1)
           rear == SubSeq(q, k + 1, Len(q))
<1>0. Len(q) \in Nat /\ k \in 1..Len(q) /\ \A i \in 1..Len(q) : q[i] \in S
  OBVIOUS
<1>01. /\ front \in Seq(S) /\ Len(front) = k - 1
       /\ \A i \in 1..(k - 1) : front[i] = q[i]
  <2>1. k - 1 \in 0..Len(q)
    BY <1>0
  <2> QED
    BY <1>0, <2>1
<1>02. /\ rear \in Seq(S) /\ Len(rear) = Len(q) - k
       /\ \A i \in 1..(Len(q) - k) : rear[i] = q[i + k]
  <2>1. Len(q) - k \in Nat
    BY <1>0
  <2> QED
    BY <1>0, <2>1
<1>03. r = front \o rear
  BY DEF RemoveAt
<1> HIDE DEF front, rear, r
<1>1. r \in Seq(S) /\ Len(r) = Len(q) - 1
  BY <1>0, <1>01, <1>02, <1>03
<1>2. \A i \in 1..Len(r) : r[i] = IF i < k THEN q[i] ELSE q[i + 1]
  <2> SUFFICES ASSUME NEW i \in 1..Len(r) PROVE r[i] = IF i < k THEN q[i] ELSE q[i + 1]
    OBVIOUS
  <2>1. CASE i < k
    <3>1. i \in 1..Len(front)
      BY <2>1, <1>0, <1>01
    <3>2. r[i] = front[i]
      <4>1. front \in Seq(S) /\ rear \in Seq(S)
        BY <1>01, <1>02
      <4> QED
        BY <4>1, <3>1, <1>03
    <3> QED
      BY <2>1, <3>1, <3>2, <1>01
  <2>2. CASE ~(i < k)
    <3>1. i - (k - 1) \in 1..(Len(q) - k) /\ (i - (k - 1)) + k = i + 1
      BY <2>2, <1>0, <1>1
    <3>2. r[i] = rear[i - (k - 1)]
      <4>1. front \in Seq(S) /\ rear \in Seq(S) /\ Len(front) = k - 1 /\ Len(rear) = Len(q) - k
        BY <1>01, <1>02
      <4>2. i \in Int /\ k \in Int /\ Len(q) \in Int /\ ~(i <= k - 1) /\ i >= 1 /\ i <= (k - 1) + (Len(q) - k)
        BY <2>2, <1>0, <1>1
      <4>3. r[i] = rear[i - Len(front)]
        BY <4>1, <4>2, <1>03
      <4> QED
        BY <4>1, <4>3
    <3>3. rear[i - (k - 1)] = q[i + 1]
      BY <3>1, <1>02
    <3> QED
      BY <2>2, <3>2, <3>3
  <2> QED
    BY <2>1, <2>2
<1>3. Len(q) \in Nat /\ DOMAIN q = 1..Len(q) /\ DOMAIN r = 1..Len(r)
  BY <1>1
<1>4. \A i, j \in 1..Len(q) : q[i] = q[j] => i = j
  BY <1>3 DEF IsInjective
<1>5. \A i \in 1..Len(r) : r[i] \in ToSet(q) \ {q[k]}
  <2> SUFFICES ASSUME NEW i \in 1..Len(r) PROVE r[i] \in ToSet(q) \ {q[k]}
    OBVIOUS
  <2>1. CASE i < k
    <3>1. i \in 1..Len(q) /\ i # k
      BY <2>1, <1>1, <1>3
    <3>2. r[i] = q[i] /\ q[i] # q[k]
      BY <2>1, <3>1, <1>2, <1>4
    <3> QED
      BY <3>1, <3>2, <1>3 DEF ToSet
  <2>2. CASE ~(i < k)
    <3>1. i + 1 \in 1..Len(q) /\ i + 1 # k
      BY <2>2, <1>1, <1>3
    <3> QED
      BY <2>2, <3>1, <1>2, <1>3, <1>4 DEF ToSet
  <2> QED
    BY <2>1, <2>2
<1>6. \A i \in 1..Len(q) : i # k => \E j \in 1..Len(r) : r[j] = q[i]
  <2> SUFFICES ASSUME NEW i \in 1..Len(q), i # k PROVE \E j \in 1..Len(r) : r[j] = q[i]
    OBVIOUS
  <2>1. CASE i < k
    <3>1. i \in 1..Len(r)
      BY <2>1, <1>1, <1>3
    <3> QED
      BY <2>1, <3>1, <1>2
  <2>2. CASE i > k
    <3>1. i - 1 \in 1..Len(r) /\ ~(i - 1 < k) /\ (i - 1) + 1 = i
      BY <2>2, <1>1, <1>3
    <3> QED
      BY <3>1, <1>2
  <2> QED
    BY <2>1, <2>2, <1>3
<1>7. ToSet(r) = ToSet(q) \ {q[k]}
  <2>1. ToSet(r) \subseteq ToSet(q) \ {q[k]}
    BY <1>3, <1>5 DEF ToSet
  <2>2. ASSUME NEW x \in ToSet(q) \ {q[k]} PROVE x \in ToSet(r)
    <3>1. PICK i \in 1..Len(q) : x = q[i]
      BY <1>3 DEF ToSet
    <3>2. i # k
      BY <3>1
    <3>3. PICK j \in 1..Len(r) : r[j] = q[i]
      BY <3>2, <1>6
    <3> QED
      BY <3>1, <3>3, <1>3 DEF ToSet
  <2> QED
    BY <2>1, <2>2
<1>8. IsInjective(r)
  <2> SUFFICES ASSUME NEW i \in 1..Len(r), NEW j \in 1..Len(r), r[i] = r[j] PROVE i = j
    BY <1>3 DEF IsInjective
  <2> DEFINE f(x) == IF x < k THEN x ELSE x + 1
  <2>1. f(i) \in 1..Len(q) /\ f(j) \in 1..Len(q)
    BY <1>1, <1>3
  <2>2. q[f(i)] = q[f(j)]
    BY <1>2
  <2>3. f(i) = f(j)
    <3> HIDE DEF f
    <3> QED
      BY <2>1, <2>2, <1>4
  <2> QED
    BY <2>3, <1>1, <1>3
<1> QED
  BY <1>1, <1>7, <1>8 DEF r

LEMMA LeastPosition ==
    ASSUME NEW T, T \subseteq Nat, T # {}
    PROVE  \E v \in T : \A u \in T : v <= u
<1> DEFINE R == {ss \in Nat \X Nat : ss[1] < ss[2]}
<1>1. IsWellFoundedOn(R, Nat)
  BY NatLessThanWellFounded DEF OpToRel
<1>2. \E v \in T : \A u \in T : ~(<<u, v>> \in R)
  <2> HIDE DEF R
  <2> QED
    BY <1>1, WFMin
<1>3. ASSUME NEW v \in T, NEW u \in T, ~(<<u, v>> \in R)
      PROVE  v <= u
  <2>1. u \in Nat /\ v \in Nat
    OBVIOUS
  <2>2. ~(u < v)
    BY <1>3, <2>1
  <2> QED
    BY <2>1, <2>2
<1> QED
  <2> HIDE DEF R
  <2> QED
    BY <1>2, <1>3

\* What registering a task under `id` keeps, once the tables are known to hold.
LEMMA RegisterKeeps ==
    ASSUME TasksInv, NEW s \in Spawners, spawner[s].at = "register",
           spawner' = [spawner EXCEPT ![s].at = "handle"],
           tasks' \in [TaskIds -> TaskRecord],
           \A i \in TaskIds : i # spawner[s].id => tasks'[i] = tasks[i] \/ tasks'[i] = NoRecord,
           order' \in Seq(TaskIds), TaskRegistryHolds', UNCHANGED <<taskSeq, taskCall>>
    PROVE  TasksInv'
<1>a. TasksTyped /\ NumbersHold /\ CallersHold
  BY DEF TasksInv
<1>b. spawner \in [Spawners -> SpawnerRecord]
  BY <1>a DEF TasksTyped
<1>c. /\ spawner'[s].at = "handle" /\ spawner' \in [Spawners -> SpawnerRecord]
      /\ \A r \in Spawners : spawner'[r].id = spawner[r].id /\ (r # s => spawner'[r].at = spawner[r].at)
  BY <1>b DEF SpawnerRecord
<1>d. \A i \in TaskIds : i # spawner[s].id =>
        /\ tasks[i].status = "absent" => tasks'[i].status = "absent"
        /\ tasks[i].status # "running" => tasks'[i].status # "running"
  BY DEF NoRecord
<1>e. 1..taskSeq \subseteq TaskIds /\ spawner[s].id \in 1..taskSeq
  BY <1>a, NumbersAreIds DEF NumbersHold, Numbered
<1>1. TasksTyped'
  BY <1>a, <1>c DEF TasksTyped
<1>2. NumbersHold'
  <2>1. Numbered' = Numbered /\ s \in Numbered
    BY <1>c DEF Numbered
  <2>2. \A i \in TaskIds : i > taskSeq => tasks'[i].status = "absent"
    <3>1. taskSeq \in Nat
      BY <1>a DEF TasksTyped
    <3>2. \A i \in TaskIds : i > taskSeq => i # spawner[s].id
      BY <1>e, <3>1
    <3> QED
      BY <3>2, <1>a, <1>d DEF NumbersHold
  <2>3. \A r \in Spawners : spawner'[r].at = "register" => tasks'[spawner'[r].id].status = "absent"
    <3> SUFFICES ASSUME NEW r \in Spawners, spawner'[r].at = "register"
                 PROVE  tasks'[spawner'[r].id].status = "absent"
      OBVIOUS
    <3>1. r # s /\ spawner[r].at = "register" /\ spawner'[r].id = spawner[r].id
      BY <1>c
    <3>2. r \in Numbered
      BY <3>1 DEF Numbered
    <3>3. spawner[r].id # spawner[s].id /\ spawner[r].id \in TaskIds
      BY <3>1, <3>2, <2>1, <1>a, <1>e DEF NumbersHold
    <3> QED
      BY <3>1, <3>3, <1>a, <1>d DEF NumbersHold
  <2>4. \A r \in Numbered : spawner'[r].id = spawner[r].id
    BY <1>c DEF Numbered
  <2> QED
    BY <1>a, <2>1, <2>2, <2>3, <2>4 DEF NumbersHold
<1>3. CallersHold'
  <2>1. ASSUME NEW i \in 1..taskSeq, Past(i) PROVE Past(i)'
    <3>1. i # spawner[s].id /\ i \in TaskIds
      BY <2>1, <1>e DEF Past
    <3> QED
      BY <2>1, <3>1, <1>c, <1>d DEF Past
  <2> QED
    BY <1>a, <2>1 DEF CallersHold, Past
<1> QED
  BY <1>1, <1>2, <1>3 DEF TasksInv

LEMMA SpawnKeeps ==
    ASSUME TasksInv, NEW s \in Spawners, SpawnStep(s)
    PROVE  TasksInv'
<1>a. TasksTyped /\ NumbersHold /\ TaskRegistryHolds
  BY DEF TasksInv
<1>1. CASE SpawnNumber(s)
  BY <1>1, NumberKeeps
<1>2. CASE SpawnHandle(s)
  BY <1>2, SpawnerMoves DEF SpawnHandle
<1>3. CASE SpawnRegister(s) /\ LimitReached(tasks)
  <2>1. /\ spawner[s].at = "register" /\ spawner' = [spawner EXCEPT ![s].at = "over"]
        /\ UNCHANGED <<taskSeq, tasks, order, cancels, taskCall>>
    BY <1>3 DEF SpawnRegister
  <2> QED
    BY <2>1, SpawnerMoves
<1>4. CASE SpawnRegister(s) /\ ~LimitReached(tasks)
  <2> DEFINE id == spawner[s].id
             run == [NoRecord EXCEPT !.status = "running"]
             added == [tasks EXCEPT ![id] = run]
             listed == Append(order, id)
             at == Pruned(added, listed)
             gone == {listed[i] : i \in at}
             finished == {i \in DOMAIN listed : added[listed[i]].status \in Terminal}
  <2>1. /\ spawner[s].at = "register" /\ spawner' = [spawner EXCEPT ![s].at = "handle"]
        /\ tasks' = [i \in TaskIds |-> IF i \in gone THEN NoRecord ELSE added[i]]
        /\ order' = IF at = {} THEN listed ELSE RemoveAt(listed, CHOOSE i \in at : TRUE)
        /\ cancels' = (cancels \cup {id}) \ gone
        /\ UNCHANGED <<taskSeq, taskCall>>
    BY <1>4 DEF SpawnRegister
  <2>2. /\ tasks \in [TaskIds -> TaskRecord] /\ order \in Seq(TaskIds)
        /\ id \in TaskIds /\ tasks[id].status = "absent" /\ IsFiniteSet(TaskIds)
    BY <2>1, <1>a, NumbersAreIds DEF TasksTyped, NumbersHold, Numbered
  <2>3. /\ run \in TaskRecord /\ run.status = "running" /\ NoRecord \in TaskRecord
        /\ NoRecord.status = "absent"
    BY DEF NoRecord, TaskRecord
  <2>4. /\ added \in [TaskIds -> TaskRecord] /\ added[id] = run
        /\ \A i \in TaskIds : i # id => added[i] = tasks[i]
    BY <2>2, <2>3
  <2>5. /\ Present(added) = Present(tasks) \cup {id} /\ id \notin Present(tasks)
        /\ Active(added) = Active(tasks) \cup {id} /\ id \notin Active(tasks)
    BY <2>2, <2>3, <2>4 DEF Present, Active
  <2>6. \A t \in [TaskIds -> TaskRecord] : Present(t) \in SUBSET TaskIds /\ Active(t) \in SUBSET Present(t)
    BY DEF Present, Active
  <2>7. IsFiniteSet(Present(tasks)) /\ IsFiniteSet(Active(tasks))
        /\ IsFiniteSet(Present(added)) /\ IsFiniteSet(Active(added))
    <3>1. IsFiniteSet(Present(tasks)) /\ IsFiniteSet(Present(added))
      BY <2>2, <2>4, <2>6, FS_Subset
    <3> QED
      BY <3>1, <2>2, <2>4, <2>6, FS_Subset
  <2>8. /\ Cardinality(Present(added)) = Cardinality(Present(tasks)) + 1
        /\ Cardinality(Active(added)) = Cardinality(Active(tasks)) + 1
    BY <2>5, <2>7, FS_AddElement
  <2>9. /\ Cardinality(Present(tasks)) \in Nat /\ Cardinality(Active(tasks)) \in Nat
        /\ Cardinality(Present(tasks)) <= MaxRecords /\ Cardinality(Active(tasks)) < MaxActive
        /\ MaxActive \in Nat /\ MaxRecords \in Nat /\ MaxActive <= MaxRecords
    BY <2>7, <1>4, <1>a, FS_CardinalityType, TaskAssumption DEF TaskRegistryHolds, LimitReached
  <2>10. /\ listed \in Seq(TaskIds) /\ Len(listed) = Len(order) + 1 /\ Len(order) \in Nat
         /\ DOMAIN listed = 1..Len(listed) /\ DOMAIN order = 1..Len(order)
         /\ \A i \in 1..Len(order) : listed[i] = order[i]
         /\ listed[Len(listed)] = id
    BY <2>2
  <2> HIDE DEF run, added, listed
  <2>11. ToSet(listed) = Present(added) /\ IsInjective(listed)
    <3>1. ToSet(order) = Present(tasks) /\ IsInjective(order)
      BY <1>a DEF TaskRegistryHolds
    <3>2. ToSet(listed) = ToSet(order) \cup {id}
      BY <2>10 DEF ToSet
    <3>3. \A i \in 1..Len(order) : order[i] # id
      BY <3>1, <2>5, <2>10 DEF ToSet
    <3>4. IsInjective(listed)
      BY <3>1, <3>3, <2>10 DEF IsInjective
    <3> QED
      BY <3>1, <3>2, <3>4, <2>5
  <2>12. at = {i \in finished : Cardinality(Present(added)) > MaxRecords /\ \A j \in finished : i <= j}
    BY DEF Pruned
  <2>13. finished \subseteq Nat
    BY <2>10
  <2>14. \A i \in at : \A j \in at : i = j
    BY <2>12, <2>13
  <2>15. Cardinality(Present(added)) > MaxRecords => at # {}
    <3> SUFFICES ASSUME Cardinality(Present(added)) > MaxRecords PROVE at # {}
      OBVIOUS
    <3>1. Active(added) # Present(added)
      BY <2>8, <2>9
    <3>2. PICK g \in Present(added) : g \notin Active(added)
      BY <3>1, <2>4, <2>6
    <3>3. added[g].status \in Terminal /\ g \in TaskIds
      BY <3>2, <2>4 DEF Present, Active, TaskRecord
    <3>4. PICK i \in DOMAIN listed : listed[i] = g
      BY <3>2, <2>11 DEF ToSet
    <3>5. finished # {}
      BY <3>3, <3>4
    <3>6. PICK v \in finished : \A u \in finished : v <= u
      <4> HIDE DEF finished
      <4> QED
        BY <3>5, <2>13, LeastPosition
    <3> HIDE DEF finished, at
    <3> QED
      BY <3>6, <2>12
  <2>16. at \subseteq 1..Len(listed) /\ \A i \in at : added[listed[i]].status \in Terminal
    BY <2>12, <2>10
  <2> HIDE DEF at, finished
  <2>17. \A i \in gone : i \in TaskIds /\ i # id /\ added[i].status \in Terminal /\ i \notin Active(added)
    <3>1. \A i \in at : listed[i] \in TaskIds
      BY <2>16, <2>10
    <3>2. "running" \notin Terminal
      BY DEF Terminal
    <3> QED
      BY <3>1, <3>2, <2>16, <2>3, <2>4 DEF Active
  <2>18. /\ tasks' \in [TaskIds -> TaskRecord]
         /\ \A i \in TaskIds : i # id => tasks'[i] = tasks[i] \/ tasks'[i] = NoRecord
    BY <2>1, <2>3, <2>4
  <2>19. Active(tasks') = Active(added) /\ Present(tasks') = Present(added) \ gone
    <3>1. DOMAIN tasks' = TaskIds /\ DOMAIN added = TaskIds
      BY <2>4, <2>18
    <3>2. \A i \in TaskIds : tasks'[i] = IF i \in gone THEN NoRecord ELSE added[i]
      BY <2>1
    <3> HIDE DEF gone
    <3> QED
      BY <3>1, <3>2, <2>3, <2>17 DEF Active, Present
  <2>20. cancels' = Active(tasks')
    <3>1. cancels \cup {id} = Active(added)
      BY <2>5, <1>a DEF TaskRegistryHolds
    <3> QED
      BY <3>1, <2>1, <2>17, <2>19
  <2>21. \A i \in TaskIds : tasks'[i].status \in {"completed", "killed"} => tasks'[i].output = 0
    <3>1. \A i \in TaskIds : added[i].status \in {"completed", "killed"} => added[i].output = 0
      BY <2>3, <2>4, <1>a DEF TaskRegistryHolds
    <3> QED
      BY <3>1, <2>1, <2>3
  <2>22. Cardinality(Active(tasks')) <= MaxActive
    BY <2>8, <2>9, <2>19
  <2>23. CASE at = {}
    <3>1. gone = {} /\ order' = listed
      BY <2>1, <2>23
    <3>2. Present(tasks') = Present(added)
      BY <3>1, <2>19
    <3>3. Cardinality(Present(tasks')) <= MaxRecords
      BY <3>2, <2>8, <2>9, <2>15, <2>23
    <3>4. TaskRegistryHolds'
      BY <3>1, <3>2, <3>3, <2>11, <2>20, <2>21, <2>22 DEF TaskRegistryHolds
    <3> QED
      BY <3>1, <3>4, <2>1, <2>10, <2>18, RegisterKeeps
  <2>24. CASE at # {}
    <3> DEFINE k == CHOOSE i \in at : TRUE
    <3>1. k \in at
      BY <2>24
    <3>2. at = {k}
      BY <3>1, <2>14
    <3>3. order' = RemoveAt(listed, k)
      BY <2>1, <2>24
    <3> HIDE DEF k
    <3>4. gone = {listed[k]} /\ k \in 1..Len(listed)
      BY <3>2, <2>16
    <3>5. /\ order' \in Seq(TaskIds) /\ ToSet(order') = ToSet(listed) \ {listed[k]}
          /\ IsInjective(order')
      BY <3>3, <3>4, <2>10, <2>11, RemoveAtKeeps
    <3>6. ToSet(order') = Present(tasks')
      BY <3>4, <3>5, <2>11, <2>19
    <3>7. Cardinality(Present(tasks')) <= MaxRecords
      <4>1. listed[k] \in Present(added)
        BY <3>4, <2>10, <2>11 DEF ToSet
      <4>2. Cardinality(Present(added) \ {listed[k]}) = Cardinality(Present(added)) - 1
        BY <4>1, <2>7, FS_RemoveElement
      <4>3. Cardinality(Present(tasks')) = Cardinality(Present(added)) - 1
        BY <4>2, <3>4, <2>19
      <4> QED
        BY <4>3, <2>8, <2>9
    <3>8. TaskRegistryHolds'
      BY <3>5, <3>6, <3>7, <2>20, <2>21, <2>22 DEF TaskRegistryHolds
    <3> QED
      BY <3>5, <3>8, <2>1, <2>18, RegisterKeeps
  <2> QED
    BY <2>23, <2>24
<1> QED
  BY <1>1, <1>2, <1>3, <1>4 DEF SpawnStep

LEMMA TasksNextInv == TasksInv /\ [TaskNext]_taskVars => TasksInv'
<1> SUFFICES ASSUME TasksInv, [TaskNext]_taskVars PROVE TasksInv'
  OBVIOUS
<1>1. CASE UNCHANGED taskVars
  <2>1. UNCHANGED <<taskSeq, tasks, order, cancels, spawner, taskCall>>
    BY <1>1 DEF taskVars
  <2> QED
    BY <2>1 DEF TasksInv, TasksTyped, NumbersHold, Numbered, CallersHold, Past, TaskRegistryHolds
<1> QED
  BY <1>1, SpawnKeeps, OutputKeeps, WaiterKeeps DEF TaskNext

\* For any number of tasks, waits and stops, and any limits: however they
\* interleave, no more tasks run or are remembered than the limits allow,
\* though a number is taken before the limit is checked; the order lists every
\* record once; a task has a cancel flag just while it runs; and what a task
\* printed late never replaces its result (TaskManager::spawn_shell,
\* prune_terminal_tasks, stop).
THEOREM TaskRegistryIsSound == TaskSpec => []TaskRegistryHolds
<1>1. TasksInv => TaskRegistryHolds
  BY DEF TasksInv
<1> QED
  BY <1>1, TasksInitInv, TasksNextInv, PTL DEF TaskSpec

-----------------------------------------------------------------------------
(* The skill store.  What a package will be when the rest of a change is   *)
(* written can be read off the writes that are left: the last one to a     *)
(* slot counts, or else what is there.                                     *)

MaybeBody == Bodies \cup {Absent}
Trusts == {"trusted", "system", Absent}
SkillMetas == [of : MaybeBody, trust : Trusts]
SkillHeads == {h \in [active : 0..MaxVersion, of : MaybeBody, trust : Trusts] :
                  h = NoHead \/ h.active \in Versions}
RecStates == {"active", "deprecated", Absent}
Packages ==
    [md : MaybeBody, res : BOOLEAN, index : MaybeBody, meta : SkillMetas, head : SkillHeads,
     body : [Versions -> MaybeBody], rec : [Versions -> RecStates]]

Wholes == {"package", "bodies", "records"}
Others == {"res", "index", "refresh", "cache", "check"}

\* A write is to a part of its own type.
WriteFits(w) ==
    /\ w.part \in {"body", "rec"} => w.ver \in Versions
    /\ w.part \notin {"body", "rec"} => w.ver = 0
    /\ w.part \in {"md", "index", "refresh", "cache", "body"} => w.val \in MaybeBody
    /\ w.part = "rec" => w.val \in RecStates
    /\ w.part = "meta" => w.val \in SkillMetas
    /\ w.part = "head" => w.val \in SkillHeads
    /\ w.part = "res" => w.val \in BOOLEAN
    /\ w.part \in Wholes => w.val = Absent
    /\ w.part = "check" => w.fail = "discard"

SkillVals == MaybeBody \cup RecStates \cup SkillMetas \cup SkillHeads \cup BOOLEAN
SkillWrites ==
    {w \in [part : {"md", "meta", "head", "body", "rec"} \cup Wholes \cup Others,
            ver : 0..MaxVersion, val : SkillVals,
            fail : {"ignore", "stop", "discard", "discard_twice", "restore"}] : WriteFits(w)}

Making == {"create", "import", "install"}

CreateFits(w) == w.fail \in {"stop", "discard", "discard_twice"}
DiscardFits(w) == w.fail = "ignore"
DeleteFits(w) == w.fail = "stop"
PruneFits(w) ==
    \/ w.part \in {"body", "rec"} /\ w.fail = "stop"
    \/ w.part \in {"index", "cache"} /\ w.fail = "ignore"

InVersions(w, b) ==
    w.part \notin Wholes
    /\ (w.part \in {"body", "rec"} => w.ver \in {b.head.active, b.head.active + 1})

UpdateFits(w, b) ==
    /\ InVersions(w, b)
    /\ w.fail = "restore" \/ (w.fail = "ignore" /\ w.part \in {"index", "cache"})
    /\ w.part = "md" => w.val # Absent
    /\ w.part = "meta" => w.val.trust = b.head.trust
    /\ w.part = "head" => w.val.trust = b.head.trust

RestoreFits(w, b) ==
    /\ InVersions(w, b) /\ w.fail = "ignore"
    /\ w.part = "md" => w.val = b.md
    /\ w.part = "meta" => w.val = b.meta
    /\ w.part = "head" => w.val = b.head

Slots == ({"md", "meta", "head"} \X {0}) \cup ({"body", "rec"} \X Versions)

SlotOf(s, q) ==
    IF q[1] = "md" THEN s.md ELSE IF q[1] = "meta" THEN s.meta
    ELSE IF q[1] = "head" THEN s.head
    ELSE IF q[1] = "body" THEN s.body[q[2]] ELSE s.rec[q[2]]

Hits(w, q) ==
    \/ w.part = q[1] /\ w.ver = q[2]
    \/ w.part = "package" /\ q[1] = "md"
    \/ w.part = "bodies" /\ q[1] = "body"
    \/ w.part = "records" /\ q[1] = "rec"

Misses(ws, q) == \A i \in 1..Len(ws) : ~Hits(ws[i], q)

HitsLast(ws, q, x) ==
    \E i \in 1..Len(ws) :
        /\ Hits(ws[i], q) /\ ws[i].val = x
        /\ \A j \in 1..Len(ws) : j > i => ~Hits(ws[j], q)

\* Slot q of package s will be x when ws is written.
Ends(ws, s, q, x) == HitsLast(ws, q, x) \/ (Misses(ws, q) /\ SlotOf(s, q) = x)

EndsAs(ws, s, goal) == \A q \in Slots : Ends(ws, s, q, SlotOf(goal, q))

\* A package is in order, and no version is newer than the active one.
InOrderSkill(s) ==
    IF s.md = Absent THEN Core(s) = Core(NoPackage)
    ELSE /\ s.head.of = s.md /\ s.meta = Meta(s.md, s.head.trust)
         /\ s.head.active \in Versions /\ s.body[s.head.active] = s.md
         /\ \A v \in Versions : s.rec[v] = "active" <=> v = s.head.active
         /\ \A v \in Versions : v > s.head.active => s.rec[v] = Absent

UndoGoal(ch) == IF ch.kind = "update" THEN ch.before ELSE NoPackage

SystemPkg(s) == s.md # Absent /\ s.meta.trust = "system" /\ s.head.trust = "system"

\* What may be left to write, by the kind of the change.
Fits(w, k, undoing, b) ==
    /\ k \in Making => IF undoing THEN DiscardFits(w) ELSE CreateFits(w)
    /\ k = "update" => IF undoing THEN RestoreFits(w, b) ELSE UpdateFits(w, b)
    /\ k = "delete" => DeleteFits(w)
    /\ k = "prune" => PruneFits(w)

FitWrites(k, undoing, b) == {w \in SkillWrites : Fits(w, k, undoing, b)}

\* An update touches two versions.
UpdateKept(b, s) ==
    /\ b.head.active \in Versions /\ b.head.active + 1 \in Versions /\ b.md # Absent
    /\ \A v \in Versions \ {b.head.active, b.head.active + 1} : s.body[v] = b.body[v] /\ s.rec[v] = b.rec[v]

\* An installation will have promoted its package.
Promoting(ws, s) ==
    \E c \in Bodies : /\ Ends(ws, s, <<"md", 0>>, c) /\ Ends(ws, s, <<"meta", 0>>, Meta(c, "system"))
                      /\ Ends(ws, s, <<"head", 0>>, HeadOf(1, c, "system"))

\* A change is on its way to a package in order, to what was there before it,
\* or to nothing.
ChangeOk(ch, s, td, sy) ==
    /\ ch.kind # "none" /\ ch.todo # <<>> /\ ch.todo \in Seq(FitWrites(ch.kind, ch.undoing, ch.before))
    /\ ch.undoing => ch.kind \in Making \cup {"update"}
    /\ (~ch.undoing \/ td) => ch.clean
    /\ ch.kind = "update" => UpdateKept(ch.before, s)
    /\ (ch.undoing /\ ch.clean) => EndsAs(ch.todo, s, UndoGoal(ch))
    /\ (td /\ ch.kind = "update") => InOrderSkill(ch.before)
    /\ (td /\ ~ch.undoing) => \E goal \in Packages : InOrderSkill(goal) /\ EndsAs(ch.todo, s, goal)
    /\ (ch.kind = "install" /\ ~ch.undoing) => Promoting(ch.todo, s)
    /\ sy => /\ ch.kind \in {"update", "prune"}
             /\ ch.kind = "update" => SystemPkg(ch.before)

Kinds == {"none", "update", "delete", "prune"} \cup Making

Changes ==
    [kind : Kinds, tab : Tabs \cup {Absent}, todo : Seq(SkillWrites), undoing : BOOLEAN, clean : BOOLEAN,
     before : Packages]

\* The package, the change, and what is known of the past.
StateOk(ch, s, td, sy) ==
    /\ ch \in Changes /\ s \in Packages
    /\ ch # NoChange => ChangeOk(ch, s, td, sy)
    /\ (td /\ ch = NoChange) => InOrderSkill(s)
    /\ sy => SystemPkg(s)

SkillInv ==
    /\ StateOk(change, pkg, tidy, system)
    /\ reader \in [Tabs -> [at : {"idle", "list", "load", "put_file", "write"}, saw : MaybeBody]]
    /\ discovery \in [Tabs -> MaybeBody]
    /\ system \in BOOLEAN /\ tidy \in BOOLEAN /\ skillFaults \in 0..MaxSkillFaults

LEMMA SkillFacts ==
    /\ Absent \notin Bodies /\ Retained \in Nat \ {0} /\ MaxVersion \in Nat \ {0}
    /\ MaxSkillFaults \in Nat /\ Versions = 1..MaxVersion /\ 1 \in Versions /\ 0 \notin Versions
    /\ Versions \subseteq Nat
  BY SkillAssumption DEF Versions

LEMMA PutParts ==
    ASSUME NEW part, NEW v, NEW val, NEW fail
    PROVE  /\ Put(part, val, fail).part = part /\ Put(part, val, fail).ver = 0
           /\ Put(part, val, fail).val = val /\ Put(part, val, fail).fail = fail
           /\ PutVersion(part, v, val, fail).part = part /\ PutVersion(part, v, val, fail).ver = v
           /\ PutVersion(part, v, val, fail).val = val /\ PutVersion(part, v, val, fail).fail = fail
  BY DEF Put, PutVersion

LEMMA NoPackageTyped ==
    /\ NoPackage \in Packages /\ NoPackage.md = Absent /\ NoPackage.meta = NoMeta /\ NoPackage.head = NoHead
    /\ \A v \in Versions : NoPackage.body[v] = Absent /\ NoPackage.rec[v] = Absent
    /\ NoHead \in SkillHeads /\ NoMeta \in SkillMetas
<1>1. NoHead \in SkillHeads
  BY SkillFacts DEF NoHead, HeadOf, SkillHeads, Trusts, MaybeBody
<1>2. NoMeta \in SkillMetas
  BY DEF NoMeta, Meta, SkillMetas, Trusts, MaybeBody
<1>3. [v \in Versions |-> Absent] \in [Versions -> MaybeBody] /\ [v \in Versions |-> Absent] \in [Versions -> RecStates]
  BY DEF MaybeBody, RecStates
<1>4. /\ NoPackage.md = Absent /\ NoPackage.meta = NoMeta /\ NoPackage.head = NoHead
      /\ NoPackage.body = [v \in Versions |-> Absent] /\ NoPackage.rec = [v \in Versions |-> Absent]
  BY DEF NoPackage
<1>5. NoPackage \in Packages
  BY <1>1, <1>2, <1>3 DEF NoPackage, Packages, MaybeBody
<1> QED
  BY <1>1, <1>2, <1>4, <1>5

LEMMA PkgParts ==
    ASSUME NEW s \in Packages
    PROVE  /\ s.md \in MaybeBody /\ s.res \in BOOLEAN /\ s.index \in MaybeBody /\ s.meta \in SkillMetas
           /\ s.head \in SkillHeads /\ s.body \in [Versions -> MaybeBody] /\ s.rec \in [Versions -> RecStates]
  BY DEF Packages

LEMMA HeadParts ==
    ASSUME NEW h \in SkillHeads
    PROVE  /\ h.active \in 0..MaxVersion /\ h.of \in MaybeBody /\ h.trust \in Trusts
           /\ h # NoHead => h.active \in Versions
  BY DEF SkillHeads

LEMMA SlotCases ==
    ASSUME NEW q \in Slots
    PROVE  \/ q = <<"md", 0>> \/ q = <<"meta", 0>> \/ q = <<"head", 0>>
           \/ \E v \in Versions : q = <<"body", v>>
           \/ \E v \in Versions : q = <<"rec", v>>
  BY DEF Slots

LEMMA SlotParts ==
    \A q \in Slots : q[1] \in {"md", "meta", "head", "body", "rec"}
  BY DEF Slots

LEMMA SlotValues ==
    ASSUME NEW s
    PROVE  /\ SlotOf(s, <<"md", 0>>) = s.md /\ SlotOf(s, <<"meta", 0>>) = s.meta
           /\ SlotOf(s, <<"head", 0>>) = s.head
           /\ \A v : SlotOf(s, <<"body", v>>) = s.body[v] /\ SlotOf(s, <<"rec", v>>) = s.rec[v]
  BY DEF SlotOf

\* The core of a package is its slots.
LEMMA CoreBySlots ==
    ASSUME NEW a \in Packages, NEW b \in Packages, \A q \in Slots : SlotOf(a, q) = SlotOf(b, q)
    PROVE  /\ a.md = b.md /\ a.meta = b.meta /\ a.head = b.head /\ a.body = b.body /\ a.rec = b.rec
           /\ Core(a) = Core(b)
<1>1. <<"md", 0>> \in Slots /\ <<"meta", 0>> \in Slots /\ <<"head", 0>> \in Slots
  BY DEF Slots
<1>2. \A v \in Versions : <<"body", v>> \in Slots /\ <<"rec", v>> \in Slots
  BY DEF Slots
<1>3. a.md = b.md /\ a.meta = b.meta /\ a.head = b.head
  BY <1>1, SlotValues
<1>4. ASSUME NEW v \in Versions PROVE a.body[v] = b.body[v] /\ a.rec[v] = b.rec[v]
  <2>1. SlotOf(a, <<"body", v>>) = SlotOf(b, <<"body", v>>) /\ SlotOf(a, <<"rec", v>>) = SlotOf(b, <<"rec", v>>)
    BY <1>2
  <2> QED
    BY <2>1 DEF SlotOf
<1>5. a.body = b.body /\ a.rec = b.rec
  BY <1>4, PkgParts
<1> QED
  BY <1>3, <1>5 DEF Core

LEMMA SlotsByCore ==
    ASSUME NEW a, NEW b, Core(a) = Core(b)
    PROVE  /\ a.md = b.md /\ a.meta = b.meta /\ a.head = b.head /\ a.body = b.body /\ a.rec = b.rec
           /\ \A q : SlotOf(a, q) = SlotOf(b, q)
  BY DEF Core, SlotOf

LEMMA OrderBySlots ==
    ASSUME NEW a \in Packages, NEW b \in Packages, \A q \in Slots : SlotOf(a, q) = SlotOf(b, q),
           InOrderSkill(a)
    PROVE  InOrderSkill(b)
<1>1. /\ a.md = b.md /\ a.meta = b.meta /\ a.head = b.head /\ a.body = b.body /\ a.rec = b.rec
      /\ Core(a) = Core(b)
  BY CoreBySlots
<1> QED
  BY <1>1 DEF InOrderSkill

\* One write on.
LEMMA EndsTail ==
    ASSUME NEW S, NEW ws \in Seq(S), ws # <<>>, NEW q, NEW x, NEW s, NEW s2, Ends(ws, s, q, x),
           SlotOf(s2, q) = IF Hits(ws[1], q) THEN ws[1].val ELSE SlotOf(s, q)
    PROVE  Ends(Tail(ws), s2, q, x)
<1>1. /\ Len(ws) \in Nat /\ Len(ws) > 0 /\ Tail(ws) \in Seq(S) /\ Len(Tail(ws)) = Len(ws) - 1
      /\ \A c \in 1..(Len(ws) - 1) : Tail(ws)[c] = ws[c + 1]
  OBVIOUS
<1>n. PICK n \in Nat : n = Len(ws)
  BY <1>1
<1>t. PICK t : t = Tail(ws)
  OBVIOUS
<1>2. Len(t) = n - 1 /\ n > 0 /\ \A c \in 1..(n - 1) : t[c] = ws[c + 1]
  BY <1>1, <1>n, <1>t
<1>a. \A c \in 1..(n - 1) : c + 1 \in 1..n /\ c + 1 > 1 /\ c + 1 \in Nat
  OBVIOUS
<1>3. CASE Misses(ws, q) /\ SlotOf(s, q) = x
  <2>1. 1 \in 1..n /\ \A c \in 1..n : ~Hits(ws[c], q)
    BY <1>2, <1>3, <1>n DEF Misses
  <2>2. \A c \in 1..(n - 1) : ~Hits(t[c], q)
    BY <2>1, <1>2, <1>a
  <2>3. Misses(t, q)
    BY <2>2, <1>2 DEF Misses
  <2>4. SlotOf(s2, q) = x
    BY <2>1, <1>3
  <2> QED
    BY <2>3, <2>4, <1>t DEF Ends
<1>4. CASE HitsLast(ws, q, x)
  <2>1. PICK i \in 1..n : Hits(ws[i], q) /\ ws[i].val = x /\ \A j \in 1..n : j > i => ~Hits(ws[j], q)
    BY <1>4, <1>n DEF HitsLast
  <2>2. CASE i = 1
    <3>1. \A c \in 1..(n - 1) : ~Hits(t[c], q)
      BY <2>1, <2>2, <1>2, <1>a
    <3>2. Misses(t, q)
      BY <3>1, <1>2 DEF Misses
    <3>3. SlotOf(s2, q) = x
      BY <2>1, <2>2
    <3> QED
      BY <3>2, <3>3, <1>t DEF Ends
  <2>3. CASE i # 1
    <3>1. PICK k \in 1..(n - 1) : i = k + 1
      <4>1. i - 1 \in 1..(n - 1) /\ i = (i - 1) + 1
        BY <2>3
      <4> QED
        BY <4>1
    <3>2. Hits(t[k], q) /\ t[k].val = x
      BY <3>1, <2>1, <1>2
    <3>3. ASSUME NEW j \in 1..(n - 1), j > k PROVE ~Hits(t[j], q)
      <4>1. j + 1 \in 1..n /\ j + 1 > i
        BY <3>1, <3>3
      <4> QED
        BY <4>1, <2>1, <1>2
    <3>4. HitsLast(t, q, x)
      BY <3>2, <3>3, <1>2 DEF HitsLast
    <3> QED
      BY <3>4, <1>t DEF Ends
  <2> QED
    BY <2>2, <2>3
<1> QED
  BY <1>3, <1>4 DEF Ends

LEMMA EndsDone ==
    ASSUME NEW s, NEW q, NEW x, Ends(<<>>, s, q, x)
    PROVE  SlotOf(s, q) = x
<1>1. Len(<<>>) = 0 /\ \A i \in 1..0 : FALSE
  OBVIOUS
<1> QED
  BY <1>1 DEF Ends, HitsLast

\* What the second of two lists writes is what counts.
LEMMA JoinHits ==
    ASSUME NEW S, NEW a \in Seq(S), NEW b \in Seq(S), NEW q, NEW x, HitsLast(b, q, x)
    PROVE  HitsLast(a \o b, q, x)
<1>1. PICK i \in 1..Len(b) : Hits(b[i], q) /\ b[i].val = x /\ \A j \in 1..Len(b) : j > i => ~Hits(b[j], q)
  BY DEF HitsLast
<1>2. PICK m, n \in Nat : m = Len(a) /\ n = Len(b)
  OBVIOUS
<1>3. /\ Len(a \o b) = m + n
      /\ \A c \in 1..(m + n) : (a \o b)[c] = IF c <= m THEN a[c] ELSE b[c - m]
  BY <1>2
<1>4. PICK t : t = a \o b
  OBVIOUS
<1>5. m + i \in 1..(m + n) /\ ~(m + i <= m) /\ (m + i) - m = i
  BY <1>1, <1>2
<1>6. t[m + i] = b[i]
  BY <1>3, <1>4, <1>5
<1>7. ASSUME NEW j \in 1..(m + n), j > m + i PROVE ~Hits(t[j], q)
  <2>1. ~(j <= m) /\ j - m \in 1..n /\ j - m > i
    BY <1>1, <1>2, <1>7
  <2> QED
    BY <2>1, <1>1, <1>2, <1>3, <1>4
<1>8. HitsLast(t, q, x)
  BY <1>1, <1>3, <1>4, <1>5, <1>6, <1>7 DEF HitsLast
<1> QED
  BY <1>4, <1>8

LEMMA JoinMisses ==
    ASSUME NEW S, NEW a \in Seq(S), NEW b \in Seq(S), NEW q, NEW x, Misses(b, q)
    PROVE  /\ HitsLast(a, q, x) => HitsLast(a \o b, q, x)
           /\ Misses(a, q) => Misses(a \o b, q)
<1>2. PICK m, n \in Nat : m = Len(a) /\ n = Len(b)
  OBVIOUS
<1>3. /\ Len(a \o b) = m + n
      /\ \A c \in 1..(m + n) : (a \o b)[c] = IF c <= m THEN a[c] ELSE b[c - m]
  BY <1>2
<1>4. PICK t : t = a \o b
  OBVIOUS
<1>5. ASSUME NEW j \in 1..(m + n), ~(j <= m) PROVE ~Hits(t[j], q)
  <2>1. j - m \in 1..n
    BY <1>2, <1>5
  <2> QED
    BY <2>1, <1>2, <1>3, <1>4, <1>5 DEF Misses
<1>6. ASSUME HitsLast(a, q, x) PROVE HitsLast(t, q, x)
  <2>1. PICK i \in 1..m : Hits(a[i], q) /\ a[i].val = x /\ \A j \in 1..m : j > i => ~Hits(a[j], q)
    BY <1>2, <1>6 DEF HitsLast
  <2>2. i \in 1..(m + n) /\ i <= m /\ t[i] = a[i]
    BY <1>3, <1>4
  <2>3. ASSUME NEW j \in 1..(m + n), j > i PROVE ~Hits(t[j], q)
    <3>1. CASE j <= m
      <4>1. j \in 1..m /\ t[j] = a[j]
        BY <3>1, <1>3, <1>4
      <4>2. ~Hits(a[j], q)
        BY <4>1, <2>1, <2>3
      <4> QED
        BY <4>1, <4>2
    <3> QED
      BY <3>1, <1>5
  <2> QED
    BY <2>1, <2>2, <2>3, <1>3, <1>4 DEF HitsLast
<1>7. ASSUME Misses(a, q) PROVE Misses(t, q)
  <2>1. ASSUME NEW j \in 1..(m + n) PROVE ~Hits(t[j], q)
    <3>1. CASE j <= m
      <4>1. j \in 1..m /\ t[j] = a[j]
        BY <3>1, <1>3, <1>4
      <4> QED
        BY <4>1, <1>2, <1>7 DEF Misses
    <3> QED
      BY <3>1, <1>5
  <2> QED
    BY <2>1, <1>3, <1>4 DEF Misses
<1> QED
  BY <1>4, <1>6, <1>7

LEMMA WriteParts ==
    ASSUME NEW w \in SkillWrites
    PROVE  /\ WriteFits(w)
           /\ w.part \in {"md", "meta", "head", "body", "rec"} \cup Wholes \cup Others
           /\ w.ver \in 0..MaxVersion /\ w.val \in SkillVals
           /\ w.fail \in {"ignore", "stop", "discard", "discard_twice", "restore"}
  BY DEF SkillWrites

LEMMA MetaTyped ==
    ASSUME NEW c \in MaybeBody, NEW tr \in Trusts
    PROVE  /\ Meta(c, tr) \in SkillMetas /\ Meta(c, tr).of = c /\ Meta(c, tr).trust = tr
  BY DEF Meta, SkillMetas

LEMMA HeadTyped ==
    ASSUME NEW v \in Versions, NEW c \in MaybeBody, NEW tr \in Trusts
    PROVE  /\ HeadOf(v, c, tr) \in SkillHeads /\ HeadOf(v, c, tr).of = c /\ HeadOf(v, c, tr).trust = tr
           /\ HeadOf(v, c, tr).active = v
  BY SkillFacts DEF HeadOf, SkillHeads

\* Writing a part of a package.
LEMMA AfterParts ==
    ASSUME NEW s \in Packages, NEW w \in SkillWrites
    PROVE  LET z == AfterWrite(s, w) IN
           /\ z.md = (IF w.part = "package" THEN Absent ELSE IF w.part = "md" THEN w.val ELSE s.md)
           /\ z.res = (IF w.part = "package" THEN FALSE ELSE IF w.part = "res" THEN w.val ELSE s.res)
           /\ z.index = (IF w.part = "refresh" THEN w.val ELSE IF w.part = "index" THEN w.val ELSE s.index)
           /\ z.meta = (IF w.part = "meta" THEN w.val ELSE s.meta)
           /\ z.head = (IF w.part = "head" THEN w.val ELSE s.head)
           /\ z.body = (IF w.part = "bodies" THEN NoPackage.body ELSE
                        IF w.part = "body" THEN [s.body EXCEPT ![w.ver] = w.val] ELSE s.body)
           /\ z.rec = (IF w.part = "records" THEN NoPackage.rec ELSE
                       IF w.part = "rec" THEN [s.rec EXCEPT ![w.ver] = w.val] ELSE s.rec)
           /\ z = [md |-> z.md, res |-> z.res, index |-> z.index, meta |-> z.meta, head |-> z.head,
                   body |-> z.body, rec |-> z.rec]
  BY DEF AfterWrite

LEMMA AfterTyped ==
    ASSUME NEW s \in Packages, NEW w \in SkillWrites
    PROVE  AfterWrite(s, w) \in Packages
<1>1. PICK z : z = AfterWrite(s, w)
  OBVIOUS
<1>2. WriteFits(w)
  BY WriteParts
<1>3. /\ s.md \in MaybeBody /\ s.res \in BOOLEAN /\ s.index \in MaybeBody /\ s.meta \in SkillMetas
      /\ s.head \in SkillHeads /\ s.body \in [Versions -> MaybeBody] /\ s.rec \in [Versions -> RecStates]
  BY PkgParts
<1>4. /\ NoPackage.body \in [Versions -> MaybeBody] /\ NoPackage.rec \in [Versions -> RecStates]
  BY NoPackageTyped, PkgParts
<1>5. Absent \in MaybeBody
  BY DEF MaybeBody
<1>6. /\ z.md = (IF w.part = "package" THEN Absent ELSE IF w.part = "md" THEN w.val ELSE s.md)
      /\ z.res = (IF w.part = "package" THEN FALSE ELSE IF w.part = "res" THEN w.val ELSE s.res)
      /\ z.index = (IF w.part = "refresh" THEN w.val ELSE IF w.part = "index" THEN w.val ELSE s.index)
      /\ z.meta = (IF w.part = "meta" THEN w.val ELSE s.meta)
      /\ z.head = (IF w.part = "head" THEN w.val ELSE s.head)
  BY AfterParts, <1>1
<1>7. /\ z.body = (IF w.part = "bodies" THEN NoPackage.body ELSE
                        IF w.part = "body" THEN [s.body EXCEPT ![w.ver] = w.val] ELSE s.body)
      /\ z.rec = (IF w.part = "records" THEN NoPackage.rec ELSE
                       IF w.part = "rec" THEN [s.rec EXCEPT ![w.ver] = w.val] ELSE s.rec)
  BY AfterParts, <1>1
<1>8. z = [md |-> z.md, res |-> z.res, index |-> z.index, meta |-> z.meta, head |-> z.head,
                   body |-> z.body, rec |-> z.rec]
  BY AfterParts, <1>1
<1>9. z.md \in MaybeBody /\ z.index \in MaybeBody
  BY <1>2, <1>3, <1>5, <1>6 DEF WriteFits
<1>10. z.meta \in SkillMetas /\ z.head \in SkillHeads
  BY <1>2, <1>3, <1>6 DEF WriteFits
<1>11. z.res \in BOOLEAN
  BY <1>2, <1>3, <1>6 DEF WriteFits
<1>12. z.body \in [Versions -> MaybeBody]
  BY <1>2, <1>3, <1>4, <1>7 DEF WriteFits
<1>13. z.rec \in [Versions -> RecStates]
  BY <1>2, <1>3, <1>4, <1>7 DEF WriteFits
<1>14. z \in Packages
  BY <1>8, <1>9, <1>10, <1>11, <1>12, <1>13 DEF Packages
<1> QED
  BY <1>1, <1>14

\* A slot has the value of a write that hits it, or keeps its own.
Wrote(s, w, z) == \A q \in Slots : SlotOf(z, q) = IF Hits(w, q) THEN w.val ELSE SlotOf(s, q)

LEMMA AfterSlots ==
    ASSUME NEW s \in Packages, NEW w \in SkillWrites
    PROVE  Wrote(s, w, AfterWrite(s, w))
<1>1. PICK z : z = AfterWrite(s, w)
  OBVIOUS
<1>2. WriteFits(w)
  BY WriteParts
<1>3. s.body \in [Versions -> MaybeBody] /\ s.rec \in [Versions -> RecStates]
  BY PkgParts
<1>6. /\ z.md = (IF w.part = "package" THEN Absent ELSE IF w.part = "md" THEN w.val ELSE s.md)
      /\ z.meta = (IF w.part = "meta" THEN w.val ELSE s.meta)
      /\ z.head = (IF w.part = "head" THEN w.val ELSE s.head)
  BY AfterParts, <1>1
<1>7. /\ z.body = (IF w.part = "bodies" THEN NoPackage.body ELSE
                        IF w.part = "body" THEN [s.body EXCEPT ![w.ver] = w.val] ELSE s.body)
      /\ z.rec = (IF w.part = "records" THEN NoPackage.rec ELSE
                       IF w.part = "rec" THEN [s.rec EXCEPT ![w.ver] = w.val] ELSE s.rec)
  BY AfterParts, <1>1
<1>8. /\ w.part \in {"body", "rec"} => w.ver \in Versions
      /\ w.part \notin {"body", "rec"} => w.ver = 0
      /\ w.part \in Wholes => w.val = Absent
  BY <1>2 DEF WriteFits
<1>v. 0 \notin Versions
  BY SkillFacts
<1>9. ASSUME NEW q \in Slots PROVE SlotOf(z, q) = IF Hits(w, q) THEN w.val ELSE SlotOf(s, q)
  <2>1. CASE q = <<"md", 0>>
    <3>1. q[1] = "md" /\ q[2] = 0
      BY <2>1
    <3> QED
      BY <3>1, <1>6, <1>8 DEF SlotOf, Hits, Wholes
  <2>2. CASE q = <<"meta", 0>>
    <3>1. q[1] = "meta" /\ q[2] = 0
      BY <2>2
    <3> QED
      BY <3>1, <1>6, <1>8 DEF SlotOf, Hits, Wholes
  <2>3. CASE q = <<"head", 0>>
    <3>1. q[1] = "head" /\ q[2] = 0
      BY <2>3
    <3> QED
      BY <3>1, <1>6, <1>8 DEF SlotOf, Hits, Wholes
  <2>4. CASE \E v \in Versions : q = <<"body", v>>
    <3>1. PICK v \in Versions : q = <<"body", v>>
      BY <2>4
    <3>2. q[1] = "body" /\ q[2] = v
      BY <3>1
    <3>3. NoPackage.body[v] = Absent
      BY NoPackageTyped
    <3> QED
      BY <3>2, <3>3, <1>3, <1>7, <1>8 DEF SlotOf, Hits, Wholes
  <2>5. CASE \E v \in Versions : q = <<"rec", v>>
    <3>1. PICK v \in Versions : q = <<"rec", v>>
      BY <2>5
    <3>2. q[1] = "rec" /\ q[2] = v
      BY <3>1
    <3>3. NoPackage.rec[v] = Absent
      BY NoPackageTyped
    <3> QED
      BY <3>2, <3>3, <1>3, <1>7, <1>8 DEF SlotOf, Hits, Wholes
  <2> QED
    BY <2>1, <2>2, <2>3, <2>4, <2>5, SlotCases
<1> QED
  BY <1>1, <1>9 DEF Wrote

\* A failed write to a single slot changes nothing; a failed removal of a
\* whole changes what it is to remove, only.
LEMMA PartlySame ==
    ASSUME NEW s, NEW w, w.part \notin Wholes
    PROVE  Partly(s, w) = {s}
  BY Zenon DEF Partly, Wholes

LEMMA PartlyTyped ==
    ASSUME NEW s \in Packages, NEW w, NEW z \in Partly(s, w)
    PROVE  z \in Packages
<1>0. /\ s.md \in MaybeBody /\ s.res \in BOOLEAN /\ s.index \in MaybeBody /\ s.meta \in SkillMetas
      /\ s.head \in SkillHeads /\ s.body \in [Versions -> MaybeBody] /\ s.rec \in [Versions -> RecStates]
      /\ Absent \in MaybeBody /\ Absent \in RecStates
  BY PkgParts DEF MaybeBody, RecStates
<1>1. CASE w.part = "package"
  <2>1. Partly(s, w) = {s, [s EXCEPT !.md = Absent], [s EXCEPT !.res = FALSE]}
    BY <1>1, Zenon DEF Partly
  <2>2. [s EXCEPT !.md = Absent] \in Packages /\ [s EXCEPT !.res = FALSE] \in Packages
    BY <1>0 DEF Packages
  <2> QED
    BY <2>1, <2>2
<1>2. CASE w.part = "bodies"
  <2>1. Partly(s, w) = {[s EXCEPT !["body"] = [v \in Versions |-> IF v \in gone THEN Absent ELSE s["body"][v]]] :
                    gone \in SUBSET Versions}
    BY <1>2 DEF Partly
  <2>2. PICK gone \in SUBSET Versions :
           z = [s EXCEPT !["body"] = [v \in Versions |-> IF v \in gone THEN Absent ELSE s["body"][v]]]
    BY <2>1
  <2>3. PICK f : f = [v \in Versions |-> IF v \in gone THEN Absent ELSE s["body"][v]]
    OBVIOUS
  <2>4. f \in [Versions -> MaybeBody]
    BY <2>3, <1>0
  <2>5. z = [s EXCEPT !.body = f]
    BY <2>2, <2>3
  <2> QED
    BY <2>4, <2>5, <1>0 DEF Packages
<1>3. CASE w.part = "records"
  <2>1. Partly(s, w) = {[s EXCEPT !["rec"] = [v \in Versions |-> IF v \in gone THEN Absent ELSE s["rec"][v]]] :
                    gone \in SUBSET Versions}
    BY <1>3 DEF Partly
  <2>2. PICK gone \in SUBSET Versions :
           z = [s EXCEPT !["rec"] = [v \in Versions |-> IF v \in gone THEN Absent ELSE s["rec"][v]]]
    BY <2>1
  <2>3. PICK f : f = [v \in Versions |-> IF v \in gone THEN Absent ELSE s["rec"][v]]
    OBVIOUS
  <2>4. f \in [Versions -> RecStates]
    BY <2>3, <1>0
  <2>5. z = [s EXCEPT !.rec = f]
    BY <2>2, <2>3
  <2> QED
    BY <2>4, <2>5, <1>0 DEF Packages
<1>4. CASE w.part \notin Wholes
  BY <1>4, PartlySame
<1> QED
  BY <1>1, <1>2, <1>3, <1>4 DEF Wholes

LEMMA UndoCases ==
    ASSUME NEW w
    PROVE  /\ w.fail = "discard" => UndoOf(w) = discard_uncommitted_package
           /\ w.fail = "discard_twice" => UndoOf(w) = discard_uncommitted_package \o discard_uncommitted_package
           /\ w.fail = "restore" => UndoOf(w) = restore_failed_update(change.before)
           /\ w.fail = "stop" => UndoOf(w) = <<>>
<1>1. w.fail = "discard" => UndoOf(w) = discard_uncommitted_package
  BY Zenon DEF UndoOf
<1>2. w.fail = "discard_twice" => UndoOf(w) = discard_uncommitted_package \o discard_uncommitted_package
  BY Zenon DEF UndoOf
<1>3. w.fail = "restore" => UndoOf(w) = restore_failed_update(change.before)
  BY Zenon DEF UndoOf
<1>4. w.fail = "stop" => UndoOf(w) = <<>>
  BY Zenon DEF UndoOf
<1> QED
  BY <1>1, <1>2, <1>3, <1>4

LEMMA JoinEnds ==
    ASSUME NEW S, NEW a \in Seq(S), NEW b \in Seq(S), NEW q, NEW x, NEW s
    PROVE  /\ HitsLast(b, q, x) => Ends(a \o b, s, q, x)
           /\ Misses(b, q) /\ Ends(a, s, q, x) => Ends(a \o b, s, q, x)
           /\ Misses(a, q) /\ Ends(b, s, q, x) => Ends(a \o b, s, q, x)
<1>1. HitsLast(b, q, x) => HitsLast(a \o b, q, x)
  BY JoinHits
<1>2. Misses(b, q) => (HitsLast(a, q, x) => HitsLast(a \o b, q, x)) /\ (Misses(a, q) => Misses(a \o b, q))
  BY JoinMisses
<1> QED
  BY <1>1, <1>2 DEF Ends

Fails == {"ignore", "stop", "discard", "discard_twice", "restore"}

LEMMA BodyPuts ==
    ASSUME NEW c \in MaybeBody, NEW f \in Fails
    PROVE  /\ Put("md", c, f) \in SkillWrites /\ Put("index", c, f) \in SkillWrites
           /\ Put("refresh", c, f) \in SkillWrites /\ Put("cache", c, f) \in SkillWrites
  BY SkillFacts DEF Put, SkillWrites, WriteFits, SkillVals, Wholes, Others, Fails

LEMMA OtherPuts ==
    ASSUME NEW f \in Fails
    PROVE  /\ Put("package", Absent, f) \in SkillWrites
           /\ Put("bodies", Absent, f) \in SkillWrites /\ Put("records", Absent, f) \in SkillWrites
           /\ Put("check", Absent, "discard") \in SkillWrites
  BY SkillFacts DEF Put, SkillWrites, WriteFits, SkillVals, Wholes, Others, Fails, MaybeBody

LEMMA ResPut ==
    ASSUME NEW b \in BOOLEAN, NEW f \in Fails
    PROVE  Put("res", b, f) \in SkillWrites
  BY SkillFacts DEF Put, SkillWrites, WriteFits, SkillVals, Wholes, Others, Fails

LEMMA MetaPut ==
    ASSUME NEW m \in SkillMetas, NEW f \in Fails
    PROVE  Put("meta", m, f) \in SkillWrites
  BY SkillFacts DEF Put, SkillWrites, WriteFits, SkillVals, Wholes, Others, Fails

LEMMA HeadPut ==
    ASSUME NEW h \in SkillHeads, NEW f \in Fails
    PROVE  Put("head", h, f) \in SkillWrites
  BY SkillFacts DEF Put, SkillWrites, WriteFits, SkillVals, Wholes, Others, Fails

LEMMA BodyVersionPut ==
    ASSUME NEW v \in Versions, NEW c \in MaybeBody, NEW f \in Fails
    PROVE  PutVersion("body", v, c, f) \in SkillWrites
  BY SkillFacts DEF PutVersion, SkillWrites, WriteFits, SkillVals, Wholes, Others, Fails

LEMMA RecVersionPut ==
    ASSUME NEW v \in Versions, NEW r \in RecStates, NEW f \in Fails
    PROVE  PutVersion("rec", v, r, f) \in SkillWrites
  BY SkillFacts DEF PutVersion, SkillWrites, WriteFits, SkillVals, Wholes, Others, Fails

\* What the lists of writes do to each slot, piece by piece.
LEMMA MdPiece ==
    ASSUME NEW c, NEW f
    PROVE  LET ws == <<Put("md", c, f)>> IN
           /\ HitsLast(ws, <<"md", 0>>, c)
           /\ \A q \in Slots : q[1] # "md" => Misses(ws, q)
<1>1. PICK ws : ws = <<Put("md", c, f)>>
  OBVIOUS
<1>2. Len(ws) = 1 /\ ws[1].part = "md" /\ ws[1].ver = 0 /\ ws[1].val = c
  BY <1>1 DEF Put
<1>3. HitsLast(ws, <<"md", 0>>, c)
  BY <1>2 DEF HitsLast, Hits
<1>5. \A q \in Slots : q[1] # "md" => Misses(ws, q)
  BY <1>2, SlotParts DEF Misses, Hits
<1> QED
  BY <1>1, <1>3, <1>5

LEMMA VersionPiece ==
    ASSUME NEW v \in Versions, NEW c, NEW f
    PROVE  LET ws == create_version(v, c, f) IN
           /\ HitsLast(ws, <<"body", v>>, c) /\ HitsLast(ws, <<"rec", v>>, "active")
           /\ \A q \in Slots : q # <<"body", v>> /\ q # <<"rec", v>> => Misses(ws, q)
<1>1. PICK ws : ws = create_version(v, c, f)
  OBVIOUS
<1>2. Len(ws) = 2 /\ ws[1].part = "body" /\ ws[1].ver = v /\ ws[1].val = c
      /\ ws[2].part = "rec" /\ ws[2].ver = v /\ ws[2].val = "active"
  BY <1>1 DEF create_version, PutVersion
<1>3. HitsLast(ws, <<"body", v>>, c)
  BY <1>2 DEF HitsLast, Hits
<1>4. HitsLast(ws, <<"rec", v>>, "active")
  BY <1>2 DEF HitsLast, Hits
<1>5. ASSUME NEW q \in Slots, q # <<"body", v>>, q # <<"rec", v>> PROVE Misses(ws, q)
  <2>1. ~(q[1] = "body" /\ q[2] = v) /\ ~(q[1] = "rec" /\ q[2] = v)
    BY <1>5, SlotCases
  <2> QED
    BY <2>1, <1>2 DEF Misses, Hits
<1> QED
  BY <1>1, <1>3, <1>4, <1>5

LEMMA RecordsPiece ==
    ASSUME NEW m, NEW h, NEW c, NEW f
    PROVE  LET ws == <<Put("meta", m, f), Put("head", h, f), Put("index", c, f)>> IN
           /\ HitsLast(ws, <<"meta", 0>>, m) /\ HitsLast(ws, <<"head", 0>>, h)
           /\ \A q \in Slots : q[1] \notin {"meta", "head"} => Misses(ws, q)
<1>1. PICK ws : ws = <<Put("meta", m, f), Put("head", h, f), Put("index", c, f)>>
  OBVIOUS
<1>2. Len(ws) = 3 /\ ws[1].part = "meta" /\ ws[1].ver = 0 /\ ws[1].val = m
      /\ ws[2].part = "head" /\ ws[2].ver = 0 /\ ws[2].val = h /\ ws[3].part = "index"
  BY <1>1 DEF Put
<1>3. HitsLast(ws, <<"meta", 0>>, m)
  BY <1>2 DEF HitsLast, Hits
<1>4. HitsLast(ws, <<"head", 0>>, h)
  BY <1>2 DEF HitsLast, Hits
<1>5. \A q \in Slots : q[1] \notin {"meta", "head"} => Misses(ws, q)
  BY <1>2, SlotParts DEF Misses, Hits
<1> QED
  BY <1>1, <1>3, <1>4, <1>5

\* Lists that touch no slot.
LEMMA QuietPieces ==
    ASSUME NEW c, NEW f, NEW q \in Slots
    PROVE  /\ Misses(Summary(c, f), q) /\ Misses(RegisteredIndex(c), q)
<1>1. PICK ws : ws = Summary(c, f)
  OBVIOUS
<1>2. PICK us : us = RegisteredIndex(c)
  OBVIOUS
<1>3. Len(ws) = 2 /\ ws[1].part = "refresh" /\ ws[2].part = "cache"
  BY <1>1 DEF Summary, Put
<1>4. Len(us) = 2 /\ us[1].part = "index" /\ us[2].part = "cache"
  BY <1>2 DEF RegisteredIndex, Put
<1>5. Misses(ws, q)
  BY <1>3, SlotParts DEF Misses, Hits
<1>6. Misses(us, q)
  BY <1>4, SlotParts DEF Misses, Hits
<1> QED
  BY <1>1, <1>2, <1>5, <1>6

LEMMA ImportPiece ==
    LET ws == <<Put("package", Absent, "stop"), Put("res", TRUE, "discard"), Put("check", Absent, "discard")>>
    IN  \A q \in Slots : q[1] # "md" => Misses(ws, q)
<1>1. PICK ws : ws = <<Put("package", Absent, "stop"), Put("res", TRUE, "discard"), Put("check", Absent, "discard")>>
  OBVIOUS
<1>2. Len(ws) = 3 /\ ws[1].part = "package" /\ ws[2].part = "res" /\ ws[3].part = "check"
  BY <1>1 DEF Put
<1>5. \A q \in Slots : q[1] # "md" => Misses(ws, q)
  BY <1>2, SlotParts DEF Misses, Hits
<1> QED
  BY <1>1, <1>5

LEMMA PromotionPiece ==
    ASSUME NEW c
    PROVE  /\ HitsLast(Promotion(c), <<"meta", 0>>, Meta(c, "system"))
           /\ HitsLast(Promotion(c), <<"head", 0>>, HeadOf(1, c, "system"))
           /\ \A q \in Slots : q[1] \notin {"meta", "head"} => Misses(Promotion(c), q)
<1>0. PICK m, h : m = Meta(c, "system") /\ h = HeadOf(1, c, "system")
  OBVIOUS
<1>1. PICK ws : ws = Promotion(c)
  OBVIOUS
<1>2. Len(ws) = 2 /\ ws[1].part = "meta" /\ ws[1].ver = 0 /\ ws[1].val = m
      /\ ws[2].part = "head" /\ ws[2].ver = 0 /\ ws[2].val = h
  BY <1>0, <1>1 DEF Promotion, Put
<1>3. HitsLast(ws, <<"meta", 0>>, m)
  BY <1>2 DEF HitsLast, Hits
<1>4. HitsLast(ws, <<"head", 0>>, h)
  BY <1>2 DEF HitsLast, Hits
<1>5. \A q \in Slots : q[1] \notin {"meta", "head"} => Misses(ws, q)
  BY <1>2, SlotParts DEF Misses, Hits
<1> QED
  BY <1>0, <1>1, <1>3, <1>4, <1>5

LEMMA UpdatePiece ==
    ASSUME NEW c, NEW m, NEW h, NEW f
    PROVE  LET ws == <<Put("md", c, f), Put("index", c, f), Put("cache", c, f), Put("meta", m, f), Put("head", h, f)>>
           IN  /\ HitsLast(ws, <<"md", 0>>, c) /\ HitsLast(ws, <<"meta", 0>>, m) /\ HitsLast(ws, <<"head", 0>>, h)
               /\ \A q \in Slots : q[1] \notin {"md", "meta", "head"} => Misses(ws, q)
<1>1. PICK ws : ws = <<Put("md", c, f), Put("index", c, f), Put("cache", c, f), Put("meta", m, f), Put("head", h, f)>>
  OBVIOUS
<1>2. Len(ws) = 5 /\ ws[1].part = "md" /\ ws[1].ver = 0 /\ ws[1].val = c
      /\ ws[2].part = "index" /\ ws[3].part = "cache" /\ ws[4].part = "meta" /\ ws[4].ver = 0 /\ ws[4].val = m
      /\ ws[5].part = "head" /\ ws[5].ver = 0 /\ ws[5].val = h
  BY <1>1 DEF Put
<1>3. HitsLast(ws, <<"meta", 0>>, m)
  BY <1>2 DEF HitsLast, Hits
<1>4. HitsLast(ws, <<"head", 0>>, h)
  BY <1>2 DEF HitsLast, Hits
<1>5. HitsLast(ws, <<"md", 0>>, c)
  BY <1>2 DEF HitsLast, Hits
<1>6. \A q \in Slots : q[1] \notin {"md", "meta", "head"} => Misses(ws, q)
  BY <1>2, SlotParts DEF Misses, Hits
<1> QED
  BY <1>1, <1>3, <1>4, <1>5, <1>6

LEMMA OldPiece ==
    ASSUME NEW v \in Versions, NEW r, NEW f
    PROVE  LET ws == <<PutVersion("rec", v, r, f)>>
           IN  /\ HitsLast(ws, <<"rec", v>>, r)
               /\ \A q \in Slots : q # <<"rec", v>> => Misses(ws, q)
<1>1. PICK ws : ws = <<PutVersion("rec", v, r, f)>>
  OBVIOUS
<1>2. Len(ws) = 1 /\ ws[1].part = "rec" /\ ws[1].ver = v /\ ws[1].val = r
  BY <1>1 DEF PutVersion
<1>3. HitsLast(ws, <<"rec", v>>, r)
  BY <1>2 DEF HitsLast, Hits
<1>5. ASSUME NEW q \in Slots, q # <<"rec", v>> PROVE Misses(ws, q)
  <2>1. ~(q[1] = "rec" /\ q[2] = v)
    BY <1>5, SlotCases
  <2> QED
    BY <2>1, <1>2, SlotParts DEF Misses, Hits
<1> QED
  BY <1>1, <1>3, <1>5

\* A removal of everything, in either order, leaves nothing.
Removes(ws) == \A s : \A q \in Slots : Ends(ws, s, q, SlotOf(NoPackage, q)) /\ HitsLast(ws, q, SlotOf(NoPackage, q))

RemovesAt(ws, pp, bb, mm, hh, rr) ==
    /\ {pp, bb, mm, hh, rr} \subseteq 1..Len(ws)
    /\ ws[pp].part = "package" /\ ws[bb].part = "bodies" /\ ws[rr].part = "records"
    /\ ws[mm].part = "meta" /\ ws[hh].part = "head"
    /\ ws[pp].val = Absent /\ ws[bb].val = Absent /\ ws[rr].val = Absent
    /\ ws[mm].val = NoMeta /\ ws[hh].val = NoHead /\ ws[mm].ver = 0 /\ ws[hh].ver = 0
    /\ \A i \in 1..Len(ws) : i \notin {pp, bb, mm, hh, rr} => ws[i].part \in {"index", "cache"}

LEMMA RemovesBy ==
    ASSUME NEW ws, NEW pp, NEW bb, NEW mm, NEW hh, NEW rr, RemovesAt(ws, pp, bb, mm, hh, rr)
    PROVE  Removes(ws)
<1>1. ASSUME NEW q \in Slots PROVE HitsLast(ws, q, SlotOf(NoPackage, q))
  <2>1. CASE q[1] = "md"
    <3>1. SlotOf(NoPackage, q) = Absent
      BY <2>1, NoPackageTyped DEF SlotOf
    <3>2. pp \in 1..Len(ws) /\ Hits(ws[pp], q) /\ \A j \in 1..Len(ws) : j # pp => ~Hits(ws[j], q)
      BY <2>1 DEF Hits, RemovesAt
    <3>3. \A j \in 1..Len(ws) : j > pp => j # pp
      OBVIOUS
    <3> QED
      BY <3>1, <3>2, <3>3 DEF HitsLast, RemovesAt
  <2>2. CASE q[1] = "meta"
    <3>1. SlotOf(NoPackage, q) = NoMeta /\ q[2] = 0
      BY <2>2, NoPackageTyped DEF SlotOf, Slots
    <3>2. mm \in 1..Len(ws) /\ Hits(ws[mm], q) /\ \A j \in 1..Len(ws) : j # mm => ~Hits(ws[j], q)
      BY <2>2, <3>1 DEF Hits, RemovesAt
    <3>3. \A j \in 1..Len(ws) : j > mm => j # mm
      OBVIOUS
    <3> QED
      BY <3>1, <3>2, <3>3 DEF HitsLast, RemovesAt
  <2>3. CASE q[1] = "head"
    <3>1. SlotOf(NoPackage, q) = NoHead /\ q[2] = 0
      BY <2>3, NoPackageTyped DEF SlotOf, Slots
    <3>2. hh \in 1..Len(ws) /\ Hits(ws[hh], q) /\ \A j \in 1..Len(ws) : j # hh => ~Hits(ws[j], q)
      BY <2>3, <3>1 DEF Hits, RemovesAt
    <3>3. \A j \in 1..Len(ws) : j > hh => j # hh
      OBVIOUS
    <3> QED
      BY <3>1, <3>2, <3>3 DEF HitsLast, RemovesAt
  <2>4. CASE q[1] = "body"
    <3>1. SlotOf(NoPackage, q) = Absent
      BY <2>4, NoPackageTyped DEF SlotOf, Slots
    <3>2. bb \in 1..Len(ws) /\ Hits(ws[bb], q) /\ \A j \in 1..Len(ws) : j # bb => ~Hits(ws[j], q)
      BY <2>4 DEF Hits, RemovesAt
    <3>3. \A j \in 1..Len(ws) : j > bb => j # bb
      OBVIOUS
    <3> QED
      BY <3>1, <3>2, <3>3 DEF HitsLast, RemovesAt
  <2>5. CASE q[1] = "rec"
    <3>1. SlotOf(NoPackage, q) = Absent
      BY <2>5, NoPackageTyped DEF SlotOf, Slots
    <3>2. rr \in 1..Len(ws) /\ Hits(ws[rr], q) /\ \A j \in 1..Len(ws) : j # rr => ~Hits(ws[j], q)
      BY <2>5 DEF Hits, RemovesAt
    <3>3. \A j \in 1..Len(ws) : j > rr => j # rr
      OBVIOUS
    <3> QED
      BY <3>1, <3>2, <3>3 DEF HitsLast, RemovesAt
  <2> QED
    BY <2>1, <2>2, <2>3, <2>4, <2>5, SlotParts
<1> QED
  BY <1>1 DEF Removes, Ends

LEMMA DiscardRemoves == Removes(discard_uncommitted_package)
<1>1. PICK ws : ws = discard_uncommitted_package
  OBVIOUS
<1>2. /\ Len(ws) = 7 /\ ws[1].part = "package" /\ ws[2].part = "bodies" /\ ws[3].part = "index"
      /\ ws[4].part = "meta" /\ ws[5].part = "head" /\ ws[6].part = "records" /\ ws[7].part = "cache"
      /\ ws[4].ver = 0 /\ ws[5].ver = 0 /\ ws[1].val = Absent /\ ws[2].val = Absent /\ ws[6].val = Absent
      /\ ws[4].val = NoMeta /\ ws[5].val = NoHead
  BY <1>1 DEF discard_uncommitted_package, Put
<1>3. \A i \in 1..7 : i \notin {1, 2, 4, 5, 6} => i = 3 \/ i = 7
  OBVIOUS
<1>4. {1, 2, 4, 5, 6} \subseteq 1..7
  OBVIOUS
<1>5. RemovesAt(ws, 1, 2, 4, 5, 6)
  BY <1>2, <1>3, <1>4 DEF RemovesAt
<1>6. Removes(ws)
  BY <1>5, RemovesBy
<1> QED
  BY <1>1, <1>6

LEMMA DeleteRemoves == Removes(delete_skill)
<1>1. PICK ws : ws = delete_skill
  OBVIOUS
<1>2. /\ Len(ws) = 7 /\ ws[1].part = "package" /\ ws[2].part = "bodies" /\ ws[3].part = "index"
      /\ ws[4].part = "meta" /\ ws[5].part = "head" /\ ws[6].part = "records" /\ ws[7].part = "cache"
      /\ ws[4].ver = 0 /\ ws[5].ver = 0 /\ ws[1].val = Absent /\ ws[2].val = Absent /\ ws[6].val = Absent
      /\ ws[4].val = NoMeta /\ ws[5].val = NoHead
  BY <1>1 DEF delete_skill, Put
<1>3. \A i \in 1..7 : i \notin {1, 2, 4, 5, 6} => i = 3 \/ i = 7
  OBVIOUS
<1>4. {1, 2, 4, 5, 6} \subseteq 1..7
  OBVIOUS
<1>5. RemovesAt(ws, 1, 2, 4, 5, 6)
  BY <1>2, <1>3, <1>4 DEF RemovesAt
<1>6. Removes(ws)
  BY <1>5, RemovesBy
<1> QED
  BY <1>1, <1>6

LEMMA ClearRemoves == Removes(clear_all_skills)
<1>1. PICK ws : ws = clear_all_skills
  OBVIOUS
<1>2. /\ Len(ws) = 8 /\ ws[1].part = "package" /\ ws[2].part = "cache" /\ ws[3].part = "bodies"
      /\ ws[4].part = "index" /\ ws[5].part = "meta" /\ ws[6].part = "head" /\ ws[7].part = "records"
      /\ ws[8].part = "cache"
      /\ ws[5].ver = 0 /\ ws[6].ver = 0 /\ ws[1].val = Absent /\ ws[3].val = Absent /\ ws[7].val = Absent
      /\ ws[5].val = NoMeta /\ ws[6].val = NoHead
  BY <1>1 DEF clear_all_skills, Put
<1>3. \A i \in 1..8 : i \notin {1, 3, 5, 6, 7} => i = 2 \/ i = 4 \/ i = 8
  OBVIOUS
<1>4. {1, 3, 5, 6, 7} \subseteq 1..8
  OBVIOUS
<1>5. RemovesAt(ws, 1, 3, 5, 6, 7)
  BY <1>2, <1>3, <1>4 DEF RemovesAt
<1>6. Removes(ws)
  BY <1>5, RemovesBy
<1> QED
  BY <1>1, <1>6

\* z is a followed by b.
Joins(a, b, z) ==
    \A q, x : /\ HitsLast(b, q, x) => HitsLast(z, q, x)
              /\ Misses(b, q) /\ HitsLast(a, q, x) => HitsLast(z, q, x)
              /\ Misses(a, q) /\ Misses(b, q) => Misses(z, q)

LEMMA JoinBoth ==
    ASSUME NEW S, NEW a \in Seq(S), NEW b \in Seq(S)
    PROVE  Joins(a, b, a \o b) /\ a \o b \in Seq(S)
<1>1. ASSUME NEW q, NEW x
      PROVE  /\ HitsLast(b, q, x) => HitsLast(a \o b, q, x)
             /\ Misses(b, q) /\ HitsLast(a, q, x) => HitsLast(a \o b, q, x)
             /\ Misses(a, q) /\ Misses(b, q) => Misses(a \o b, q)
  BY JoinHits, JoinMisses
<1> QED
  BY <1>1 DEF Joins

CreateWrites == {w \in SkillWrites : CreateFits(w)}

LEMMA CreateTyped ==
    ASSUME NEW c \in Bodies, NEW f \in {"discard", "discard_twice"}
    PROVE  /\ <<Put("md", c, f)>> \in Seq(CreateWrites)
           /\ create_version(1, c, f) \in Seq(CreateWrites)
           /\ <<Put("meta", Meta(c, "trusted"), f), Put("head", HeadOf(1, c, "trusted"), f), Put("index", c, f)>>
                 \in Seq(CreateWrites)
           /\ Summary(c, f) \in Seq(CreateWrites)
<1>0. c \in MaybeBody /\ f \in Fails /\ "active" \in RecStates /\ 1 \in Versions
      /\ Meta(c, "trusted") \in SkillMetas /\ HeadOf(1, c, "trusted") \in SkillHeads
  BY SkillFacts, MetaTyped, HeadTyped DEF MaybeBody, Fails, RecStates, Trusts
<1>1. /\ Put("md", c, f) \in SkillWrites /\ Put("index", c, f) \in SkillWrites
      /\ Put("refresh", c, f) \in SkillWrites /\ Put("cache", c, f) \in SkillWrites
      /\ Put("meta", Meta(c, "trusted"), f) \in SkillWrites /\ Put("head", HeadOf(1, c, "trusted"), f) \in SkillWrites
      /\ PutVersion("body", 1, c, f) \in SkillWrites /\ PutVersion("rec", 1, "active", f) \in SkillWrites
  BY <1>0, BodyPuts, MetaPut, HeadPut, BodyVersionPut, RecVersionPut
<1>2. /\ Put("md", c, f) \in CreateWrites /\ Put("index", c, f) \in CreateWrites
      /\ Put("refresh", c, f) \in CreateWrites /\ Put("cache", c, f) \in CreateWrites
      /\ Put("meta", Meta(c, "trusted"), f) \in CreateWrites /\ Put("head", HeadOf(1, c, "trusted"), f) \in CreateWrites
      /\ PutVersion("body", 1, c, f) \in CreateWrites /\ PutVersion("rec", 1, "active", f) \in CreateWrites
  BY <1>1, PutParts DEF CreateWrites, CreateFits
<1> QED
  BY <1>2 DEF create_version, Summary

\* A list that makes version 1 of a package, of trust tr.
FreshWrites(ws, c, tr) ==
    /\ ws \in Seq(CreateWrites)
    /\ HitsLast(ws, <<"md", 0>>, c) /\ HitsLast(ws, <<"meta", 0>>, Meta(c, tr))
    /\ HitsLast(ws, <<"head", 0>>, HeadOf(1, c, tr))
    /\ HitsLast(ws, <<"body", 1>>, c) /\ HitsLast(ws, <<"rec", 1>>, "active")
    /\ \A v \in Versions \ {1} : Misses(ws, <<"body", v>>) /\ Misses(ws, <<"rec", v>>)

LEMMA CreateSlots ==
    ASSUME NEW c \in Bodies, NEW f \in {"discard", "discard_twice"}
    PROVE  FreshWrites(create_skill_unlocked(c, f), c, "trusted")
<1> DEFINE A == <<Put("md", c, f)>>
           B == create_version(1, c, f)
           C == <<Put("meta", Meta(c, "trusted"), f), Put("head", HeadOf(1, c, "trusted"), f), Put("index", c, f)>>
           D == Summary(c, f)
<1>1. A \in Seq(CreateWrites) /\ B \in Seq(CreateWrites) /\ C \in Seq(CreateWrites) /\ D \in Seq(CreateWrites)
  BY CreateTyped
<1>2. create_skill_unlocked(c, f) = ((A \o B) \o C) \o D
  BY DEF create_skill_unlocked
<1>a. /\ HitsLast(A, <<"md", 0>>, c)
      /\ \A q \in Slots : q[1] # "md" => Misses(A, q)
  BY MdPiece
<1>b. /\ HitsLast(B, <<"body", 1>>, c) /\ HitsLast(B, <<"rec", 1>>, "active")
      /\ \A q \in Slots : q # <<"body", 1>> /\ q # <<"rec", 1>> => Misses(B, q)
  BY VersionPiece, SkillFacts
<1>c. /\ HitsLast(C, <<"meta", 0>>, Meta(c, "trusted")) /\ HitsLast(C, <<"head", 0>>, HeadOf(1, c, "trusted"))
      /\ \A q \in Slots : q[1] \notin {"meta", "head"} => Misses(C, q)
  BY RecordsPiece
<1>d. \A q \in Slots : Misses(D, q)
  BY QuietPieces
<1> HIDE DEF A, B, C, D
<1>3. PICK ab : ab = A \o B
  OBVIOUS
<1>4. Joins(A, B, ab) /\ ab \in Seq(CreateWrites)
  BY <1>1, <1>3, JoinBoth
<1>5. PICK abc : abc = ab \o C
  OBVIOUS
<1>6. Joins(ab, C, abc) /\ abc \in Seq(CreateWrites)
  BY <1>1, <1>4, <1>5, JoinBoth
<1>7. PICK ws : ws = abc \o D
  OBVIOUS
<1>8. Joins(abc, D, ws) /\ ws \in Seq(CreateWrites)
  BY <1>1, <1>6, <1>7, JoinBoth
<1>9. ws = create_skill_unlocked(c, f)
  BY <1>2, <1>3, <1>5, <1>7
<1>s. /\ <<"md", 0>> \in Slots /\ <<"meta", 0>> \in Slots /\ <<"head", 0>> \in Slots
      /\ <<"body", 1>> \in Slots /\ <<"rec", 1>> \in Slots
  BY SkillFacts DEF Slots
<1>10. HitsLast(ws, <<"md", 0>>, c)
  <2>1. Misses(B, <<"md", 0>>) /\ Misses(C, <<"md", 0>>) /\ Misses(D, <<"md", 0>>)
    BY <1>b, <1>c, <1>d, <1>s
  <2> QED
    BY <2>1, <1>a, <1>4, <1>6, <1>8 DEF Joins
<1>11. HitsLast(ws, <<"meta", 0>>, Meta(c, "trusted")) /\ HitsLast(ws, <<"head", 0>>, HeadOf(1, c, "trusted"))
  <2>1. Misses(D, <<"meta", 0>>) /\ Misses(D, <<"head", 0>>)
    BY <1>d, <1>s
  <2> QED
    BY <2>1, <1>c, <1>6, <1>8 DEF Joins
<1>12. HitsLast(ws, <<"body", 1>>, c) /\ HitsLast(ws, <<"rec", 1>>, "active")
  <2>1. /\ Misses(C, <<"body", 1>>) /\ Misses(C, <<"rec", 1>>)
        /\ Misses(D, <<"body", 1>>) /\ Misses(D, <<"rec", 1>>)
    BY <1>c, <1>d, <1>s
  <2> QED
    BY <2>1, <1>b, <1>4, <1>6, <1>8 DEF Joins
<1>13. ASSUME NEW v \in Versions, v # 1 PROVE Misses(ws, <<"body", v>>) /\ Misses(ws, <<"rec", v>>)
  <2>0. <<"body", v>> \in Slots /\ <<"rec", v>> \in Slots
    BY DEF Slots
  <2>1. Misses(A, <<"body", v>>) /\ Misses(A, <<"rec", v>>)
    BY <2>0, <1>a
  <2>2. Misses(B, <<"body", v>>) /\ Misses(B, <<"rec", v>>)
    BY <2>0, <1>b, <1>13
  <2>3. Misses(C, <<"body", v>>) /\ Misses(C, <<"rec", v>>)
    BY <2>0, <1>c
  <2>4. Misses(D, <<"body", v>>) /\ Misses(D, <<"rec", v>>)
    BY <2>0, <1>d
  <2> QED
    BY <2>1, <2>2, <2>3, <2>4, <1>4, <1>6, <1>8 DEF Joins
<1> QED
  BY <1>8, <1>9, <1>10, <1>11, <1>12, <1>13 DEF FreshWrites

\* A creation, whatever its trust.
Fresh(c, tr) ==
    [md |-> c, res |-> FALSE, index |-> c, meta |-> Meta(c, tr), head |-> HeadOf(1, c, tr),
     body |-> [v \in Versions |-> IF v = 1 THEN c ELSE Absent],
     rec |-> [v \in Versions |-> IF v = 1 THEN "active" ELSE Absent]]

LEMMA FreshFits ==
    ASSUME NEW c \in Bodies, NEW tr \in Trusts
    PROVE  Fresh(c, tr) \in Packages /\ InOrderSkill(Fresh(c, tr))
<1>0. c \in MaybeBody /\ Absent \in MaybeBody /\ c # Absent /\ 1 \in Versions /\ Versions \subseteq Nat
      /\ Meta(c, tr) \in SkillMetas /\ HeadOf(1, c, tr) \in SkillHeads /\ HeadOf(1, c, tr).of = c
      /\ HeadOf(1, c, tr).trust = tr /\ HeadOf(1, c, tr).active = 1
  BY SkillFacts, MetaTyped, HeadTyped DEF MaybeBody
<1>1. PICK z : z = Fresh(c, tr)
  OBVIOUS
<1>2. /\ z.md = c /\ z.meta = Meta(c, tr) /\ z.head = HeadOf(1, c, tr)
      /\ z.body = [v \in Versions |-> IF v = 1 THEN c ELSE Absent]
      /\ z.rec = [v \in Versions |-> IF v = 1 THEN "active" ELSE Absent]
  BY <1>1 DEF Fresh
<1>3. /\ [v \in Versions |-> IF v = 1 THEN c ELSE Absent] \in [Versions -> MaybeBody]
      /\ [v \in Versions |-> IF v = 1 THEN "active" ELSE Absent] \in [Versions -> RecStates]
  BY <1>0 DEF RecStates
<1>4. z \in Packages
  BY <1>0, <1>1, <1>3 DEF Fresh, Packages
<1>5. \A v \in Versions : (z.rec[v] = "active" <=> v = 1) /\ (v > 1 => z.rec[v] = Absent)
  BY <1>2, <1>0 DEF Absent
<1>6. z.body[1] = c
  BY <1>0, <1>2
<1>7. InOrderSkill(z)
  BY <1>0, <1>2, <1>5, <1>6 DEF InOrderSkill
<1> QED
  BY <1>1, <1>4, <1>7

LEMMA FreshSlots ==
    ASSUME NEW c, NEW tr
    PROVE  LET z == Fresh(c, tr) IN
           /\ SlotOf(z, <<"md", 0>>) = c /\ SlotOf(z, <<"meta", 0>>) = Meta(c, tr)
           /\ SlotOf(z, <<"head", 0>>) = HeadOf(1, c, tr)
           /\ SlotOf(z, <<"body", 1>>) = c /\ SlotOf(z, <<"rec", 1>>) = "active"
<1>1. PICK z : z = Fresh(c, tr)
  OBVIOUS
<1>2. /\ z.md = c /\ z.meta = Meta(c, tr) /\ z.head = HeadOf(1, c, tr)
      /\ z.body = [v \in Versions |-> IF v = 1 THEN c ELSE Absent]
      /\ z.rec = [v \in Versions |-> IF v = 1 THEN "active" ELSE Absent]
  BY <1>1 DEF Fresh
<1>3. 1 \in Versions
  BY SkillFacts
<1>4. /\ SlotOf(z, <<"md", 0>>) = c /\ SlotOf(z, <<"meta", 0>>) = Meta(c, tr)
      /\ SlotOf(z, <<"head", 0>>) = HeadOf(1, c, tr)
  BY <1>2, SlotValues
<1>5. SlotOf(z, <<"body", 1>>) = c /\ SlotOf(z, <<"rec", 1>>) = "active"
  BY <1>2, <1>3, SlotValues
<1> QED
  BY <1>1, <1>4, <1>5

LEMMA CreatedIsFresh ==
    ASSUME NEW c
    PROVE  Created(c) = Fresh(c, "trusted")
<1>1. NoPackage.body = [v \in Versions |-> Absent] /\ NoPackage.rec = [v \in Versions |-> Absent]
  BY DEF NoPackage
<1>2. [NoPackage.body EXCEPT ![1] = c] = [v \in Versions |-> IF v = 1 THEN c ELSE Absent]
  BY <1>1
<1>3. [NoPackage.rec EXCEPT ![1] = "active"] = [v \in Versions |-> IF v = 1 THEN "active" ELSE Absent]
  BY <1>1
<1> QED
  BY <1>2, <1>3 DEF Created, Fresh

LEMMA ImportSlots ==
    ASSUME NEW c \in Bodies
    PROVE  FreshWrites(import_package_unlocked(c), c, "trusted")
<1> DEFINE A == <<Put("package", Absent, "stop"), Put("res", TRUE, "discard"), Put("check", Absent, "discard")>>
           B == create_skill_unlocked(c, "discard_twice")
<1>1. A \in Seq(CreateWrites)
  <2>1. /\ Put("package", Absent, "stop") \in SkillWrites /\ Put("res", TRUE, "discard") \in SkillWrites
        /\ Put("check", Absent, "discard") \in SkillWrites
    BY OtherPuts, ResPut DEF Fails
  <2>2. /\ Put("package", Absent, "stop").fail = "stop" /\ Put("res", TRUE, "discard").fail = "discard"
        /\ Put("check", Absent, "discard").fail = "discard"
    BY DEF Put
  <2>3. /\ Put("package", Absent, "stop") \in CreateWrites /\ Put("res", TRUE, "discard") \in CreateWrites
        /\ Put("check", Absent, "discard") \in CreateWrites
    BY <2>1, <2>2 DEF CreateWrites, CreateFits
  <2>4. PICK w2 : w2 = Put("res", TRUE, "discard")
    OBVIOUS
  <2>5. w2 \in CreateWrites
    BY <2>3, <2>4, Zenon
  <2>6. <<Put("package", Absent, "stop"), w2, Put("check", Absent, "discard")>> \in Seq(CreateWrites)
    BY <2>3, <2>5
  <2> QED
    BY <2>4, <2>6, Zenon
<1>2. FreshWrites(B, c, "trusted")
  BY CreateSlots
<1>3. import_package_unlocked(c) = A \o B
  BY DEF import_package_unlocked
<1>4. \A q \in Slots : q[1] # "md" => Misses(A, q)
  BY ImportPiece
<1> HIDE DEF A, B
<1>5. PICK ws : ws = A \o B
  OBVIOUS
<1>6. B \in Seq(CreateWrites)
  BY <1>2 DEF FreshWrites
<1>7. Joins(A, B, ws) /\ ws \in Seq(CreateWrites)
  BY <1>1, <1>5, <1>6, JoinBoth
<1>8. /\ HitsLast(ws, <<"md", 0>>, c) /\ HitsLast(ws, <<"meta", 0>>, Meta(c, "trusted"))
      /\ HitsLast(ws, <<"head", 0>>, HeadOf(1, c, "trusted"))
      /\ HitsLast(ws, <<"body", 1>>, c) /\ HitsLast(ws, <<"rec", 1>>, "active")
  BY <1>2, <1>7 DEF Joins, FreshWrites
<1>9. ASSUME NEW v \in Versions \ {1} PROVE Misses(ws, <<"body", v>>) /\ Misses(ws, <<"rec", v>>)
  <2>1. <<"body", v>> \in Slots /\ <<"rec", v>> \in Slots
    BY DEF Slots
  <2>2. Misses(A, <<"body", v>>) /\ Misses(A, <<"rec", v>>)
    BY <2>1, <1>4
  <2>3. Misses(B, <<"body", v>>) /\ Misses(B, <<"rec", v>>)
    BY <1>2 DEF FreshWrites
  <2> QED
    BY <2>2, <2>3, <1>7 DEF Joins
<1> QED
  BY <1>3, <1>5, <1>7, <1>8, <1>9 DEF FreshWrites

LEMMA InstallSlots ==
    ASSUME NEW c \in Bodies
    PROVE  FreshWrites(import_package_unlocked(c) \o Promotion(c), c, "system")
<1> DEFINE A == import_package_unlocked(c)
           B == Promotion(c)
<1>1. FreshWrites(A, c, "trusted")
  BY ImportSlots
<1>2. B \in Seq(CreateWrites)
  <2>1. Meta(c, "system") \in SkillMetas /\ HeadOf(1, c, "system") \in SkillHeads
    BY SkillFacts, MetaTyped, HeadTyped DEF MaybeBody, Trusts
  <2>2. Put("meta", Meta(c, "system"), "discard") \in SkillWrites /\ Put("head", HeadOf(1, c, "system"), "discard") \in SkillWrites
    BY <2>1, MetaPut, HeadPut DEF Fails
  <2>3. Put("meta", Meta(c, "system"), "discard").fail = "discard" /\ Put("head", HeadOf(1, c, "system"), "discard").fail = "discard"
    BY DEF Put
  <2>4. Put("meta", Meta(c, "system"), "discard") \in CreateWrites /\ Put("head", HeadOf(1, c, "system"), "discard") \in CreateWrites
    BY <2>2, <2>3 DEF CreateWrites, CreateFits
  <2> QED
    BY <2>4 DEF Promotion
<1>3. /\ HitsLast(B, <<"meta", 0>>, Meta(c, "system"))
      /\ HitsLast(B, <<"head", 0>>, HeadOf(1, c, "system"))
      /\ \A q \in Slots : q[1] \notin {"meta", "head"} => Misses(B, q)
  BY PromotionPiece
<1> HIDE DEF A, B
<1>5. PICK ws : ws = A \o B
  OBVIOUS
<1>6. A \in Seq(CreateWrites)
  BY <1>1 DEF FreshWrites
<1>7. Joins(A, B, ws) /\ ws \in Seq(CreateWrites)
  BY <1>2, <1>5, <1>6, JoinBoth
<1>8. /\ HitsLast(ws, <<"meta", 0>>, Meta(c, "system"))
      /\ HitsLast(ws, <<"head", 0>>, HeadOf(1, c, "system"))
  BY <1>3, <1>7 DEF Joins
<1>9. HitsLast(ws, <<"md", 0>>, c) /\ HitsLast(ws, <<"body", 1>>, c) /\ HitsLast(ws, <<"rec", 1>>, "active")
  <2>1. <<"md", 0>> \in Slots /\ <<"body", 1>> \in Slots /\ <<"rec", 1>> \in Slots
    BY SkillFacts DEF Slots
  <2>2. Misses(B, <<"md", 0>>) /\ Misses(B, <<"body", 1>>) /\ Misses(B, <<"rec", 1>>)
    BY <2>1, <1>3
  <2> QED
    BY <2>2, <1>1, <1>7 DEF Joins, FreshWrites
<1>10. ASSUME NEW v \in Versions \ {1} PROVE Misses(ws, <<"body", v>>) /\ Misses(ws, <<"rec", v>>)
  <2>1. <<"body", v>> \in Slots /\ <<"rec", v>> \in Slots
    BY DEF Slots
  <2>2. Misses(B, <<"body", v>>) /\ Misses(B, <<"rec", v>>)
    BY <2>1, <1>3
  <2>3. Misses(A, <<"body", v>>) /\ Misses(A, <<"rec", v>>)
    BY <1>1 DEF FreshWrites
  <2> QED
    BY <2>2, <2>3, <1>7 DEF Joins
<1>11. FreshWrites(ws, c, "system")
  BY <1>7, <1>8, <1>9, <1>10 DEF FreshWrites
<1> QED
  BY <1>5, <1>11 DEF A, B

\* Nothing is left of an earlier package's versions.
Bare(s) == \A v \in Versions : s.body[v] = Absent /\ s.rec[v] = Absent

LEMMA FreshEnds ==
    ASSUME NEW c, NEW tr, NEW ws, FreshWrites(ws, c, tr), NEW s, Bare(s)
    PROVE  EndsAs(ws, s, Fresh(c, tr))
<1>1. PICK g : g = Fresh(c, tr)
  OBVIOUS
<1>2. /\ SlotOf(g, <<"md", 0>>) = c /\ SlotOf(g, <<"meta", 0>>) = Meta(c, tr)
      /\ SlotOf(g, <<"head", 0>>) = HeadOf(1, c, tr)
      /\ SlotOf(g, <<"body", 1>>) = c /\ SlotOf(g, <<"rec", 1>>) = "active"
  BY <1>1, FreshSlots
<1>3. \A v \in Versions \ {1} : SlotOf(g, <<"body", v>>) = Absent /\ SlotOf(g, <<"rec", v>>) = Absent
  <2>1. /\ g.body = [v \in Versions |-> IF v = 1 THEN c ELSE Absent]
        /\ g.rec = [v \in Versions |-> IF v = 1 THEN "active" ELSE Absent]
    BY <1>1 DEF Fresh
  <2> QED
    BY <2>1 DEF SlotOf
<1>4. ASSUME NEW q \in Slots PROVE Ends(ws, s, q, SlotOf(g, q))
  <2>1. CASE q = <<"md", 0>>
    BY <2>1, <1>2 DEF FreshWrites, Ends
  <2>2. CASE q = <<"meta", 0>>
    BY <2>2, <1>2 DEF FreshWrites, Ends
  <2>3. CASE q = <<"head", 0>>
    BY <2>3, <1>2 DEF FreshWrites, Ends
  <2>4. CASE \E v \in Versions : q = <<"body", v>>
    <3>1. PICK v \in Versions : q = <<"body", v>>
      BY <2>4
    <3>2. CASE v = 1
      BY <3>1, <3>2, <1>2 DEF FreshWrites, Ends
    <3>3. CASE v # 1
      <4>1. Misses(ws, q) /\ SlotOf(g, q) = Absent
        BY <3>1, <3>3, <1>3 DEF FreshWrites
      <4>2. SlotOf(s, q) = Absent
        BY <3>1 DEF Bare, SlotOf
      <4> QED
        BY <4>1, <4>2 DEF Ends
    <3> QED
      BY <3>2, <3>3
  <2>5. CASE \E v \in Versions : q = <<"rec", v>>
    <3>1. PICK v \in Versions : q = <<"rec", v>>
      BY <2>5
    <3>2. CASE v = 1
      BY <3>1, <3>2, <1>2 DEF FreshWrites, Ends
    <3>3. CASE v # 1
      <4>1. Misses(ws, q) /\ SlotOf(g, q) = Absent
        BY <3>1, <3>3, <1>3 DEF FreshWrites
      <4>2. SlotOf(s, q) = Absent
        BY <3>1 DEF Bare, SlotOf
      <4> QED
        BY <4>1, <4>2 DEF Ends
    <3> QED
      BY <3>2, <3>3
  <2> QED
    BY <2>1, <2>2, <2>3, <2>4, <2>5, SlotCases
<1> QED
  BY <1>1, <1>4 DEF EndsAs

LEMMA HitsSome ==
    ASSUME NEW ws, NEW q, NEW x, HitsLast(ws, q, x)
    PROVE  ws # <<>>
<1>1. Len(<<>>) = 0 /\ \A i \in 1..0 : FALSE
  OBVIOUS
<1> QED
  BY <1>1 DEF HitsLast

UpdateWrites(b) == {w \in SkillWrites : UpdateFits(w, b)}

\* A list that adds the version after the active one.
UpdateLists(ws, c, b) ==
    LET old == b.head.active
        next == b.head.active + 1
    IN  /\ ws \in Seq(UpdateWrites(b))
        /\ HitsLast(ws, <<"md", 0>>, c) /\ HitsLast(ws, <<"meta", 0>>, Meta(c, b.head.trust))
        /\ HitsLast(ws, <<"head", 0>>, HeadOf(next, c, b.head.trust))
        /\ HitsLast(ws, <<"body", next>>, c) /\ HitsLast(ws, <<"rec", next>>, "active")
        /\ b.rec[old] # Absent => HitsLast(ws, <<"rec", old>>, "deprecated")
        /\ \A v \in Versions : v # next => Misses(ws, <<"body", v>>)
        /\ \A v \in Versions : v # next /\ v # old => Misses(ws, <<"rec", v>>)

LEMMA UpdateTyped ==
    ASSUME NEW b \in Packages, NEW c \in Bodies, NEW old \in Versions, NEW next \in Versions,
           old = b.head.active, next = b.head.active + 1, NEW m, m = Meta(c, b.head.trust),
           NEW h, h = HeadOf(next, c, b.head.trust)
    PROVE  /\ RegisteredIndex(b.md) \in Seq(UpdateWrites(b))
           /\ create_version(next, c, "restore") \in Seq(UpdateWrites(b))
           /\ <<PutVersion("rec", old, "deprecated", "restore")>> \in Seq(UpdateWrites(b))
           /\ <<Put("md", c, "restore"), Put("index", c, "restore"), Put("cache", c, "restore"),
                Put("meta", m, "restore"), Put("head", h, "restore")>> \in Seq(UpdateWrites(b))
           /\ Summary(c, "restore") \in Seq(UpdateWrites(b))
<1>0. /\ c \in MaybeBody /\ c # Absent /\ b.md \in MaybeBody /\ "restore" \in Fails /\ "ignore" \in Fails
      /\ "active" \in RecStates /\ "deprecated" \in RecStates /\ b.head.trust \in Trusts
  BY SkillFacts, PkgParts, HeadParts DEF MaybeBody, Fails, RecStates
<1>1. m \in SkillMetas /\ h \in SkillHeads /\ m.trust = b.head.trust /\ h.trust = b.head.trust
  BY <1>0, MetaTyped, HeadTyped
<1>2. /\ Put("md", c, "restore") \in SkillWrites /\ Put("index", c, "restore") \in SkillWrites
      /\ Put("refresh", c, "restore") \in SkillWrites /\ Put("cache", c, "restore") \in SkillWrites
      /\ Put("index", b.md, "ignore") \in SkillWrites /\ Put("cache", b.md, "ignore") \in SkillWrites
  BY <1>0, BodyPuts
<1>3. /\ Put("meta", m, "restore") \in SkillWrites /\ Put("head", h, "restore") \in SkillWrites
      /\ PutVersion("body", next, c, "restore") \in SkillWrites
      /\ PutVersion("rec", next, "active", "restore") \in SkillWrites
      /\ PutVersion("rec", old, "deprecated", "restore") \in SkillWrites
  BY <1>0, <1>1, MetaPut, HeadPut, BodyVersionPut, RecVersionPut
<1>4. /\ Put("md", c, "restore") \in UpdateWrites(b) /\ Put("index", c, "restore") \in UpdateWrites(b)
      /\ Put("refresh", c, "restore") \in UpdateWrites(b) /\ Put("cache", c, "restore") \in UpdateWrites(b)
  BY <1>0, <1>2, PutParts DEF UpdateWrites, UpdateFits, InVersions, Wholes
<1>5. /\ Put("index", b.md, "ignore") \in UpdateWrites(b) /\ Put("cache", b.md, "ignore") \in UpdateWrites(b)
  BY <1>0, <1>2, PutParts DEF UpdateWrites, UpdateFits, InVersions, Wholes
<1>6. /\ Put("meta", m, "restore") \in UpdateWrites(b) /\ Put("head", h, "restore") \in UpdateWrites(b)
  BY <1>1, <1>3, PutParts DEF UpdateWrites, UpdateFits, InVersions, Wholes
<1>7. /\ PutVersion("body", next, c, "restore") \in UpdateWrites(b)
      /\ PutVersion("rec", next, "active", "restore") \in UpdateWrites(b)
      /\ PutVersion("rec", old, "deprecated", "restore") \in UpdateWrites(b)
  BY <1>3, PutParts DEF UpdateWrites, UpdateFits, InVersions, Wholes
<1> QED
  BY <1>4, <1>5, <1>6, <1>7 DEF RegisteredIndex, create_version, Summary

\* Touches only what an update is about.
LEMMA UpdateSlots ==
    ASSUME NEW b, b = pkg, b \in Packages, NEW c \in Bodies, b.head.active \in Versions, b.head.active + 1 \in Versions
    PROVE  UpdateLists(update_skill_locked(c), c, b)
<1>0. PICK old \in Versions, next \in Versions : old = b.head.active /\ next = b.head.active + 1
  OBVIOUS
<1>m. PICK m, h : m = Meta(c, b.head.trust) /\ h = HeadOf(next, c, b.head.trust)
  OBVIOUS
<1>w. PICK W : W = UpdateWrites(b)
  OBVIOUS
<1> DEFINE A == RegisteredIndex(b.md)
           B == create_version(next, c, "restore")
           O == <<PutVersion("rec", old, "deprecated", "restore")>>
           C == IF b.rec[old] = Absent THEN <<>> ELSE O
           D == <<Put("md", c, "restore"), Put("index", c, "restore"), Put("cache", c, "restore"),
                  Put("meta", m, "restore"), Put("head", h, "restore")>>
           E == Summary(c, "restore")
<1>1. A \in Seq(W) /\ B \in Seq(W) /\ O \in Seq(W) /\ D \in Seq(W) /\ E \in Seq(W)
  BY UpdateTyped, <1>0, <1>m, <1>w
<1>2. update_skill_locked(c) = (((A \o B) \o C) \o D) \o E
  BY <1>0, <1>m DEF update_skill_locked
<1>a. \A q \in Slots : Misses(A, q)
  BY QuietPieces
<1>b. /\ HitsLast(B, <<"body", next>>, c) /\ HitsLast(B, <<"rec", next>>, "active")
      /\ \A q \in Slots : q # <<"body", next>> /\ q # <<"rec", next>> => Misses(B, q)
  BY VersionPiece
<1>o. /\ HitsLast(O, <<"rec", old>>, "deprecated")
      /\ \A q \in Slots : q # <<"rec", old>> => Misses(O, q)
  BY OldPiece
<1>d. /\ HitsLast(D, <<"md", 0>>, c) /\ HitsLast(D, <<"meta", 0>>, m) /\ HitsLast(D, <<"head", 0>>, h)
      /\ \A q \in Slots : q[1] \notin {"md", "meta", "head"} => Misses(D, q)
  BY UpdatePiece
<1>e. \A q \in Slots : Misses(E, q)
  BY QuietPieces
<1> HIDE DEF A, B, D, E, O
<1>n. Misses(<<>>, <<"rec", old>>) /\ \A q \in Slots : Misses(<<>>, q)
  <2>1. Len(<<>>) = 0 /\ \A i \in 1..0 : FALSE
    OBVIOUS
  <2> QED
    BY <2>1 DEF Misses
<1>c. /\ C \in Seq(W) /\ (b.rec[old] # Absent => HitsLast(C, <<"rec", old>>, "deprecated"))
      /\ \A q \in Slots : q # <<"rec", old>> => Misses(C, q)
  <2>1. <<>> \in Seq(W)
    OBVIOUS
  <2> QED
    BY <2>1, <1>1, <1>o, <1>n DEF C
<1> HIDE DEF C
<1>3. PICK ab : ab = A \o B
  OBVIOUS
<1>4. Joins(A, B, ab) /\ ab \in Seq(W)
  BY <1>1, <1>3, JoinBoth
<1>5. PICK abc : abc = ab \o C
  OBVIOUS
<1>6. Joins(ab, C, abc) /\ abc \in Seq(W)
  BY <1>c, <1>4, <1>5, JoinBoth
<1>7. PICK abcd : abcd = abc \o D
  OBVIOUS
<1>8. Joins(abc, D, abcd) /\ abcd \in Seq(W)
  BY <1>1, <1>6, <1>7, JoinBoth
<1>9. PICK ws : ws = abcd \o E
  OBVIOUS
<1>10. Joins(abcd, E, ws) /\ ws \in Seq(W)
  BY <1>1, <1>8, <1>9, JoinBoth
<1>11. ws = update_skill_locked(c)
  BY <1>2, <1>3, <1>5, <1>7, <1>9
<1>12. HitsLast(ws, <<"md", 0>>, c) /\ HitsLast(ws, <<"meta", 0>>, m) /\ HitsLast(ws, <<"head", 0>>, h)
  <2>1. <<"md", 0>> \in Slots /\ <<"meta", 0>> \in Slots /\ <<"head", 0>> \in Slots
    BY DEF Slots
  <2>2. Misses(E, <<"md", 0>>) /\ Misses(E, <<"meta", 0>>) /\ Misses(E, <<"head", 0>>)
    BY <2>1, <1>e
  <2> QED
    BY <2>2, <1>d, <1>8, <1>10 DEF Joins
<1>v. old # next /\ old \in Nat /\ next \in Nat
  BY <1>0, SkillFacts
<1>13. HitsLast(ws, <<"body", next>>, c) /\ HitsLast(ws, <<"rec", next>>, "active")
  <2>1. <<"body", next>> \in Slots /\ <<"rec", next>> \in Slots
    BY DEF Slots
  <2>2. Misses(C, <<"body", next>>) /\ Misses(C, <<"rec", next>>)
    BY <2>1, <1>c, <1>v
  <2>3. Misses(D, <<"body", next>>) /\ Misses(D, <<"rec", next>>)
    BY <2>1, <1>d
  <2>4. Misses(E, <<"body", next>>) /\ Misses(E, <<"rec", next>>)
    BY <2>1, <1>e
  <2> QED
    BY <2>2, <2>3, <2>4, <1>b, <1>4, <1>6, <1>8, <1>10 DEF Joins
<1>14. b.rec[old] # Absent => HitsLast(ws, <<"rec", old>>, "deprecated")
  <2>1. <<"rec", old>> \in Slots
    BY DEF Slots
  <2>2. Misses(D, <<"rec", old>>) /\ Misses(E, <<"rec", old>>)
    BY <2>1, <1>d, <1>e
  <2> QED
    BY <2>2, <1>c, <1>6, <1>8, <1>10 DEF Joins
<1>15. ASSUME NEW v \in Versions, v # next PROVE Misses(ws, <<"body", v>>)
  <2>1. <<"body", v>> \in Slots
    BY DEF Slots
  <2>2. Misses(A, <<"body", v>>) /\ Misses(B, <<"body", v>>) /\ Misses(C, <<"body", v>>)
    BY <2>1, <1>a, <1>b, <1>c, <1>15
  <2>3. Misses(D, <<"body", v>>) /\ Misses(E, <<"body", v>>)
    BY <2>1, <1>d, <1>e
  <2> QED
    BY <2>2, <2>3, <1>4, <1>6, <1>8, <1>10 DEF Joins
<1>16. ASSUME NEW v \in Versions, v # next, v # old PROVE Misses(ws, <<"rec", v>>)
  <2>1. <<"rec", v>> \in Slots
    BY DEF Slots
  <2>2. Misses(A, <<"rec", v>>) /\ Misses(B, <<"rec", v>>) /\ Misses(C, <<"rec", v>>)
    BY <2>1, <1>a, <1>b, <1>c, <1>16
  <2>3. Misses(D, <<"rec", v>>) /\ Misses(E, <<"rec", v>>)
    BY <2>1, <1>d, <1>e
  <2> QED
    BY <2>2, <2>3, <1>4, <1>6, <1>8, <1>10 DEF Joins
<1>17. UpdateLists(ws, c, b)
  BY <1>0, <1>m, <1>w, <1>10, <1>12, <1>13, <1>14, <1>15, <1>16 DEF UpdateLists
<1> QED
  BY <1>11, <1>17

LEMMA RollbackSlots ==
    ASSUME NEW b, b = pkg, b \in Packages, NEW c \in Bodies, b.head.active \in Versions, b.head.active + 1 \in Versions
    PROVE  UpdateLists(RegisteredIndex(b.md) \o update_skill_locked(c), c, b)
<1> DEFINE A == RegisteredIndex(b.md)
<1>1. PICK u : u = update_skill_locked(c)
  OBVIOUS
<1>2. UpdateLists(u, c, b)
  BY <1>1, UpdateSlots
<1>3. A \in Seq(UpdateWrites(b))
  <2>1. PICK old \in Versions, next \in Versions : old = b.head.active /\ next = b.head.active + 1
    OBVIOUS
  <2> QED
    BY <2>1, UpdateTyped
<1>4. \A q \in Slots : Misses(A, q)
  BY QuietPieces
<1> HIDE DEF A
<1>5. PICK ws : ws = A \o u
  OBVIOUS
<1>6. u \in Seq(UpdateWrites(b))
  BY <1>2 DEF UpdateLists
<1>7. Joins(A, u, ws) /\ ws \in Seq(UpdateWrites(b))
  BY <1>3, <1>5, <1>6, JoinBoth
<1>8. PICK old, next : old = b.head.active /\ next = b.head.active + 1
  OBVIOUS
<1>9. /\ HitsLast(ws, <<"md", 0>>, c) /\ HitsLast(ws, <<"meta", 0>>, Meta(c, b.head.trust))
      /\ HitsLast(ws, <<"head", 0>>, HeadOf(next, c, b.head.trust))
      /\ HitsLast(ws, <<"body", next>>, c) /\ HitsLast(ws, <<"rec", next>>, "active")
      /\ b.rec[old] # Absent => HitsLast(ws, <<"rec", old>>, "deprecated")
  BY <1>2, <1>7, <1>8 DEF UpdateLists, Joins
<1>10. ASSUME NEW v \in Versions PROVE v # next => Misses(ws, <<"body", v>>)
  <2>1. Misses(A, <<"body", v>>)
    BY <1>4 DEF Slots
  <2>2. v # next => Misses(u, <<"body", v>>)
    BY <1>2, <1>8 DEF UpdateLists
  <2> QED
    BY <2>1, <2>2, <1>7 DEF Joins
<1>11. ASSUME NEW v \in Versions PROVE v # next /\ v # old => Misses(ws, <<"rec", v>>)
  <2>1. Misses(A, <<"rec", v>>)
    BY <1>4 DEF Slots
  <2>2. v # next /\ v # old => Misses(u, <<"rec", v>>)
    BY <1>2, <1>8 DEF UpdateLists
  <2> QED
    BY <2>1, <2>2, <1>7 DEF Joins
<1>12. UpdateLists(ws, c, b)
  BY <1>7, <1>8, <1>9, <1>10, <1>11 DEF UpdateLists
<1> QED
  BY <1>1, <1>5, <1>12 DEF A

Updated(b, c) ==
    [md |-> c, res |-> FALSE, index |-> c, meta |-> Meta(c, b.head.trust),
     head |-> HeadOf(b.head.active + 1, c, b.head.trust),
     body |-> [v \in Versions |-> IF v = b.head.active + 1 THEN c ELSE b.body[v]],
     rec |-> [v \in Versions |-> IF v = b.head.active + 1 THEN "active"
                                 ELSE IF v = b.head.active THEN "deprecated" ELSE b.rec[v]]]

LEMMA UpdatedParts ==
    ASSUME NEW b \in Packages, NEW c \in Bodies, NEW old \in Versions, NEW next \in Versions,
           old = b.head.active, next = b.head.active + 1
    PROVE  LET z == Updated(b, c) IN
           /\ z.md = c /\ z.meta = Meta(c, b.head.trust) /\ z.head = HeadOf(next, c, b.head.trust)
           /\ z.body = [v \in Versions |-> IF v = next THEN c ELSE b.body[v]]
           /\ z.rec = [v \in Versions |-> IF v = next THEN "active" ELSE IF v = old THEN "deprecated" ELSE b.rec[v]]
           /\ z \in Packages
<1>0. /\ c \in MaybeBody /\ b.head.trust \in Trusts /\ b.body \in [Versions -> MaybeBody]
      /\ b.rec \in [Versions -> RecStates]
  BY PkgParts, HeadParts DEF MaybeBody
<1>1. Meta(c, b.head.trust) \in SkillMetas /\ HeadOf(next, c, b.head.trust) \in SkillHeads
  BY <1>0, MetaTyped, HeadTyped
<1>2. PICK z : z = Updated(b, c)
  OBVIOUS
<1>3. /\ z.md = c /\ z.meta = Meta(c, b.head.trust) /\ z.head = HeadOf(next, c, b.head.trust)
      /\ z.body = [v \in Versions |-> IF v = next THEN c ELSE b.body[v]]
      /\ z.rec = [v \in Versions |-> IF v = next THEN "active" ELSE IF v = old THEN "deprecated" ELSE b.rec[v]]
      /\ z.res = FALSE /\ z.index = c
      /\ z = [md |-> z.md, res |-> z.res, index |-> z.index, meta |-> z.meta, head |-> z.head,
              body |-> z.body, rec |-> z.rec]
  BY <1>2 DEF Updated
<1>4. z.body \in [Versions -> MaybeBody]
  BY <1>0, <1>3
<1>5. z.rec \in [Versions -> RecStates]
  BY <1>0, <1>3 DEF RecStates
<1>6. z \in Packages
  BY <1>0, <1>1, <1>3, <1>4, <1>5 DEF Packages
<1> QED
  BY <1>2, <1>3, <1>6

LEMMA UpdatedFits ==
    ASSUME NEW b \in Packages, NEW c \in Bodies, b.head.active \in Versions, b.head.active + 1 \in Versions,
           b.md # Absent, InOrderSkill(b)
    PROVE  Updated(b, c) \in Packages /\ InOrderSkill(Updated(b, c)) /\ b.rec[b.head.active] = "active"
<1>0. PICK old \in Versions, next \in Versions : old = b.head.active /\ next = b.head.active + 1
  OBVIOUS
<1>1. PICK z : z = Updated(b, c)
  OBVIOUS
<1>2. /\ z.md = c /\ z.meta = Meta(c, b.head.trust) /\ z.head = HeadOf(next, c, b.head.trust)
      /\ z.body = [v \in Versions |-> IF v = next THEN c ELSE b.body[v]]
      /\ z.rec = [v \in Versions |-> IF v = next THEN "active" ELSE IF v = old THEN "deprecated" ELSE b.rec[v]]
      /\ z \in Packages
  BY <1>0, <1>1, UpdatedParts
<1>3. /\ c \in MaybeBody /\ c # Absent /\ b.head.trust \in Trusts /\ Versions \subseteq Nat
  BY PkgParts, HeadParts, SkillFacts DEF MaybeBody
<1>4. /\ HeadOf(next, c, b.head.trust).of = c /\ HeadOf(next, c, b.head.trust).trust = b.head.trust
      /\ HeadOf(next, c, b.head.trust).active = next
  BY <1>3, HeadTyped
<1>5. /\ \A v \in Versions : b.rec[v] = "active" <=> v = old
      /\ \A v \in Versions : v > old => b.rec[v] = Absent
  BY <1>0 DEF InOrderSkill
<1>6. \A v \in Versions : (v > next => v > old /\ v # next /\ v # old) /\ next # old
  BY <1>0, <1>3
<1>7. \A v \in Versions : z.rec[v] = "active" <=> v = next
  BY <1>2, <1>5, <1>6
<1>8. \A v \in Versions : v > next => z.rec[v] = Absent
  BY <1>2, <1>5, <1>6
<1>9. z.body[next] = c
  BY <1>2
<1>h. z.md = c /\ z.head.of = c /\ z.head.trust = b.head.trust /\ z.head.active = next /\ z.meta = Meta(c, b.head.trust)
  BY <1>2, <1>4
<1>10. InOrderSkill(z)
  BY <1>3, <1>7, <1>8, <1>9, <1>h DEF InOrderSkill
<1> QED
  BY <1>0, <1>1, <1>2, <1>5, <1>10

LEMMA UpdateEnds ==
    ASSUME NEW b \in Packages, NEW c \in Bodies, b.head.active \in Versions, b.head.active + 1 \in Versions,
           b.rec[b.head.active] # Absent, NEW ws, UpdateLists(ws, c, b)
    PROVE  EndsAs(ws, b, Updated(b, c))
<1>0. PICK old \in Versions, next \in Versions : old = b.head.active /\ next = b.head.active + 1
  OBVIOUS
<1>1. PICK z : z = Updated(b, c)
  OBVIOUS
<1>2. /\ z.md = c /\ z.meta = Meta(c, b.head.trust) /\ z.head = HeadOf(next, c, b.head.trust)
      /\ z.body = [v \in Versions |-> IF v = next THEN c ELSE b.body[v]]
      /\ z.rec = [v \in Versions |-> IF v = next THEN "active" ELSE IF v = old THEN "deprecated" ELSE b.rec[v]]
  BY <1>0, <1>1, UpdatedParts
<1>3. /\ HitsLast(ws, <<"md", 0>>, c) /\ HitsLast(ws, <<"meta", 0>>, Meta(c, b.head.trust))
      /\ HitsLast(ws, <<"head", 0>>, HeadOf(next, c, b.head.trust))
      /\ HitsLast(ws, <<"body", next>>, c) /\ HitsLast(ws, <<"rec", next>>, "active")
      /\ HitsLast(ws, <<"rec", old>>, "deprecated")
      /\ \A v \in Versions : v # next => Misses(ws, <<"body", v>>)
      /\ \A v \in Versions : v # next /\ v # old => Misses(ws, <<"rec", v>>)
  BY <1>0 DEF UpdateLists
<1>n. next # old
  BY <1>0, SkillFacts
<1>4. ASSUME NEW q \in Slots PROVE Ends(ws, b, q, SlotOf(z, q))
  <2>1. CASE q = <<"md", 0>>
    BY <2>1, <1>2, <1>3, SlotValues DEF Ends
  <2>2. CASE q = <<"meta", 0>>
    BY <2>2, <1>2, <1>3, SlotValues DEF Ends
  <2>3. CASE q = <<"head", 0>>
    BY <2>3, <1>2, <1>3, SlotValues DEF Ends
  <2>4. CASE \E v \in Versions : q = <<"body", v>>
    <3>1. PICK v \in Versions : q = <<"body", v>>
      BY <2>4
    <3>2. SlotOf(z, q) = z.body[v] /\ SlotOf(b, q) = b.body[v]
      BY <3>1 DEF SlotOf
    <3>3. CASE v = next
      <4>1. SlotOf(z, q) = c
        BY <3>2, <3>3, <1>2
      <4> QED
        BY <4>1, <3>1, <3>3, <1>3 DEF Ends
    <3>4. CASE v # next
      <4>1. SlotOf(z, q) = SlotOf(b, q)
        BY <3>2, <3>4, <1>2
      <4>2. Misses(ws, q)
        BY <3>1, <3>4, <1>3
      <4> QED
        BY <4>1, <4>2 DEF Ends
    <3> QED
      BY <3>3, <3>4
  <2>5. CASE \E v \in Versions : q = <<"rec", v>>
    <3>1. PICK v \in Versions : q = <<"rec", v>>
      BY <2>5
    <3>2. SlotOf(z, q) = z.rec[v] /\ SlotOf(b, q) = b.rec[v]
      BY <3>1 DEF SlotOf
    <3>3. CASE v = next
      <4>1. SlotOf(z, q) = "active"
        BY <3>2, <3>3, <1>2
      <4> QED
        BY <4>1, <3>1, <3>3, <1>3 DEF Ends
    <3>5. CASE v = old
      <4>1. SlotOf(z, q) = "deprecated"
        BY <3>2, <3>5, <1>2, <1>n
      <4> QED
        BY <4>1, <3>1, <3>5, <1>3 DEF Ends
    <3>4. CASE v # next /\ v # old
      <4>1. SlotOf(z, q) = SlotOf(b, q)
        BY <3>2, <3>4, <1>2
      <4>2. Misses(ws, q)
        BY <3>1, <3>4, <1>3
      <4> QED
        BY <4>1, <4>2 DEF Ends
    <3> QED
      BY <3>3, <3>4, <3>5
  <2> QED
    BY <2>1, <2>2, <2>3, <2>4, <2>5, SlotCases
<1> QED
  BY <1>1, <1>4 DEF EndsAs

\* The undo of an update.
RestoreWrites(b) == {w \in SkillWrites : RestoreFits(w, b)}

LEMMA RestoreTyped ==
    ASSUME NEW b \in Packages, b.head.active \in Versions, b.head.active + 1 \in Versions
    PROVE  restore_failed_update(b) \in Seq(RestoreWrites(b))
<1>0. PICK old \in Versions, next \in Versions : old = b.head.active /\ next = b.head.active + 1
  OBVIOUS
<1>1. PICK x1, x2, x3, x4 : x1 = b.body[old] /\ x2 = b.rec[old] /\ x3 = b.body[next] /\ x4 = b.rec[next]
  OBVIOUS
<1>2. x1 \in MaybeBody /\ x2 \in RecStates /\ x3 \in MaybeBody /\ x4 \in RecStates /\ "ignore" \in Fails
      /\ b.md \in MaybeBody /\ b.index \in MaybeBody /\ b.meta \in SkillMetas /\ b.head \in SkillHeads
  BY <1>1, PkgParts DEF Fails
<1>3. /\ Put("md", b.md, "ignore") \in SkillWrites /\ Put("index", b.index, "ignore") \in SkillWrites
      /\ Put("cache", b.index, "ignore") \in SkillWrites
      /\ Put("meta", b.meta, "ignore") \in SkillWrites /\ Put("head", b.head, "ignore") \in SkillWrites
  BY <1>2, BodyPuts, MetaPut, HeadPut
<1>4. /\ PutVersion("body", old, x1, "ignore") \in SkillWrites /\ PutVersion("rec", old, x2, "ignore") \in SkillWrites
      /\ PutVersion("body", next, x3, "ignore") \in SkillWrites /\ PutVersion("rec", next, x4, "ignore") \in SkillWrites
  BY <1>2, BodyVersionPut, RecVersionPut
<1>5. /\ Put("md", b.md, "ignore") \in RestoreWrites(b) /\ Put("index", b.index, "ignore") \in RestoreWrites(b)
      /\ Put("cache", b.index, "ignore") \in RestoreWrites(b)
      /\ Put("meta", b.meta, "ignore") \in RestoreWrites(b) /\ Put("head", b.head, "ignore") \in RestoreWrites(b)
  BY <1>3, PutParts DEF RestoreWrites, RestoreFits, InVersions, Wholes
<1>6. /\ PutVersion("body", old, x1, "ignore") \in RestoreWrites(b) /\ PutVersion("rec", old, x2, "ignore") \in RestoreWrites(b)
      /\ PutVersion("body", next, x3, "ignore") \in RestoreWrites(b) /\ PutVersion("rec", next, x4, "ignore") \in RestoreWrites(b)
  BY <1>0, <1>4, PutParts DEF RestoreWrites, RestoreFits, InVersions, Wholes
<1>7. restore_failed_update(b) =
        <<Put("md", b.md, "ignore"), PutVersion("body", old, x1, "ignore"), PutVersion("rec", old, x2, "ignore"),
          PutVersion("body", next, x3, "ignore"), PutVersion("rec", next, x4, "ignore"),
          Put("index", b.index, "ignore"), Put("cache", b.index, "ignore"),
          Put("meta", b.meta, "ignore"), Put("head", b.head, "ignore")>>
  BY <1>0, <1>1 DEF restore_failed_update
<1> QED
  BY <1>5, <1>6, <1>7

LEMMA RestoreEnds ==
    ASSUME NEW b \in Packages, NEW old \in Versions, NEW next \in Versions, old = b.head.active,
           next = b.head.active + 1, NEW s,
           \A v \in Versions \ {old, next} : s.body[v] = b.body[v] /\ s.rec[v] = b.rec[v]
    PROVE  EndsAs(restore_failed_update(b), s, b)
<1>1. PICK x1, x2, x3, x4 : x1 = b.body[old] /\ x2 = b.rec[old] /\ x3 = b.body[next] /\ x4 = b.rec[next]
  OBVIOUS
<1>2. PICK ws : ws = restore_failed_update(b)
  OBVIOUS
<1>n. next # old /\ 0 \notin Versions
  BY SkillFacts
<1>3. /\ Len(ws) = 9
      /\ ws[1].part = "md" /\ ws[1].ver = 0 /\ ws[1].val = b.md
      /\ ws[2].part = "body" /\ ws[2].ver = old /\ ws[2].val = x1
      /\ ws[3].part = "rec" /\ ws[3].ver = old /\ ws[3].val = x2
      /\ ws[4].part = "body" /\ ws[4].ver = next /\ ws[4].val = x3
      /\ ws[5].part = "rec" /\ ws[5].ver = next /\ ws[5].val = x4
      /\ ws[6].part = "index" /\ ws[7].part = "cache"
      /\ ws[8].part = "meta" /\ ws[8].ver = 0 /\ ws[8].val = b.meta
      /\ ws[9].part = "head" /\ ws[9].ver = 0 /\ ws[9].val = b.head
  BY <1>1, <1>2 DEF restore_failed_update, Put, PutVersion
<1>i. \A i \in 1..9 : i = 1 \/ i = 2 \/ i = 3 \/ i = 4 \/ i = 5 \/ i = 6 \/ i = 7 \/ i = 8 \/ i = 9
  OBVIOUS
<1>4. ASSUME NEW q \in Slots PROVE Ends(ws, s, q, SlotOf(b, q))
  <2>1. CASE q = <<"md", 0>>
    <3>1. HitsLast(ws, <<"md", 0>>, b.md)
      BY <1>3 DEF HitsLast, Hits
    <3> QED
      BY <2>1, <3>1, SlotValues DEF Ends
  <2>2. CASE q = <<"meta", 0>>
    <3>1. HitsLast(ws, <<"meta", 0>>, b.meta)
      BY <1>3 DEF HitsLast, Hits
    <3> QED
      BY <2>2, <3>1, SlotValues DEF Ends
  <2>3. CASE q = <<"head", 0>>
    <3>1. HitsLast(ws, <<"head", 0>>, b.head)
      BY <1>3 DEF HitsLast, Hits
    <3> QED
      BY <2>3, <3>1, SlotValues DEF Ends
  <2>4. CASE \E v \in Versions : q = <<"body", v>>
    <3>1. PICK v \in Versions : q = <<"body", v>>
      BY <2>4
    <3>2. SlotOf(b, q) = b.body[v] /\ SlotOf(s, q) = s.body[v] /\ q[1] = "body" /\ q[2] = v
      BY <3>1 DEF SlotOf
    <3>3. CASE v = old
      <4>1. HitsLast(ws, q, x1)
        BY <1>3, <1>n, <3>2, <3>3 DEF HitsLast, Hits
      <4> QED
        BY <4>1, <3>2, <3>3, <1>1 DEF Ends
    <3>4. CASE v = next
      <4>1. HitsLast(ws, q, x3)
        BY <1>3, <1>n, <3>2, <3>4 DEF HitsLast, Hits
      <4> QED
        BY <4>1, <3>2, <3>4, <1>1 DEF Ends
    <3>5. CASE v # old /\ v # next
      <4>1. Misses(ws, q)
        BY <1>3, <1>i, <3>2, <3>5 DEF Misses, Hits
      <4> QED
        BY <4>1, <3>2, <3>5 DEF Ends
    <3> QED
      BY <3>3, <3>4, <3>5
  <2>5. CASE \E v \in Versions : q = <<"rec", v>>
    <3>1. PICK v \in Versions : q = <<"rec", v>>
      BY <2>5
    <3>2. SlotOf(b, q) = b.rec[v] /\ SlotOf(s, q) = s.rec[v] /\ q[1] = "rec" /\ q[2] = v
      BY <3>1 DEF SlotOf
    <3>3. CASE v = old
      <4>1. HitsLast(ws, q, x2)
        BY <1>3, <1>n, <3>2, <3>3 DEF HitsLast, Hits
      <4> QED
        BY <4>1, <3>2, <3>3, <1>1 DEF Ends
    <3>4. CASE v = next
      <4>1. HitsLast(ws, q, x4)
        BY <1>3, <1>n, <3>2, <3>4 DEF HitsLast, Hits
      <4> QED
        BY <4>1, <3>2, <3>4, <1>1 DEF Ends
    <3>5. CASE v # old /\ v # next
      <4>1. Misses(ws, q)
        BY <1>3, <1>i, <3>2, <3>5 DEF Misses, Hits
      <4> QED
        BY <4>1, <3>2, <3>5 DEF Ends
    <3> QED
      BY <3>3, <3>4, <3>5
  <2> QED
    BY <2>1, <2>2, <2>3, <2>4, <2>5, SlotCases
<1> QED
  BY <1>2, <1>4 DEF EndsAs

DiscardWrites == {w \in SkillWrites : DiscardFits(w)}
DeleteWrites == {w \in SkillWrites : DeleteFits(w)}

LEMMA RemovalPuts ==
    ASSUME NEW f \in Fails
    PROVE  /\ Put("package", Absent, f) \in SkillWrites /\ Put("bodies", Absent, f) \in SkillWrites
           /\ Put("records", Absent, f) \in SkillWrites /\ Put("index", Absent, f) \in SkillWrites
           /\ Put("cache", Absent, f) \in SkillWrites
           /\ Put("meta", NoMeta, f) \in SkillWrites /\ Put("head", NoHead, f) \in SkillWrites
<1>1. Absent \in MaybeBody
  BY DEF MaybeBody
<1> QED
  BY <1>1, OtherPuts, BodyPuts, MetaPut, HeadPut, NoPackageTyped

LEMMA DiscardTyped ==
    /\ discard_uncommitted_package \in Seq(DiscardWrites)
    /\ discard_uncommitted_package \o discard_uncommitted_package \in Seq(DiscardWrites)
<1>1. /\ Put("package", Absent, "ignore") \in DiscardWrites /\ Put("bodies", Absent, "ignore") \in DiscardWrites
      /\ Put("records", Absent, "ignore") \in DiscardWrites /\ Put("index", Absent, "ignore") \in DiscardWrites
      /\ Put("cache", Absent, "ignore") \in DiscardWrites
      /\ Put("meta", NoMeta, "ignore") \in DiscardWrites /\ Put("head", NoHead, "ignore") \in DiscardWrites
  <2>1. PICK f : f = "ignore"
    OBVIOUS
  <2>2. /\ Put("package", Absent, f) \in SkillWrites /\ Put("bodies", Absent, f) \in SkillWrites
        /\ Put("records", Absent, f) \in SkillWrites /\ Put("index", Absent, f) \in SkillWrites
        /\ Put("cache", Absent, f) \in SkillWrites
        /\ Put("meta", NoMeta, f) \in SkillWrites /\ Put("head", NoHead, f) \in SkillWrites
    BY <2>1, RemovalPuts DEF Fails
  <2>3. \A part, val : Put(part, val, f).fail = f
    BY DEF Put
  <2> QED
    BY <2>1, <2>2, <2>3 DEF DiscardWrites, DiscardFits
<1>2. discard_uncommitted_package \in Seq(DiscardWrites)
  BY <1>1 DEF discard_uncommitted_package
<1> QED
  BY <1>2

LEMMA DeleteTyped ==
    /\ delete_skill \in Seq(DeleteWrites) /\ clear_all_skills \in Seq(DeleteWrites)
<1>1. /\ Put("package", Absent, "stop") \in DeleteWrites /\ Put("bodies", Absent, "stop") \in DeleteWrites
      /\ Put("records", Absent, "stop") \in DeleteWrites /\ Put("index", Absent, "stop") \in DeleteWrites
      /\ Put("cache", Absent, "stop") \in DeleteWrites
      /\ Put("meta", NoMeta, "stop") \in DeleteWrites /\ Put("head", NoHead, "stop") \in DeleteWrites
  <2>1. PICK f : f = "stop"
    OBVIOUS
  <2>2. /\ Put("package", Absent, f) \in SkillWrites /\ Put("bodies", Absent, f) \in SkillWrites
        /\ Put("records", Absent, f) \in SkillWrites /\ Put("index", Absent, f) \in SkillWrites
        /\ Put("cache", Absent, f) \in SkillWrites
        /\ Put("meta", NoMeta, f) \in SkillWrites /\ Put("head", NoHead, f) \in SkillWrites
    BY <2>1, RemovalPuts DEF Fails
  <2>3. \A part, val : Put(part, val, f).fail = f
    BY DEF Put
  <2> QED
    BY <2>1, <2>2, <2>3 DEF DeleteWrites, DeleteFits
<1>2. delete_skill \in Seq(DeleteWrites)
  BY <1>1 DEF delete_skill
<1>3. clear_all_skills \in Seq(DeleteWrites)
  BY <1>1 DEF clear_all_skills
<1> QED
  BY <1>2, <1>3

LEMMA TwiceRemoves == Removes(discard_uncommitted_package \o discard_uncommitted_package)
<1>1. PICK ws : ws = discard_uncommitted_package
  OBVIOUS
<1>2. Removes(ws) /\ ws \in Seq(DiscardWrites)
  BY <1>1, DiscardRemoves, DiscardTyped
<1>3. Joins(ws, ws, ws \o ws)
  BY <1>2, JoinBoth
<1>4. \A q \in Slots : HitsLast(ws \o ws, q, SlotOf(NoPackage, q))
  BY <1>2, <1>3 DEF Removes, Joins
<1> QED
  BY <1>1, <1>4 DEF Removes, Ends

LEMMA RemovesSome ==
    ASSUME NEW ws, Removes(ws)
    PROVE  ws # <<>> /\ \A s : EndsAs(ws, s, NoPackage)
<1>1. <<"md", 0>> \in Slots
  BY DEF Slots
<1>2. HitsLast(ws, <<"md", 0>>, SlotOf(NoPackage, <<"md", 0>>))
  BY <1>1 DEF Removes
<1>3. ws # <<>>
  BY <1>2, HitsSome
<1> QED
  BY <1>3 DEF Removes, EndsAs

PruneWrites == {w \in SkillWrites : PruneFits(w)}

\* The versions of gone are removed.
Trimmed(b, gone) ==
    [md |-> b.md, res |-> b.res, index |-> b.index, meta |-> b.meta, head |-> b.head,
     body |-> [v \in Versions |-> IF v \in gone THEN Absent ELSE b.body[v]],
     rec |-> [v \in Versions |-> IF v \in gone THEN Absent ELSE b.rec[v]]]

LEMMA PrunedParts ==
    ASSUME NEW b \in Packages, NEW gone
    PROVE  LET z == Trimmed(b, gone) IN
           /\ z.md = b.md /\ z.meta = b.meta /\ z.head = b.head
           /\ z.body = [v \in Versions |-> IF v \in gone THEN Absent ELSE b.body[v]]
           /\ z.rec = [v \in Versions |-> IF v \in gone THEN Absent ELSE b.rec[v]]
           /\ z \in Packages
<1>0. /\ b.md \in MaybeBody /\ b.res \in BOOLEAN /\ b.index \in MaybeBody /\ b.meta \in SkillMetas
      /\ b.head \in SkillHeads /\ b.body \in [Versions -> MaybeBody] /\ b.rec \in [Versions -> RecStates]
      /\ Absent \in MaybeBody /\ Absent \in RecStates
  BY PkgParts DEF MaybeBody, RecStates
<1>2. PICK z : z = Trimmed(b, gone)
  OBVIOUS
<1>3. /\ z.md = b.md /\ z.meta = b.meta /\ z.head = b.head
      /\ z.body = [v \in Versions |-> IF v \in gone THEN Absent ELSE b.body[v]]
      /\ z.rec = [v \in Versions |-> IF v \in gone THEN Absent ELSE b.rec[v]]
      /\ z.res = b.res /\ z.index = b.index
      /\ z = [md |-> z.md, res |-> z.res, index |-> z.index, meta |-> z.meta, head |-> z.head,
              body |-> z.body, rec |-> z.rec]
  BY <1>2 DEF Trimmed
<1>4. z.body \in [Versions -> MaybeBody]
  BY <1>0, <1>3
<1>5. z.rec \in [Versions -> RecStates]
  BY <1>0, <1>3
<1>6. z \in Packages
  BY <1>0, <1>3, <1>4, <1>5 DEF Packages
<1> QED
  BY <1>2, <1>3, <1>6

LEMMA PrunedFits ==
    ASSUME NEW b \in Packages, NEW gone, b.md # Absent, InOrderSkill(b), b.head.active \notin gone
    PROVE  InOrderSkill(Trimmed(b, gone))
<1>1. PICK z : z = Trimmed(b, gone)
  OBVIOUS
<1>2. /\ z.md = b.md /\ z.meta = b.meta /\ z.head = b.head
      /\ z.body = [v \in Versions |-> IF v \in gone THEN Absent ELSE b.body[v]]
      /\ z.rec = [v \in Versions |-> IF v \in gone THEN Absent ELSE b.rec[v]]
  BY <1>1, PrunedParts
<1>3. /\ b.head.of = b.md /\ b.meta = Meta(b.md, b.head.trust)
      /\ b.head.active \in Versions /\ b.body[b.head.active] = b.md
      /\ \A v \in Versions : b.rec[v] = "active" <=> v = b.head.active
      /\ \A v \in Versions : v > b.head.active => b.rec[v] = Absent
  BY DEF InOrderSkill
<1>4. z.body[b.head.active] = b.md
  BY <1>2, <1>3
<1>5. \A v \in Versions : z.rec[v] = "active" <=> v = b.head.active
  BY <1>2, <1>3 DEF Absent
<1>6. \A v \in Versions : v > b.head.active => z.rec[v] = Absent
  BY <1>2, <1>3
<1>7. z.md = b.md /\ z.meta = b.meta /\ z.head = b.head
  BY <1>2
<1>8. InOrderSkill(z)
  BY <1>3, <1>4, <1>5, <1>6, <1>7 DEF InOrderSkill
<1> QED
  BY <1>1, <1>8

\* The active version is the newest that has a record, and stays.
LEMMA ActiveStays ==
    ASSUME NEW b, b = pkg, b \in Packages, InOrderSkill(b), b.md # Absent
    PROVE  b.head.active \notin Prunable
<1>1. PICK a \in Versions : a = b.head.active
  BY DEF InOrderSkill
<1>2. {u \in Versions : u > a /\ pkg.rec[u] # Absent} = {}
  BY <1>1 DEF InOrderSkill
<1>3. Cardinality({}) = 0
  BY FS_EmptySet
<1>4. ~(0 >= Retained)
  BY SkillFacts
<1> QED
  BY <1>1, <1>2, <1>3, <1>4 DEF Prunable

LEMMA PrunableFinite == IsFiniteSet(Prunable) /\ Cardinality(Prunable) \in Nat /\ Prunable \subseteq Versions
<1>1. IsFiniteSet(1..MaxVersion)
  BY FS_Interval, SkillFacts
<1>2. Prunable \subseteq Versions /\ Versions = 1..MaxVersion
  BY DEF Prunable, Versions
<1>3. IsFiniteSet(Prunable)
  BY <1>1, <1>2, FS_Subset
<1> QED
  BY <1>2, <1>3, FS_CardinalityType

PruneList(vs, n) ==
    [k \in 1 .. 2 * n |->
       PutVersion(IF k % 2 = 1 THEN "body" ELSE "rec", vs[(k + 1) \div 2], Absent, "stop")]

LEMMA HalfFacts ==
    ASSUME NEW n \in Nat, NEW k \in 1..(2 * n)
    PROVE  /\ (k + 1) \div 2 \in 1..n /\ k % 2 \in {0, 1}
           /\ k % 2 = 1 => k = 2 * ((k + 1) \div 2) - 1
           /\ k % 2 # 1 => k = 2 * ((k + 1) \div 2)
  OBVIOUS

LEMMA HalfBack ==
    ASSUME NEW n \in Nat, NEW i \in 1..n
    PROVE  /\ 2 * i \in 1..(2 * n) /\ 2 * i - 1 \in 1..(2 * n)
           /\ (2 * i) % 2 = 0 /\ (2 * i - 1) % 2 = 1
           /\ (2 * i + 1) \div 2 = i /\ ((2 * i - 1) + 1) \div 2 = i
  OBVIOUS

LEMMA PruneListTyped ==
    ASSUME NEW n \in Nat, NEW vs \in [1..n -> Versions]
    PROVE  /\ PruneList(vs, n) \in Seq(PruneWrites) /\ Len(PruneList(vs, n)) = 2 * n
           /\ \A k \in 1..(2 * n) :
                /\ PruneList(vs, n)[k].part = (IF k % 2 = 1 THEN "body" ELSE "rec")
                /\ PruneList(vs, n)[k].ver = vs[(k + 1) \div 2]
                /\ PruneList(vs, n)[k].val = Absent
<1>1. ASSUME NEW k \in 1..(2 * n)
      PROVE  PutVersion(IF k % 2 = 1 THEN "body" ELSE "rec", vs[(k + 1) \div 2], Absent, "stop") \in PruneWrites
  <2>1. PICK v \in Versions : v = vs[(k + 1) \div 2]
    BY HalfFacts
  <2>2. PICK part \in {"body", "rec"} : part = IF k % 2 = 1 THEN "body" ELSE "rec"
    OBVIOUS
  <2>3. PutVersion(part, v, Absent, "stop") \in SkillWrites
    BY BodyVersionPut, RecVersionPut DEF Fails, MaybeBody, RecStates
  <2>4. PutVersion(part, v, Absent, "stop") \in PruneWrites
    BY <2>3, PutParts DEF PruneWrites, PruneFits
  <2> QED
    BY <2>1, <2>2, <2>4
<1>2. 2 * n \in Nat
  OBVIOUS
<1>3. PruneList(vs, n) \in [1 .. 2 * n -> PruneWrites]
  BY <1>1 DEF PruneList
<1>4. PruneList(vs, n) \in Seq(PruneWrites) /\ Len(PruneList(vs, n)) = 2 * n
  BY <1>2, <1>3
<1>5. ASSUME NEW k \in 1..(2 * n)
      PROVE  /\ PruneList(vs, n)[k].part = (IF k % 2 = 1 THEN "body" ELSE "rec")
             /\ PruneList(vs, n)[k].ver = vs[(k + 1) \div 2]
             /\ PruneList(vs, n)[k].val = Absent
  BY PutParts DEF PruneList
<1> QED
  BY <1>4, <1>5

\* Each version of the list is removed once.
LEMMA PruneListEnds ==
    ASSUME NEW n \in Nat, NEW vs \in [1..n -> Versions], \A i, j \in 1..n : i < j => vs[i] > vs[j],
           NEW b \in Packages, NEW gone, gone = {vs[i] : i \in 1..n}
    PROVE  EndsAs(PruneList(vs, n), b, Trimmed(b, gone))
<1>0. PICK ws : ws = PruneList(vs, n)
  OBVIOUS
<1>1. /\ Len(ws) = 2 * n
      /\ \A k \in 1..(2 * n) : /\ ws[k].part = (IF k % 2 = 1 THEN "body" ELSE "rec")
                               /\ ws[k].ver = vs[(k + 1) \div 2] /\ ws[k].val = Absent
  BY <1>0, PruneListTyped
<1>2. PICK z : z = Trimmed(b, gone)
  OBVIOUS
<1>3. /\ z.md = b.md /\ z.meta = b.meta /\ z.head = b.head
      /\ z.body = [v \in Versions |-> IF v \in gone THEN Absent ELSE b.body[v]]
      /\ z.rec = [v \in Versions |-> IF v \in gone THEN Absent ELSE b.rec[v]]
  BY <1>2, PrunedParts
<1>4. ASSUME NEW i \in 1..n, NEW j \in 1..n, vs[i] = vs[j] PROVE i = j
  <2>1. i < j \/ j < i \/ i = j
    OBVIOUS
  <2>2. vs[i] \in Nat /\ vs[j] \in Nat
    BY SkillFacts
  <2> QED
    BY <1>4, <2>1, <2>2
<1>m. ASSUME NEW q \in Slots, q[1] \in {"md", "meta", "head"} PROVE Misses(ws, q)
  BY <1>1, <1>m DEF Misses, Hits
<1>5. ASSUME NEW v \in Versions, NEW part \in {"body", "rec"}
      PROVE  Ends(ws, b, <<part, v>>, IF v \in gone THEN Absent ELSE SlotOf(b, <<part, v>>))
  <2>h. \A k \in 1..(2 * n) : Hits(ws[k], <<part, v>>) <=>
                   vs[(k + 1) \div 2] = v /\ (IF k % 2 = 1 THEN "body" ELSE "rec") = part
    BY <1>1 DEF Hits
  <2>1. CASE v \notin gone
    <3>1. ASSUME NEW k \in 1..(2 * n) PROVE ~Hits(ws[k], <<part, v>>)
      <4>1. (k + 1) \div 2 \in 1..n
        BY HalfFacts
      <4> QED
        BY <4>1, <2>h, <2>1
    <3>2. Misses(ws, <<part, v>>)
      BY <3>1, <1>1 DEF Misses
    <3> QED
      BY <3>2, <2>1 DEF Ends
  <2>2. CASE v \in gone
    <3>1. PICK i \in 1..n : vs[i] = v
      BY <2>2
    <3>2. PICK k \in 1..(2 * n) : k = IF part = "body" THEN 2 * i - 1 ELSE 2 * i
      BY HalfBack
    <3>3. (k + 1) \div 2 = i /\ (IF k % 2 = 1 THEN "body" ELSE "rec") = part
      BY <3>2, HalfBack
    <3>4. Hits(ws[k], <<part, v>>) /\ ws[k].val = Absent
      BY <3>1, <3>3, <2>h, <1>1
    <3>5. ASSUME NEW j \in 1..(2 * n), j > k PROVE ~Hits(ws[j], <<part, v>>)
      <4>1. SUFFICES ASSUME Hits(ws[j], <<part, v>>) PROVE FALSE
        OBVIOUS
      <4>2. vs[(j + 1) \div 2] = v /\ (IF j % 2 = 1 THEN "body" ELSE "rec") = part
        BY <4>1, <2>h
      <4>3. (j + 1) \div 2 \in 1..n
        BY HalfFacts
      <4>4. (j + 1) \div 2 = i
        BY <4>2, <4>3, <3>1, <1>4
      <4>5. (j % 2 = 1 => j = 2 * i - 1) /\ (j % 2 # 1 => j = 2 * i)
        BY <4>4, HalfFacts
      <4>6. j = k
        BY <4>5, <4>2, <3>2
      <4> QED
        BY <4>6, <3>5
    <3>6. HitsLast(ws, <<part, v>>, Absent)
      BY <3>4, <3>5, <1>1 DEF HitsLast
    <3> QED
      BY <3>6, <2>2 DEF Ends
  <2> QED
    BY <2>1, <2>2
<1>6. ASSUME NEW q \in Slots PROVE Ends(ws, b, q, SlotOf(z, q))
  <2>1. CASE q = <<"md", 0>>
    <3>1. SlotOf(z, q) = SlotOf(b, q) /\ q[1] = "md"
      BY <2>1, <1>3 DEF SlotOf
    <3> QED
      BY <3>1, <1>m DEF Ends
  <2>2. CASE q = <<"meta", 0>>
    <3>1. SlotOf(z, q) = SlotOf(b, q) /\ q[1] = "meta"
      BY <2>2, <1>3 DEF SlotOf
    <3> QED
      BY <3>1, <1>m DEF Ends
  <2>3. CASE q = <<"head", 0>>
    <3>1. SlotOf(z, q) = SlotOf(b, q) /\ q[1] = "head"
      BY <2>3, <1>3 DEF SlotOf
    <3> QED
      BY <3>1, <1>m DEF Ends
  <2>4. CASE \E v \in Versions : q = <<"body", v>>
    <3>1. PICK v \in Versions : q = <<"body", v>>
      BY <2>4
    <3>2. SlotOf(z, q) = IF v \in gone THEN Absent ELSE SlotOf(b, q)
      BY <3>1, <1>3 DEF SlotOf
    <3> QED
      BY <3>1, <3>2, <1>5
  <2>5. CASE \E v \in Versions : q = <<"rec", v>>
    <3>1. PICK v \in Versions : q = <<"rec", v>>
      BY <2>5
    <3>2. SlotOf(z, q) = IF v \in gone THEN Absent ELSE SlotOf(b, q)
      BY <3>1, <1>3 DEF SlotOf
    <3> QED
      BY <3>1, <3>2, <1>5
  <2> QED
    BY <2>1, <2>2, <2>3, <2>4, <2>5, SlotCases
<1> QED
  BY <1>0, <1>2, <1>6 DEF EndsAs

\* The whole of a pruning.
LEMMA PruneEnds ==
    ASSUME NEW b, b = pkg, b \in Packages, NEW n \in Nat, NEW vs \in [1..n -> Versions],
           \A i, j \in 1..n : i < j => vs[i] > vs[j], NEW gone, gone = {vs[i] : i \in 1..n}
    PROVE  /\ prune(vs) \in Seq(PruneWrites) /\ prune(vs) # <<>>
           /\ EndsAs(prune(vs), b, Trimmed(b, gone))
<1>1. Len(vs) = n
  OBVIOUS
<1>2. PICK a, p, ws : a = RegisteredIndex(b.md) /\ p = PruneList(vs, n) /\ ws = a \o p
  OBVIOUS
<1>3. prune(vs) = ws
  BY <1>1, <1>2 DEF prune, PruneList
<1>4. a \in Seq(PruneWrites) /\ Len(a) = 2
  <2>1. b.md \in MaybeBody /\ "ignore" \in Fails
    BY PkgParts DEF Fails
  <2>2. Put("index", b.md, "ignore") \in SkillWrites /\ Put("cache", b.md, "ignore") \in SkillWrites
    BY <2>1, BodyPuts
  <2>3. Put("index", b.md, "ignore") \in PruneWrites /\ Put("cache", b.md, "ignore") \in PruneWrites
    BY <2>2, PutParts DEF PruneWrites, PruneFits
  <2> QED
    BY <2>3, <1>2 DEF RegisteredIndex
<1>5. p \in Seq(PruneWrites) /\ EndsAs(p, b, Trimmed(b, gone))
  BY <1>2, PruneListTyped, PruneListEnds
<1>6. ws \in Seq(PruneWrites) /\ ws # <<>>
  BY <1>2, <1>4, <1>5
<1>7. ASSUME NEW q \in Slots PROVE Ends(ws, b, q, SlotOf(Trimmed(b, gone), q))
  <2>1. Misses(a, q)
    BY <1>2, QuietPieces
  <2>2. Ends(p, b, q, SlotOf(Trimmed(b, gone), q))
    BY <1>5 DEF EndsAs
  <2>3. PICK x : x = SlotOf(Trimmed(b, gone), q)
    OBVIOUS
  <2>4. Ends(ws, b, q, x)
    BY <2>1, <2>2, <2>3, <1>2, <1>4, <1>5, JoinEnds
  <2> QED
    BY <2>3, <2>4
<1> QED
  BY <1>3, <1>6, <1>7 DEF EndsAs

LEMMA ChangeParts ==
    ASSUME NEW ch \in Changes
    PROVE  /\ ch.kind \in Kinds /\ ch.tab \in Tabs \cup {Absent} /\ ch.todo \in Seq(SkillWrites)
           /\ ch.undoing \in BOOLEAN /\ ch.clean \in BOOLEAN /\ ch.before \in Packages
  BY DEF Changes

LEMMA NoChangeTyped ==
    NoChange \in Changes /\ NoChange.todo = <<>> /\ NoChange.undoing = FALSE /\ NoChange.tab = Absent
<1>1. <<>> \in Seq(SkillWrites)
  OBVIOUS
<1> QED
  BY <1>1, NoPackageTyped DEF NoChange, Changes, Kinds

\* The next write, and those after it.
LEMMA NextWrite ==
    ASSUME NEW ch, NEW s, NEW td, NEW sy, ChangeOk(ch, s, td, sy)
    PROVE  /\ ch.todo[1] \in FitWrites(ch.kind, ch.undoing, ch.before) /\ ch.todo[1] \in SkillWrites
           /\ Head(ch.todo) = ch.todo[1]
           /\ Tail(ch.todo) \in Seq(FitWrites(ch.kind, ch.undoing, ch.before))
<1>1. PICK F, ws : F = FitWrites(ch.kind, ch.undoing, ch.before) /\ ws = ch.todo
  OBVIOUS
<1>2. ws \in Seq(F) /\ ws # <<>>
  BY <1>1 DEF ChangeOk
<1>3. ws[1] \in F /\ Head(ws) = ws[1] /\ Tail(ws) \in Seq(F)
  BY <1>2
<1>4. F \subseteq SkillWrites
  BY <1>1 DEF FitWrites
<1> QED
  BY <1>1, <1>3, <1>4

\* What a list of writes may hold depends on the core of the package before.
LEMMA FitSame ==
    ASSUME NEW k, NEW undoing, NEW a, NEW b, Core(a) = Core(b)
    PROVE  FitWrites(k, undoing, a) = FitWrites(k, undoing, b)
<1>1. a.md = b.md /\ a.meta = b.meta /\ a.head = b.head
  BY SlotsByCore
<1> QED
  BY <1>1 DEF FitWrites, Fits, RestoreFits, UpdateFits, InVersions

LEMMA OrderSame ==
    ASSUME NEW a, NEW b, Core(a) = Core(b)
    PROVE  /\ InOrderSkill(a) => InOrderSkill(b)
           /\ SystemPkg(a) => SystemPkg(b)
<1>1. a.md = b.md /\ a.meta = b.meta /\ a.head = b.head /\ a.body = b.body /\ a.rec = b.rec
  BY SlotsByCore
<1> QED
  BY <1>1 DEF InOrderSkill, SystemPkg

LEMMA EndsSame ==
    ASSUME NEW a, NEW b, Core(a) = Core(b), NEW ws, NEW s
    PROVE  /\ EndsAs(ws, s, a) => EndsAs(ws, s, b)
           /\ EndsAs(ws, a, s) => EndsAs(ws, b, s)
           /\ Promoting(ws, a) => Promoting(ws, b)
<1>1. \A q : SlotOf(a, q) = SlotOf(b, q)
  BY SlotsByCore
<1> QED
  BY <1>1 DEF EndsAs, Promoting, Ends

LEMMA KeptSame ==
    ASSUME NEW a, NEW b, Core(a) = Core(b), NEW c, NEW d, Core(c) = Core(d), UpdateKept(a, c)
    PROVE  UpdateKept(b, d)
<1>1. a.md = b.md /\ a.head = b.head /\ a.body = b.body /\ a.rec = b.rec /\ c.body = d.body /\ c.rec = d.rec
  BY SlotsByCore
<1> QED
  BY <1>1 DEF UpdateKept

\* Readers change nothing of the core.
LEMMA QuietOk ==
    ASSUME NEW ch, NEW s, NEW td \in BOOLEAN, NEW sy \in BOOLEAN, StateOk(ch, s, td, sy),
           NEW s2 \in Packages, Core(s) = Core(s2)
    PROVE  StateOk(ch, s2, td, sy)
<1>1. ASSUME ch # NoChange PROVE ChangeOk(ch, s2, td, sy)
  <2>1. ChangeOk(ch, s, td, sy)
    BY <1>1 DEF StateOk
  <2>2. ch.kind = "update" => UpdateKept(ch.before, s2)
    BY <2>1, KeptSame DEF ChangeOk
  <2>3. ch.undoing /\ ch.clean => EndsAs(ch.todo, s2, UndoGoal(ch))
    <3>1. ch.undoing /\ ch.clean => EndsAs(ch.todo, s, UndoGoal(ch))
      BY <2>1 DEF ChangeOk
    <3> QED
      BY <3>1, EndsSame
  <2>4. td /\ ~ch.undoing => \E goal \in Packages : InOrderSkill(goal) /\ EndsAs(ch.todo, s2, goal)
    BY <2>1, EndsSame DEF ChangeOk
  <2>5. ch.kind = "install" /\ ~ch.undoing => Promoting(ch.todo, s2)
    <3>1. ch.kind = "install" /\ ~ch.undoing => Promoting(ch.todo, s)
      BY <2>1 DEF ChangeOk
    <3> QED
      BY <3>1, EndsSame
  <2> QED
    BY <2>1, <2>2, <2>3, <2>4, <2>5 DEF ChangeOk
<1>2. (td /\ ch = NoChange => InOrderSkill(s2)) /\ (sy => SystemPkg(s2))
  BY OrderSame DEF StateOk
<1> QED
  BY <1>1, <1>2 DEF StateOk

\* A change that was cut off.
LEMMA CutOff ==
    ASSUME NEW ch, NEW s, NEW td, NEW sy, StateOk(ch, s, td, sy)
    PROVE  StateOk(NoChange, s, FALSE, sy)
  BY NoChangeTyped DEF StateOk

Begun(t, k, ws, s) == [kind |-> k, tab |-> t, todo |-> ws, undoing |-> FALSE, clean |-> TRUE, before |-> s]

LEMMA BeginOk ==
    ASSUME NEW s, NEW td \in BOOLEAN, NEW sy \in BOOLEAN, StateOk(NoChange, s, td, sy),
           NEW t \in Tabs, NEW k \in Kinds, k # "none", NEW ws \in Seq(FitWrites(k, FALSE, s)), ws # <<>>,
           k = "update" => s.head.active \in Versions /\ s.head.active + 1 \in Versions /\ s.md # Absent,
           td => \E goal \in Packages : InOrderSkill(goal) /\ EndsAs(ws, s, goal),
           k = "install" => Promoting(ws, s),
           sy => k \in {"update", "prune"}
    PROVE  StateOk(Begun(t, k, ws, s), s, td, sy)
<1>1. PICK ch : ch = Begun(t, k, ws, s)
  OBVIOUS
<1>2. /\ ch.kind = k /\ ch.tab = t /\ ch.todo = ws /\ ch.undoing = FALSE /\ ch.clean = TRUE /\ ch.before = s
      /\ ch = [kind |-> k, tab |-> t, todo |-> ws, undoing |-> FALSE, clean |-> TRUE, before |-> s]
  BY <1>1 DEF Begun
<1>3. PICK F : F = FitWrites(k, FALSE, s)
  OBVIOUS
<1>f. F \subseteq SkillWrites
  BY <1>3 DEF FitWrites
<1>w. ws \in Seq(F)
  BY <1>3, Zenon
<1>4. ws \in Seq(SkillWrites)
  BY <1>f, <1>w
<1>5. s \in Packages
  BY DEF StateOk
<1>6. ch \in Changes
  BY <1>2, <1>4, <1>5 DEF Changes
<1>7. ch # NoChange
  BY <1>2, NoChangeTyped
<1>8. td => InOrderSkill(s)
  BY DEF StateOk
<1>9. sy => SystemPkg(s)
  BY DEF StateOk
<1>10. k = "update" => UpdateKept(s, s)
  BY DEF UpdateKept
<1>11. ChangeOk(ch, s, td, sy)
  <2>1. ch.kind # "none" /\ ch.todo # <<>> /\ ch.todo \in Seq(FitWrites(ch.kind, ch.undoing, ch.before))
    BY <1>2
  <2>2. /\ ch.undoing => ch.kind \in Making \cup {"update"}
        /\ (~ch.undoing \/ td) => ch.clean
        /\ (ch.undoing /\ ch.clean) => EndsAs(ch.todo, s, UndoGoal(ch))
    BY <1>2
  <2>3. /\ ch.kind = "update" => UpdateKept(ch.before, s)
        /\ (td /\ ch.kind = "update") => InOrderSkill(ch.before)
    BY <1>2, <1>8, <1>10
  <2>4. (td /\ ~ch.undoing) => \E goal \in Packages : InOrderSkill(goal) /\ EndsAs(ch.todo, s, goal)
    BY <1>2
  <2>5. (ch.kind = "install" /\ ~ch.undoing) => Promoting(ch.todo, s)
    BY <1>2
  <2>6. sy => ch.kind \in {"update", "prune"} /\ (ch.kind = "update" => SystemPkg(ch.before))
    BY <1>2, <1>9
  <2> QED
    BY <2>1, <2>2, <2>3, <2>4, <2>5, <2>6 DEF ChangeOk
<1> QED
  BY <1>1, <1>5, <1>6, <1>7, <1>9, <1>11 DEF StateOk

\* The writes of an update leave the other versions alone.
LEMMA WriteKept ==
    ASSUME NEW b, NEW s, UpdateKept(b, s), NEW w \in SkillWrites, InVersions(w, b), NEW s2, Wrote(s, w, s2)
    PROVE  UpdateKept(b, s2)
<1>1. ASSUME NEW v \in Versions \ {b.head.active, b.head.active + 1}
      PROVE  s2.body[v] = s.body[v] /\ s2.rec[v] = s.rec[v]
  <2>1. <<"body", v>> \in Slots /\ <<"rec", v>> \in Slots
    BY DEF Slots
  <2>2. ~Hits(w, <<"body", v>>) /\ ~Hits(w, <<"rec", v>>)
    BY DEF Hits, InVersions, Wholes
  <2>3. SlotOf(s2, <<"body", v>>) = SlotOf(s, <<"body", v>>) /\ SlotOf(s2, <<"rec", v>>) = SlotOf(s, <<"rec", v>>)
    BY <2>1, <2>2 DEF Wrote
  <2> QED
    BY <2>3 DEF SlotOf
<1> QED
  BY <1>1 DEF UpdateKept

LEMMA WroteParts ==
    ASSUME NEW s, NEW w \in SkillWrites, NEW s2, Wrote(s, w, s2), w.part # "package"
    PROVE  /\ s2.md = IF w.part = "md" THEN w.val ELSE s.md
           /\ s2.meta = IF w.part = "meta" THEN w.val ELSE s.meta
           /\ s2.head = IF w.part = "head" THEN w.val ELSE s.head
<1>1. <<"md", 0>> \in Slots /\ <<"meta", 0>> \in Slots /\ <<"head", 0>> \in Slots
  BY DEF Slots
<1>2. w.part \notin {"body", "rec"} => w.ver = 0
  BY WriteParts DEF WriteFits
<1>3. /\ Hits(w, <<"md", 0>>) <=> w.part = "md"
      /\ Hits(w, <<"meta", 0>>) <=> w.part = "meta"
      /\ Hits(w, <<"head", 0>>) <=> w.part = "head"
  BY <1>2 DEF Hits
<1>4. /\ SlotOf(s2, <<"md", 0>>) = IF w.part = "md" THEN w.val ELSE SlotOf(s, <<"md", 0>>)
      /\ SlotOf(s2, <<"meta", 0>>) = IF w.part = "meta" THEN w.val ELSE SlotOf(s, <<"meta", 0>>)
      /\ SlotOf(s2, <<"head", 0>>) = IF w.part = "head" THEN w.val ELSE SlotOf(s, <<"head", 0>>)
  BY <1>1, <1>3 DEF Wrote
<1> QED
  BY <1>4, SlotValues

\* A system package stays one under the writes of a change that may touch it.
LEMMA SystemWrite ==
    ASSUME NEW ch \in Changes, NEW s, NEW td, NEW sy, ChangeOk(ch, s, td, sy), sy, SystemPkg(s),
           NEW w, w = ch.todo[1], NEW s2, Wrote(s, w, s2)
    PROVE  SystemPkg(s2)
<1>1. w \in SkillWrites /\ Fits(w, ch.kind, ch.undoing, ch.before)
  BY NextWrite DEF FitWrites
<1>2. ch.kind \in {"update", "prune"} /\ (ch.kind = "update" => SystemPkg(ch.before))
  BY DEF ChangeOk
<1>3. CASE ch.kind = "prune"
  <2>1. w.part \in {"body", "rec", "index", "cache"}
    BY <1>1, <1>3 DEF Fits, PruneFits
  <2>2. s2.md = s.md /\ s2.meta = s.meta /\ s2.head = s.head
    BY <2>1, <1>1, WroteParts
  <2> QED
    BY <2>2 DEF SystemPkg
<1>4. CASE ch.kind = "update"
  <2>1. PICK b : b = ch.before
    OBVIOUS
  <2>2. IF ch.undoing THEN RestoreFits(w, b) ELSE UpdateFits(w, b)
    BY <1>1, <1>4, <2>1 DEF Fits
  <2>3. SystemPkg(b)
    BY <1>2, <1>4, <2>1
  <2>4. /\ w.part # "package" /\ (w.part = "md" => w.val # Absent)
        /\ (w.part = "meta" => w.val.trust = "system") /\ (w.part = "head" => w.val.trust = "system")
    <3>1. CASE ch.undoing
      <4>1. RestoreFits(w, b)
        BY <2>2, <3>1
      <4> QED
        BY <4>1, <2>3 DEF RestoreFits, InVersions, SystemPkg, Wholes
    <3>2. CASE ~ch.undoing
      <4>1. UpdateFits(w, b)
        BY <2>2, <3>2
      <4> QED
        BY <4>1, <2>3 DEF UpdateFits, InVersions, SystemPkg, Wholes
    <3> QED
      BY <3>1, <3>2
  <2>5. /\ s2.md = IF w.part = "md" THEN w.val ELSE s.md
        /\ s2.meta = IF w.part = "meta" THEN w.val ELSE s.meta
        /\ s2.head = IF w.part = "head" THEN w.val ELSE s.head
    BY <1>1, <2>4, WroteParts
  <2> QED
    BY <2>4, <2>5 DEF SystemPkg
<1> QED
  BY <1>2, <1>3, <1>4

\* ch with its first write behind it.
Follows(ch, m) ==
    /\ m \in Changes /\ m.kind = ch.kind /\ m.todo = Tail(ch.todo) /\ m.undoing = ch.undoing
    /\ Core(ch.before) = Core(m.before)

LEMMA EndsOn ==
    ASSUME NEW S, NEW ws \in Seq(S), ws # <<>>, NEW s, NEW s2, Wrote(s, ws[1], s2), NEW goal, EndsAs(ws, s, goal)
    PROVE  EndsAs(Tail(ws), s2, goal)
<1>1. ASSUME NEW q \in Slots PROVE Ends(Tail(ws), s2, q, SlotOf(goal, q))
  <2>1. SlotOf(s2, q) = IF Hits(ws[1], q) THEN ws[1].val ELSE SlotOf(s, q)
    BY DEF Wrote
  <2>2. PICK x : x = SlotOf(goal, q)
    OBVIOUS
  <2>3. Ends(ws, s, q, x)
    BY <2>2 DEF EndsAs
  <2>4. Ends(Tail(ws), s2, q, x)
    BY <2>1, <2>3, EndsTail
  <2> QED
    BY <2>2, <2>4
<1> QED
  BY <1>1 DEF EndsAs

LEMMA PromotingOn ==
    ASSUME NEW S, NEW ws \in Seq(S), ws # <<>>, NEW s, NEW s2, Wrote(s, ws[1], s2), Promoting(ws, s)
    PROVE  Promoting(Tail(ws), s2)
<1>1. PICK c \in Bodies : /\ Ends(ws, s, <<"md", 0>>, c) /\ Ends(ws, s, <<"meta", 0>>, Meta(c, "system"))
                          /\ Ends(ws, s, <<"head", 0>>, HeadOf(1, c, "system"))
  BY DEF Promoting
<1>2. <<"md", 0>> \in Slots /\ <<"meta", 0>> \in Slots /\ <<"head", 0>> \in Slots
  BY DEF Slots
<1>3. ASSUME NEW q \in Slots, NEW x, Ends(ws, s, q, x) PROVE Ends(Tail(ws), s2, q, x)
  <2>1. SlotOf(s2, q) = IF Hits(ws[1], q) THEN ws[1].val ELSE SlotOf(s, q)
    BY DEF Wrote
  <2> QED
    BY <2>1, <1>3, EndsTail
<1>4. /\ Ends(Tail(ws), s2, <<"md", 0>>, c) /\ Ends(Tail(ws), s2, <<"meta", 0>>, Meta(c, "system"))
      /\ Ends(Tail(ws), s2, <<"head", 0>>, HeadOf(1, c, "system"))
  BY <1>1, <1>2, <1>3
<1> QED
  BY <1>4 DEF Promoting

LEMMA WriteKeeps ==
    ASSUME NEW ch, NEW s, NEW td \in BOOLEAN, NEW sy \in BOOLEAN, StateOk(ch, s, td, sy), ch # NoChange,
           NEW s2 \in Packages, Wrote(s, ch.todo[1], s2), NEW m, Follows(ch, m), m.clean = ch.clean,
           m.todo # <<>>
    PROVE  StateOk(m, s2, td, sy)
<1>0. ChangeOk(ch, s, td, sy) /\ ch \in Changes
  BY DEF StateOk
<1>1. PICK w, ws : w = ch.todo[1] /\ ws = ch.todo
  OBVIOUS
<1>2. w \in SkillWrites /\ Fits(w, ch.kind, ch.undoing, ch.before) /\ ws \in Seq(SkillWrites) /\ ws # <<>>
      /\ Tail(ws) \in Seq(FitWrites(ch.kind, ch.undoing, ch.before))
  BY <1>0, <1>1, NextWrite, ChangeParts DEF FitWrites, ChangeOk
<1>3. /\ m \in Changes /\ m.kind = ch.kind /\ m.todo = Tail(ws) /\ m.undoing = ch.undoing
      /\ Core(ch.before) = Core(m.before)
  BY <1>1 DEF Follows
<1>b. ch.undoing \in BOOLEAN /\ ch.clean \in BOOLEAN
  BY <1>0, ChangeParts
<1>4. m # NoChange
  BY NoChangeTyped
<1>5. sy => SystemPkg(s2)
  <2>1. sy => SystemPkg(s)
    BY DEF StateOk
  <2> QED
    BY <2>1, <1>0, <1>1, SystemWrite
<1>6. m.todo \in Seq(FitWrites(m.kind, m.undoing, m.before))
  BY <1>2, <1>3, FitSame
<1>7. ASSUME m.kind = "update" PROVE UpdateKept(m.before, s2)
  <2>1. UpdateKept(ch.before, s)
    BY <1>0, <1>3, <1>7 DEF ChangeOk
  <2>2. InVersions(w, ch.before)
    BY <1>2, <1>3, <1>7 DEF Fits, RestoreFits, UpdateFits
  <2>3. UpdateKept(ch.before, s2)
    BY <2>1, <2>2, <1>1, <1>2, WriteKept
  <2> QED
    BY <2>3, <1>3, KeptSame
<1>8. ASSUME m.undoing, m.clean PROVE EndsAs(m.todo, s2, UndoGoal(m))
  <2>1. PICK g : g = UndoGoal(ch)
    OBVIOUS
  <2>2. EndsAs(ws, s, g)
    BY <1>0, <1>1, <1>3, <1>8, <2>1 DEF ChangeOk
  <2>3. EndsAs(m.todo, s2, g)
    BY <2>2, <1>1, <1>2, <1>3, EndsOn
  <2>4. Core(g) = Core(UndoGoal(m))
    BY <2>1, <1>3 DEF UndoGoal
  <2> QED
    BY <2>3, <2>4, EndsSame
<1>9. ASSUME td, m.kind = "update" PROVE InOrderSkill(m.before)
  <2>1. InOrderSkill(ch.before)
    BY <1>0, <1>3, <1>9 DEF ChangeOk
  <2> QED
    BY <2>1, <1>3, OrderSame
<1>10. ASSUME td, ~m.undoing PROVE \E goal \in Packages : InOrderSkill(goal) /\ EndsAs(m.todo, s2, goal)
  <2>1. PICK goal \in Packages : InOrderSkill(goal) /\ EndsAs(ws, s, goal)
    BY <1>0, <1>1, <1>3, <1>10 DEF ChangeOk
  <2>2. EndsAs(m.todo, s2, goal)
    BY <2>1, <1>1, <1>2, <1>3, EndsOn
  <2> QED
    BY <2>1, <2>2
<1>11. ASSUME m.kind = "install", ~m.undoing PROVE Promoting(m.todo, s2)
  <2>1. Promoting(ws, s)
    BY <1>0, <1>1, <1>3, <1>11 DEF ChangeOk
  <2> QED
    BY <2>1, <1>1, <1>2, <1>3, PromotingOn
<1>12. ASSUME sy PROVE m.kind \in {"update", "prune"} /\ (m.kind = "update" => SystemPkg(m.before))
  BY <1>0, <1>3, <1>12, OrderSame DEF ChangeOk
<1>13. m.kind # "none" /\ (m.undoing => m.kind \in Making \cup {"update"}) /\ ((~m.undoing \/ td) => m.clean)
  BY <1>0, <1>3 DEF ChangeOk
<1>14. ChangeOk(m, s2, td, sy)
  BY <1>6, <1>7, <1>8, <1>9, <1>10, <1>11, <1>12, <1>13 DEF ChangeOk
<1> QED
  BY <1>3, <1>4, <1>5, <1>14 DEF StateOk

LEMMA EndsNow ==
    ASSUME NEW s \in Packages, NEW goal \in Packages, EndsAs(<<>>, s, goal)
    PROVE  Core(s) = Core(goal) /\ (InOrderSkill(goal) => InOrderSkill(s))
<1>1. \A q \in Slots : SlotOf(s, q) = SlotOf(goal, q)
  BY EndsDone DEF EndsAs
<1>2. Core(s) = Core(goal)
  BY <1>1, CoreBySlots
<1> QED
  BY <1>2, OrderSame

LEMMA WriteEnds ==
    ASSUME NEW ch, NEW s, NEW td \in BOOLEAN, NEW sy \in BOOLEAN, StateOk(ch, s, td, sy), ch # NoChange,
           NEW s2 \in Packages, Wrote(s, ch.todo[1], s2), Tail(ch.todo) = <<>>
    PROVE  /\ StateOk(NoChange, s2, td, sy)
           /\ ch.kind = "install" /\ ~ch.undoing => SystemPkg(s2)
           /\ ch.undoing /\ ch.clean => Core(s2) = Core(UndoGoal(ch))
<1>0. ChangeOk(ch, s, td, sy) /\ ch \in Changes
  BY DEF StateOk
<1>1. PICK w, ws : w = ch.todo[1] /\ ws = ch.todo
  OBVIOUS
<1>2. w \in SkillWrites /\ ws \in Seq(SkillWrites) /\ ws # <<>> /\ Tail(ws) = <<>>
  BY <1>0, <1>1, NextWrite, ChangeParts DEF ChangeOk
<1>b. ch.undoing \in BOOLEAN /\ ch.clean \in BOOLEAN /\ ch.before \in Packages
  BY <1>0, ChangeParts
<1>5. sy => SystemPkg(s2)
  <2>1. sy => SystemPkg(s)
    BY DEF StateOk
  <2> QED
    BY <2>1, <1>0, <1>1, SystemWrite
<1>g. PICK g : g = UndoGoal(ch)
  OBVIOUS
<1>h. g \in Packages
  BY <1>g, <1>b, NoPackageTyped DEF UndoGoal
<1>6. ASSUME ch.undoing, ch.clean PROVE Core(s2) = Core(g) /\ (InOrderSkill(g) => InOrderSkill(s2))
  <2>1. EndsAs(ws, s, g)
    BY <1>0, <1>1, <1>6, <1>g DEF ChangeOk
  <2>2. EndsAs(<<>>, s2, g)
    BY <2>1, <1>1, <1>2, EndsOn
  <2> QED
    BY <2>2, <1>h, EndsNow
<1>7. ASSUME td PROVE InOrderSkill(s2)
  <2>1. CASE ch.undoing
    <3>1. ch.clean
      BY <1>0, <1>7 DEF ChangeOk
    <3>2. InOrderSkill(g)
      <4>1. ch.kind = "update" => InOrderSkill(ch.before)
        BY <1>0, <1>7 DEF ChangeOk
      <4>2. InOrderSkill(NoPackage)
        BY NoPackageTyped DEF InOrderSkill
      <4> QED
        BY <4>1, <4>2, <1>g DEF UndoGoal
    <3> QED
      BY <2>1, <3>1, <3>2, <1>6
  <2>2. CASE ~ch.undoing
    <3>1. PICK goal \in Packages : InOrderSkill(goal) /\ EndsAs(ws, s, goal)
      BY <1>0, <1>1, <1>7, <2>2 DEF ChangeOk
    <3>2. EndsAs(<<>>, s2, goal)
      BY <3>1, <1>1, <1>2, EndsOn
    <3> QED
      BY <3>1, <3>2, EndsNow
  <2> QED
    BY <2>1, <2>2
<1>8. ASSUME ch.kind = "install", ~ch.undoing PROVE SystemPkg(s2)
  <2>1. Promoting(ws, s)
    BY <1>0, <1>1, <1>8 DEF ChangeOk
  <2>2. Promoting(<<>>, s2)
    BY <2>1, <1>1, <1>2, PromotingOn
  <2>3. PICK c \in Bodies : /\ SlotOf(s2, <<"md", 0>>) = c /\ SlotOf(s2, <<"meta", 0>>) = Meta(c, "system")
                            /\ SlotOf(s2, <<"head", 0>>) = HeadOf(1, c, "system")
    BY <2>2, EndsDone DEF Promoting
  <2>4. s2.md = c /\ s2.meta = Meta(c, "system") /\ s2.head = HeadOf(1, c, "system")
    BY <2>3, SlotValues
  <2>5. s2.meta.trust = "system" /\ s2.head.trust = "system" /\ c # Absent
    BY <2>4, SkillFacts DEF Meta, HeadOf
  <2> QED
    BY <2>4, <2>5 DEF SystemPkg
<1> QED
  BY <1>5, <1>6, <1>7, <1>8, <1>g, NoChangeTyped DEF StateOk

LEMMA NoHit ==
    ASSUME NEW w, w.part \in Others, NEW s
    PROVE  Wrote(s, w, s)
  BY SlotParts DEF Wrote, Hits, Others

\* A change was cut off.
Cut(s, sy) == StateOk(NoChange, s, FALSE, sy)

\* A failed removal is of no package that an update or a pruning is about.
LEMMA PartlyOff ==
    ASSUME NEW ch, NEW s, NEW td \in BOOLEAN, NEW sy \in BOOLEAN, StateOk(ch, s, td, sy), ch # NoChange,
           NEW s2 \in Partly(s, ch.todo[1])
    PROVE  /\ s2 \in Packages /\ Cut(s2, sy)
           /\ ch.kind \in {"update", "prune"} => s2 = s
           /\ sy => SystemPkg(s2)
<1>0. ChangeOk(ch, s, td, sy) /\ ch \in Changes /\ s \in Packages /\ (sy => SystemPkg(s))
  BY DEF StateOk
<1>1. PICK w : w = ch.todo[1]
  OBVIOUS
<1>2. w \in SkillWrites /\ Fits(w, ch.kind, ch.undoing, ch.before)
  BY <1>0, <1>1, NextWrite DEF FitWrites
<1>3. s2 \in Packages
  BY <1>0, PartlyTyped
<1>4. ASSUME ch.kind \in {"update", "prune"} PROVE s2 = s
  <2>1. w.part \notin Wholes
    <3>1. CASE ch.kind = "update"
      BY <1>2, <3>1 DEF Fits, UpdateFits, RestoreFits, InVersions
    <3>2. CASE ch.kind = "prune"
      BY <1>2, <3>2 DEF Fits, PruneFits, Wholes
    <3> QED
      BY <1>4, <3>1, <3>2
  <2> QED
    BY <2>1, <1>1, PartlySame
<1>5. sy => ch.kind \in {"update", "prune"}
  BY <1>0 DEF ChangeOk
<1>6. sy => SystemPkg(s2)
  BY <1>0, <1>4, <1>5
<1>7. Cut(s2, sy)
  BY <1>3, <1>6, NoChangeTyped DEF StateOk, Cut
<1> QED
  BY <1>3, <1>4, <1>6, <1>7

LEMMA RestFits ==
    ASSUME NEW ch, NEW s, NEW td, NEW sy, ChangeOk(ch, s, td, sy), NEW m, Follows(ch, m)
    PROVE  m.todo \in Seq(FitWrites(m.kind, m.undoing, m.before))
<1>1. Tail(ch.todo) \in Seq(FitWrites(ch.kind, ch.undoing, ch.before))
  BY NextWrite
<1>2. FitWrites(ch.kind, ch.undoing, ch.before) = FitWrites(ch.kind, ch.undoing, m.before)
  BY FitSame DEF Follows
<1> QED
  BY <1>1, <1>2 DEF Follows

\* A failed write of an undo is skipped.
LEMMA SkipOk ==
    ASSUME NEW ch, NEW s, NEW td \in BOOLEAN, NEW sy \in BOOLEAN, StateOk(ch, s, td, sy), ch # NoChange, ch.undoing,
           NEW s2 \in Partly(s, ch.todo[1]), NEW m, Follows(ch, m), m.clean = FALSE, m.todo # <<>>
    PROVE  StateOk(m, s2, FALSE, sy)
<1>0. ChangeOk(ch, s, td, sy) /\ ch \in Changes
  BY DEF StateOk
<1>1. s2 \in Packages /\ (ch.kind \in {"update", "prune"} => s2 = s) /\ (sy => SystemPkg(s2))
  BY PartlyOff
<1>3. /\ m \in Changes /\ m.kind = ch.kind /\ m.todo = Tail(ch.todo) /\ m.undoing = ch.undoing
      /\ Core(ch.before) = Core(m.before)
  BY DEF Follows
<1>4. m # NoChange
  BY NoChangeTyped
<1>6. m.todo \in Seq(FitWrites(m.kind, m.undoing, m.before))
  BY <1>0, RestFits
<1>7. ASSUME m.kind = "update" PROVE UpdateKept(m.before, s2)
  <2>1. UpdateKept(ch.before, s) /\ s2 = s
    BY <1>0, <1>1, <1>3, <1>7 DEF ChangeOk
  <2> QED
    BY <2>1, <1>3, KeptSame
<1>12. ASSUME sy PROVE m.kind \in {"update", "prune"} /\ (m.kind = "update" => SystemPkg(m.before))
  BY <1>0, <1>3, <1>12, OrderSame DEF ChangeOk
<1>13. m.kind # "none" /\ (m.undoing => m.kind \in Making \cup {"update"})
  BY <1>0, <1>3 DEF ChangeOk
<1>a. m.undoing /\ ~m.clean
  BY <1>3
<1>14. ChangeOk(m, s2, FALSE, sy)
  BY <1>6, <1>7, <1>12, <1>13, <1>a DEF ChangeOk
<1> QED
  BY <1>1, <1>3, <1>4, <1>14 DEF StateOk

IsUndo(u, w, b) ==
    /\ w.fail = "discard" => u = discard_uncommitted_package
    /\ w.fail = "discard_twice" => u = discard_uncommitted_package \o discard_uncommitted_package
    /\ w.fail = "restore" => u = restore_failed_update(b)

Undoing(ch, u) == [ch EXCEPT !.todo = u, !.undoing = TRUE]

\* An undo will leave what there was before.
LEMMA UndoOk ==
    ASSUME NEW ch, NEW s, NEW td \in BOOLEAN, NEW sy \in BOOLEAN, StateOk(ch, s, td, sy), ch # NoChange,
           NEW w, w = ch.todo[1], w.fail \in {"discard", "discard_twice", "restore"},
           NEW s2 \in Partly(s, w), NEW u, IsUndo(u, w, ch.before), NEW m, m = Undoing(ch, u)
    PROVE  StateOk(m, s2, td, sy) /\ u # <<>> /\ m.todo = u
<1>0. ChangeOk(ch, s, td, sy) /\ ch \in Changes
  BY DEF StateOk
<1>1. s2 \in Packages /\ (ch.kind \in {"update", "prune"} => s2 = s) /\ (sy => SystemPkg(s2))
  BY PartlyOff
<1>2. w \in SkillWrites /\ Fits(w, ch.kind, ch.undoing, ch.before)
  BY <1>0, NextWrite DEF FitWrites
<1>3. ch.kind \in Kinds /\ ch.undoing \in BOOLEAN /\ ch.clean \in BOOLEAN /\ ch.before \in Packages
  BY <1>0, ChangeParts
<1>4. ch.kind # "none" /\ (sy => ch.kind \in {"update", "prune"} /\ (ch.kind = "update" => SystemPkg(ch.before)))
  BY <1>0 DEF ChangeOk
<1>5. ~ch.undoing
  <2>1. SUFFICES ASSUME ch.undoing PROVE FALSE
    OBVIOUS
  <2>2. w.fail = "ignore"
    BY <1>0, <1>2, <2>1 DEF ChangeOk, Fits, DiscardFits, RestoreFits
  <2> QED
    BY <2>2
<1>6. \/ ch.kind \in Making /\ w.fail \in {"discard", "discard_twice"}
      \/ ch.kind = "update" /\ w.fail = "restore"
  <2>1. CASE ch.kind \in Making
    BY <1>2, <1>5, <2>1 DEF Fits, CreateFits
  <2>2. CASE ch.kind = "update"
    BY <1>2, <1>5, <2>2 DEF Fits, UpdateFits
  <2>3. CASE ch.kind = "delete"
    BY <1>2, <2>3 DEF Fits, DeleteFits
  <2>4. CASE ch.kind = "prune"
    BY <1>2, <2>4 DEF Fits, PruneFits
  <2> QED
    BY <1>3, <1>4, <2>1, <2>2, <2>3, <2>4 DEF Kinds
<1>7. ch.clean
  BY <1>0, <1>5 DEF ChangeOk
<1>m. PICK b : b = ch.before
  OBVIOUS
<1>8. ASSUME ch.kind = "update"
      PROVE  /\ u \in Seq(FitWrites("update", TRUE, b)) /\ u # <<>> /\ EndsAs(u, s2, b)
             /\ UpdateKept(b, s2)
  <2>1. u = restore_failed_update(b) /\ s2 = s
    BY <1>1, <1>6, <1>8, <1>m DEF IsUndo, Making
  <2>2. UpdateKept(b, s)
    BY <1>0, <1>8, <1>m DEF ChangeOk
  <2>3. u \in Seq(RestoreWrites(b))
    BY <2>1, <2>2, <1>3, <1>m, RestoreTyped DEF UpdateKept
  <2>4. RestoreWrites(b) \subseteq FitWrites("update", TRUE, b)
    BY DEF RestoreWrites, FitWrites, Fits, Making
  <2>f. PICK F : F = FitWrites("update", TRUE, b)
    OBVIOUS
  <2>g. RestoreWrites(b) \subseteq F
    BY <2>4, <2>f, Zenon
  <2>5. u \in Seq(F)
    BY <2>3, <2>g
  <2>6. EndsAs(u, s2, b)
    <3>1. PICK old \in Versions, next \in Versions : old = b.head.active /\ next = b.head.active + 1
      BY <2>2 DEF UpdateKept
    <3>2. \A v \in Versions \ {old, next} : s.body[v] = b.body[v] /\ s.rec[v] = b.rec[v]
      BY <2>2, <3>1 DEF UpdateKept
    <3> QED
      BY <2>1, <3>1, <3>2, <1>3, <1>m, RestoreEnds
  <2>7. u # <<>>
    BY <2>1 DEF restore_failed_update
  <2> QED
    BY <2>1, <2>2, <2>5, <2>6, <2>7, <2>f, Zenon
<1>9. ASSUME ch.kind \in Making
      PROVE  /\ u \in Seq(FitWrites(ch.kind, TRUE, b)) /\ u # <<>> /\ EndsAs(u, s2, NoPackage)
  <2>1. u = discard_uncommitted_package \/ u = discard_uncommitted_package \o discard_uncommitted_package
    BY <1>6, <1>9 DEF IsUndo, Making
  <2>2. u \in Seq(DiscardWrites) /\ Removes(u)
    BY <2>1, DiscardTyped, DiscardRemoves, TwiceRemoves
  <2>3. DiscardWrites \subseteq FitWrites(ch.kind, TRUE, b)
    BY <1>9 DEF DiscardWrites, FitWrites, Fits, Making
  <2>f. PICK F : F = FitWrites(ch.kind, TRUE, b)
    OBVIOUS
  <2>g. DiscardWrites \subseteq F
    BY <2>3, <2>f, Zenon
  <2>4. u \in Seq(F)
    BY <2>2, <2>g
  <2>5. u # <<>> /\ EndsAs(u, s2, NoPackage)
    BY <2>2, RemovesSome
  <2> QED
    BY <2>4, <2>5, <2>f, Zenon
<1>10. /\ m.kind = ch.kind /\ m.todo = u /\ m.undoing = TRUE /\ m.clean = ch.clean /\ m.before = b
       /\ m.tab = ch.tab
  BY <1>0, <1>m DEF Changes, Undoing
<1>11. u \in Seq(FitWrites(m.kind, TRUE, m.before)) /\ u # <<>> /\ EndsAs(u, s2, UndoGoal(m))
  <2>1. CASE ch.kind = "update"
    <3>1. UndoGoal(m) = b
      BY <2>1, <1>10 DEF UndoGoal
    <3> QED
      BY <2>1, <3>1, <1>8, <1>10, Zenon
  <2>2. CASE ch.kind \in Making
    <3>1. UndoGoal(m) = NoPackage
      BY <2>2, <1>10 DEF UndoGoal, Making
    <3> QED
      BY <2>2, <3>1, <1>9, <1>10, Zenon
  <2> QED
    BY <1>6, <2>1, <2>2
<1>12. m \in Changes
  <2>1. PICK F : F = FitWrites(m.kind, TRUE, m.before)
    OBVIOUS
  <2>2. u \in Seq(F)
    BY <1>11, <2>1, Zenon
  <2>3. F \subseteq SkillWrites
    BY <2>1 DEF FitWrites
  <2>4. u \in Seq(SkillWrites)
    BY <2>2, <2>3
  <2> QED
    BY <2>4, <1>0 DEF Changes, Undoing
<1>13. ChangeOk(m, s2, td, sy)
  <2>1. m.kind # "none" /\ m.todo # <<>> /\ m.todo \in Seq(FitWrites(m.kind, m.undoing, m.before))
    BY <1>4, <1>10, <1>11, Zenon
  <2>2. m.undoing /\ m.clean /\ m.kind \in Making \cup {"update"}
    BY <1>6, <1>7, <1>10
  <2>3. EndsAs(m.todo, s2, UndoGoal(m))
    BY <1>10, <1>11
  <2>4. m.kind = "update" => UpdateKept(m.before, s2)
    BY <1>8, <1>10
  <2>5. td /\ m.kind = "update" => InOrderSkill(m.before)
    BY <1>0, <1>10, <1>m DEF ChangeOk
  <2>6. sy => m.kind \in {"update", "prune"} /\ (m.kind = "update" => SystemPkg(m.before))
    BY <1>4, <1>10, <1>m
  <2> QED
    BY <2>1, <2>2, <2>3, <2>4, <2>5, <2>6 DEF ChangeOk
<1>14. m # NoChange
  BY <1>10, <1>11, NoChangeTyped
<1> QED
  BY <1>1, <1>10, <1>11, <1>12, <1>13, <1>14 DEF StateOk

-----------------------------------------------------------------------------
(* Its steps. *)

LEMMA SkillStart == SkillInit => SkillInv
<1> SUFFICES ASSUME SkillInit PROVE SkillInv
  OBVIOUS
<1>1. InOrderSkill(NoPackage) /\ NoPackage \in Packages
  BY NoPackageTyped DEF InOrderSkill
<1>2. \A c \in Bodies : Created(c) \in Packages /\ InOrderSkill(Created(c))
  BY FreshFits, CreatedIsFresh DEF Trusts
<1>3. pkg \in Packages /\ InOrderSkill(pkg)
  BY <1>1, <1>2 DEF SkillInit
<1>4. StateOk(change, pkg, tidy, system)
  BY <1>3, NoChangeTyped DEF SkillInit, StateOk
<1>5. NoRead \in [at : {"idle", "list", "load", "put_file", "write"}, saw : MaybeBody] /\ Absent \in MaybeBody
  BY DEF NoRead, MaybeBody
<1>6. /\ reader \in [Tabs -> [at : {"idle", "list", "load", "put_file", "write"}, saw : MaybeBody]]
      /\ discovery \in [Tabs -> MaybeBody]
  BY <1>5 DEF SkillInit
<1>z. 0 \in 0..MaxSkillFaults
  BY SkillFacts
<1>7. system \in BOOLEAN /\ tidy \in BOOLEAN /\ skillFaults \in 0..MaxSkillFaults
  BY <1>z DEF SkillInit
<1> QED
  BY <1>4, <1>6, <1>7 DEF SkillInv

LEMMA BeginInv ==
    ASSUME SkillInv, NEW t \in Tabs, NEW k \in Kinds, k # "none", NEW ws, BeginChange(t, k, ws), NEW s, s = pkg,
           ws \in Seq(FitWrites(k, FALSE, s)), ws # <<>>,
           k = "update" => s.head.active \in Versions /\ s.head.active + 1 \in Versions /\ s.md # Absent,
           tidy => \E goal \in Packages : InOrderSkill(goal) /\ EndsAs(ws, s, goal),
           k = "install" => Promoting(ws, s),
           system => k \in {"update", "prune"}
    PROVE  SkillInv'
<1>1. PICK td, sy, ch : td = tidy /\ sy = system /\ ch = change'
  OBVIOUS
<1>2. td \in BOOLEAN /\ sy \in BOOLEAN /\ StateOk(NoChange, s, td, sy)
  BY <1>1 DEF SkillInv, BeginChange
<1>3. ch = Begun(t, k, ws, s)
  BY <1>1 DEF BeginChange, NoChange, Begun
<1>4. StateOk(Begun(t, k, ws, s), s, td, sy)
  BY <1>1, <1>2, BeginOk
<1>5. /\ pkg' = s /\ tidy' = td /\ system' = sy /\ change' = ch /\ reader' = reader /\ discovery' = discovery
      /\ skillFaults' = skillFaults
  BY <1>1 DEF BeginChange
<1>6. StateOk(change', pkg', tidy', system')
  BY <1>3, <1>4, <1>5
<1> QED
  BY <1>2, <1>5, <1>6 DEF SkillInv

\* Where the name is free, nothing is left of an earlier package, unless an
\* undo failed; and there is no system package.
LEMMA FreeName ==
    ASSUME SkillInv, change = NoChange, pkg.md = Absent
    PROVE  ~system /\ (tidy => Bare(pkg))
<1>1. tidy => Core(pkg) = Core(NoPackage)
  BY DEF SkillInv, StateOk, InOrderSkill
<1>2. tidy => pkg.body = NoPackage.body /\ pkg.rec = NoPackage.rec
  BY <1>1, SlotsByCore
<1>3. ~system
  BY DEF SkillInv, StateOk, SystemPkg
<1> QED
  BY <1>2, <1>3, NoPackageTyped DEF Bare

LEMMA MakeInv ==
    ASSUME SkillInv, NEW t \in Tabs, NEW k \in Making, NEW c \in Bodies, NEW tr \in Trusts, NEW ws,
           FreshWrites(ws, c, tr), k = "install" => tr = "system", NameFree, BeginChange(t, k, ws)
    PROVE  SkillInv'
<1>0. PICK s : s = pkg
  OBVIOUS
<1>1. ~system /\ (tidy => Bare(s))
  BY <1>0, FreeName DEF NameFree, BeginChange
<1>2. ws \in Seq(CreateWrites)
  BY DEF FreshWrites
<1>3. CreateWrites \subseteq FitWrites(k, FALSE, s)
  BY DEF CreateWrites, FitWrites, Fits, Making
<1>f. PICK F : F = FitWrites(k, FALSE, s)
  OBVIOUS
<1>g. CreateWrites \subseteq F
  BY <1>3, <1>f, Zenon
<1>4. ws \in Seq(F)
  BY <1>2, <1>g
<1>5. ws # <<>>
  BY HitsSome DEF FreshWrites
<1>6. tidy => \E goal \in Packages : InOrderSkill(goal) /\ EndsAs(ws, s, goal)
  BY <1>1, FreshEnds, FreshFits
<1>7. k = "install" => Promoting(ws, s)
  BY DEF FreshWrites, Promoting, Ends
<1>8. k \in Kinds /\ k # "none" /\ k # "update"
  BY DEF Making, Kinds
<1>9. ws \in Seq(FitWrites(k, FALSE, s))
  BY <1>4, <1>f, Zenon
<1> QED
  BY <1>0, <1>1, <1>5, <1>6, <1>7, <1>8, <1>9, BeginInv

LEMMA CreateStep ==
    ASSUME SkillInv, NEW t \in Tabs, CreateSkill(t)
    PROVE  SkillInv'
<1>1. PICK c \in Bodies : BeginChange(t, "create", create_skill_unlocked(c, "discard"))
  BY DEF CreateSkill
<1>2. PICK ws : ws = create_skill_unlocked(c, "discard")
  OBVIOUS
<1>3. FreshWrites(ws, c, "trusted") /\ "trusted" \in Trusts /\ "create" \in Making /\ NameFree
  BY <1>2, CreateSlots DEF Trusts, Making, CreateSkill
<1>4. PICK k \in Making : k = "create"
  BY <1>3
<1>5. BeginChange(t, k, ws)
  BY <1>1, <1>2, <1>4
<1> QED
  BY <1>3, <1>4, <1>5, MakeInv

LEMMA ImportStep ==
    ASSUME SkillInv, NEW t \in Tabs, ImportPackage(t)
    PROVE  SkillInv'
<1>1. PICK c \in Bodies : BeginChange(t, "import", import_package_unlocked(c))
  BY DEF ImportPackage
<1>2. PICK ws : ws = import_package_unlocked(c)
  OBVIOUS
<1>3. FreshWrites(ws, c, "trusted") /\ "trusted" \in Trusts /\ "import" \in Making /\ NameFree
  BY <1>2, ImportSlots DEF Trusts, Making, ImportPackage
<1>4. PICK k \in Making : k = "import"
  BY <1>3
<1>5. BeginChange(t, k, ws)
  BY <1>1, <1>2, <1>4
<1> QED
  BY <1>3, <1>4, <1>5, MakeInv

LEMMA InstallStep ==
    ASSUME SkillInv, NEW t \in Tabs, InstallSystemPackage(t)
    PROVE  SkillInv'
<1>1. PICK c \in Bodies : BeginChange(t, "install", import_package_unlocked(c) \o Promotion(c))
  BY DEF InstallSystemPackage
<1>2. PICK ws : ws = import_package_unlocked(c) \o Promotion(c)
  OBVIOUS
<1>3. FreshWrites(ws, c, "system") /\ "system" \in Trusts /\ "install" \in Making /\ NameFree
  BY <1>2, InstallSlots DEF Trusts, Making, InstallSystemPackage
<1>4. PICK k \in Making : k = "install"
  BY <1>3
<1>5. BeginChange(t, k, ws)
  BY <1>1, <1>2, <1>4
<1> QED
  BY <1>3, <1>4, <1>5, MakeInv

LEMMA UpdateInv ==
    ASSUME SkillInv, NEW t \in Tabs, Updatable, NEW c \in Bodies, NEW s, s = pkg, NEW ws, UpdateLists(ws, c, s),
           BeginChange(t, "update", ws)
    PROVE  SkillInv'
<1>1. s \in Packages /\ (tidy => InOrderSkill(s))
  BY DEF SkillInv, StateOk, BeginChange
<1>2. s.md # Absent /\ s.head # NoHead /\ s.head.active < MaxVersion
  BY DEF Updatable
<1>3. s.head.active \in Versions /\ s.head.active + 1 \in Versions
  BY <1>1, <1>2, PkgParts, HeadParts, SkillFacts
<1>4. ws \in Seq(UpdateWrites(s))
  BY DEF UpdateLists
<1>5. UpdateWrites(s) \subseteq FitWrites("update", FALSE, s)
  BY DEF UpdateWrites, FitWrites, Fits, Making
<1>f. PICK F : F = FitWrites("update", FALSE, s)
  OBVIOUS
<1>g. UpdateWrites(s) \subseteq F
  BY <1>5, <1>f, Zenon
<1>6. ws \in Seq(F)
  BY <1>4, <1>g
<1>7. ws # <<>>
  BY HitsSome DEF UpdateLists
<1>8. tidy => \E goal \in Packages : InOrderSkill(goal) /\ EndsAs(ws, s, goal)
  <2>1. SUFFICES ASSUME tidy PROVE \E goal \in Packages : InOrderSkill(goal) /\ EndsAs(ws, s, goal)
    OBVIOUS
  <2>2. Updated(s, c) \in Packages /\ InOrderSkill(Updated(s, c)) /\ s.rec[s.head.active] = "active"
    BY <2>1, <1>1, <1>2, <1>3, UpdatedFits
  <2>3. s.rec[s.head.active] # Absent
    BY <2>2 DEF Absent
  <2>4. EndsAs(ws, s, Updated(s, c))
    BY <2>3, <1>1, <1>3, UpdateEnds
  <2> QED
    BY <2>2, <2>4
<1>9. ws \in Seq(FitWrites("update", FALSE, s))
  BY <1>6, <1>f, Zenon
<1>10. PICK k \in Kinds : k = "update"
  BY DEF Kinds
<1>11. ws \in Seq(FitWrites(k, FALSE, s))
  BY <1>9, <1>10, Zenon
<1>12. BeginChange(t, k, ws) /\ k # "none" /\ k # "install" /\ k \in {"update", "prune"}
  BY <1>10
<1> QED
  BY <1>2, <1>3, <1>7, <1>8, <1>11, <1>12, BeginInv

LEMMA UpdateStep ==
    ASSUME SkillInv, NEW t \in Tabs, UpdateSkill(t)
    PROVE  SkillInv'
<1>1. PICK c \in Bodies : BeginChange(t, "update", update_skill_locked(c))
  BY DEF UpdateSkill
<1>2. PICK ws, s : ws = update_skill_locked(c) /\ s = pkg
  OBVIOUS
<1>3. s \in Packages /\ Updatable
  BY <1>2 DEF SkillInv, StateOk, UpdateSkill
<1>4. s.head.active \in Versions /\ s.head.active + 1 \in Versions
  BY <1>2, <1>3, PkgParts, HeadParts, SkillFacts DEF Updatable
<1>5. UpdateLists(ws, c, s)
  BY <1>2, <1>3, <1>4, UpdateSlots
<1>6. BeginChange(t, "update", ws)
  BY <1>1, <1>2 DEF BeginChange
<1> QED
  BY <1>2, <1>3, <1>5, <1>6, UpdateInv

LEMMA RollbackStep ==
    ASSUME SkillInv, NEW t \in Tabs, RollbackSkill(t)
    PROVE  SkillInv'
<1>1. PICK v \in Versions : pkg.body[v] # Absent
                            /\ BeginChange(t, "update", RegisteredIndex(pkg.md) \o update_skill_locked(pkg.body[v]))
  BY DEF RollbackSkill
<1>2. PICK s, c : s = pkg /\ c = pkg.body[v]
  OBVIOUS
<1>3. s \in Packages /\ Updatable
  BY <1>2 DEF SkillInv, StateOk, RollbackSkill
<1>c. c \in Bodies
  <2>1. s.body \in [Versions -> MaybeBody]
    BY <1>3, PkgParts
  <2> QED
    BY <2>1, <1>1, <1>2 DEF MaybeBody
<1>w. PICK ws : ws = RegisteredIndex(s.md) \o update_skill_locked(c)
  OBVIOUS
<1>4. s.head.active \in Versions /\ s.head.active + 1 \in Versions
  BY <1>2, <1>3, PkgParts, HeadParts, SkillFacts DEF Updatable
<1>5. UpdateLists(ws, c, s)
  BY <1>2, <1>3, <1>4, <1>c, <1>w, RollbackSlots
<1>6. BeginChange(t, "update", ws)
  BY <1>1, <1>2, <1>w DEF BeginChange
<1> QED
  BY <1>2, <1>3, <1>5, <1>6, <1>c, UpdateInv

LEMMA DeleteInv ==
    ASSUME SkillInv, NEW t \in Tabs, NEW ws \in Seq(DeleteWrites), Removes(ws), ~system, BeginChange(t, "delete", ws)
    PROVE  SkillInv'
<1>0. PICK s : s = pkg
  OBVIOUS
<1>1. DeleteWrites \subseteq FitWrites("delete", FALSE, s)
  BY DEF DeleteWrites, FitWrites, Fits, Making
<1>f. PICK F : F = FitWrites("delete", FALSE, s)
  OBVIOUS
<1>g. DeleteWrites \subseteq F
  BY <1>1, <1>f, Zenon
<1>2. ws \in Seq(F)
  BY <1>g
<1>3. ws # <<>> /\ EndsAs(ws, s, NoPackage)
  BY RemovesSome
<1>4. NoPackage \in Packages /\ InOrderSkill(NoPackage)
  BY NoPackageTyped DEF InOrderSkill
<1>5. PICK k \in Kinds : k = "delete"
  BY DEF Kinds
<1>6. ws \in Seq(FitWrites(k, FALSE, s))
  BY <1>2, <1>5, <1>f, Zenon
<1>7. BeginChange(t, k, ws) /\ k # "none" /\ k # "install" /\ k # "update"
  BY <1>5
<1> QED
  BY <1>0, <1>3, <1>4, <1>6, <1>7, BeginInv

LEMMA DeleteStep ==
    ASSUME SkillInv, NEW t \in Tabs, DeleteSkill(t) \/ ClearAllSkills(t)
    PROVE  SkillInv'
<1>1. ~system
  BY DEF SkillInv, StateOk, SystemPkg, DeleteSkill, ClearAllSkills, IsSystem
<1>2. PICK ws : /\ ws = delete_skill \/ ws = clear_all_skills
                /\ BeginChange(t, "delete", ws)
  BY DEF DeleteSkill, ClearAllSkills
<1>3. ws \in Seq(DeleteWrites) /\ Removes(ws)
  BY <1>2, DeleteTyped, DeleteRemoves, ClearRemoves
<1> QED
  BY <1>1, <1>2, <1>3, DeleteInv

LEMMA PruneStep ==
    ASSUME SkillInv, NEW t \in Tabs, Prune(t)
    PROVE  SkillInv'
<1>0. PICK s : s = pkg
  OBVIOUS
<1>1. PICK vs \in [1 .. Cardinality(Prunable) -> Prunable] :
         /\ \A i, j \in DOMAIN vs : i < j => vs[i] > vs[j]
         /\ BeginChange(t, "prune", prune(vs))
  BY DEF Prune
<1>2. PICK n \in Nat : n = Cardinality(Prunable)
  BY PrunableFinite
<1>3. PICK ws : ws = prune(vs)
  OBVIOUS
<1>4. vs \in [1..n -> Versions] /\ DOMAIN vs = 1..n /\ \A i \in 1..n : vs[i] \in Prunable
  BY <1>1, <1>2, PrunableFinite
<1>5. PICK gone : gone = {vs[i] : i \in 1..n}
  OBVIOUS
<1>6. s \in Packages /\ s.md # Absent /\ (tidy => InOrderSkill(s))
  BY <1>0, <1>1 DEF SkillInv, StateOk, Prune, BeginChange
<1>7. ws \in Seq(PruneWrites) /\ ws # <<>> /\ EndsAs(ws, s, Trimmed(s, gone))
  BY <1>0, <1>1, <1>3, <1>4, <1>5, <1>6, PruneEnds
<1>8. tidy => \E goal \in Packages : InOrderSkill(goal) /\ EndsAs(ws, s, goal)
  <2>1. SUFFICES ASSUME tidy PROVE \E goal \in Packages : InOrderSkill(goal) /\ EndsAs(ws, s, goal)
    OBVIOUS
  <2>2. InOrderSkill(s)
    BY <2>1, <1>6
  <2>3. s.head.active \notin Prunable
    BY <2>2, <1>0, <1>6, ActiveStays
  <2>4. s.head.active \notin gone
    BY <2>3, <1>4, <1>5
  <2>5. InOrderSkill(Trimmed(s, gone)) /\ Trimmed(s, gone) \in Packages
    BY <2>2, <2>4, <1>6, PrunedFits, PrunedParts
  <2> QED
    BY <2>5, <1>7
<1>9. PruneWrites \subseteq FitWrites("prune", FALSE, s)
  BY DEF PruneWrites, FitWrites, Fits, Making
<1>f. PICK F : F = FitWrites("prune", FALSE, s)
  OBVIOUS
<1>g. PruneWrites \subseteq F
  BY <1>9, <1>f, Zenon
<1>10. ws \in Seq(F)
  BY <1>7, <1>g
<1>11. PICK k \in Kinds : k = "prune"
  BY DEF Kinds
<1>12. ws \in Seq(FitWrites(k, FALSE, s))
  BY <1>10, <1>11, <1>f, Zenon
<1>13. BeginChange(t, k, ws) /\ k # "none" /\ k # "install" /\ k # "update" /\ k \in {"update", "prune"}
  BY <1>1, <1>3, <1>11 DEF BeginChange
<1> QED
  BY <1>0, <1>7, <1>8, <1>12, <1>13, BeginInv

ReaderStates == [at : {"idle", "list", "load", "put_file", "write"}, saw : MaybeBody]

\* A step that leaves the change and the core of the package alone.
LEMMA QuietInv ==
    ASSUME SkillInv, UNCHANGED <<change, system, tidy>>, pkg' \in Packages, Core(pkg) = Core(pkg'),
           reader' \in [Tabs -> ReaderStates], discovery' \in [Tabs -> MaybeBody], skillFaults' \in 0..MaxSkillFaults
    PROVE  SkillInv'
<1>1. PICK ch, s, s2, td, sy : ch = change /\ s = pkg /\ s2 = pkg' /\ td = tidy /\ sy = system
  OBVIOUS
<1>2. td \in BOOLEAN /\ sy \in BOOLEAN /\ StateOk(ch, s, td, sy)
  BY <1>1 DEF SkillInv
<1>3. StateOk(ch, s2, td, sy)
  BY <1>1, <1>2, QuietOk
<1>4. StateOk(change', pkg', tidy', system') /\ system' \in BOOLEAN /\ tidy' \in BOOLEAN
  BY <1>1, <1>2, <1>3
<1> QED
  BY <1>4 DEF SkillInv, ReaderStates

LEMMA IndexAlone ==
    ASSUME NEW s \in Packages, NEW c \in MaybeBody
    PROVE  /\ [s EXCEPT !.index = c] \in Packages /\ Core(s) = Core([s EXCEPT !.index = c])
           /\ [s EXCEPT !.res = TRUE] \in Packages /\ Core(s) = Core([s EXCEPT !.res = TRUE])
<1>1. [s EXCEPT !.index = c] \in Packages /\ [s EXCEPT !.res = TRUE] \in Packages
  BY DEF Packages
<1> QED
  BY <1>1 DEF Core, Packages

LEMMA ReadStepInv ==
    ASSUME SkillInv, NEW t \in Tabs, ReadStep(t)
    PROVE  SkillInv'
<1>0. /\ pkg \in Packages /\ reader \in [Tabs -> ReaderStates] /\ discovery \in [Tabs -> MaybeBody]
      /\ skillFaults \in 0..MaxSkillFaults
  BY DEF SkillInv, StateOk, ReaderStates
<1>n. NoRead \in ReaderStates /\ Absent \in MaybeBody
  BY DEF NoRead, ReaderStates, MaybeBody
<1>r. reader[t].at \in {"idle", "list", "load", "put_file", "write"} /\ reader[t].saw \in MaybeBody
  BY <1>0 DEF ReaderStates
<1>1. CASE ReadRaw(t)
  <2>1. PICK why \in {"list", "load", "put_file"} : reader' = [reader EXCEPT ![t] = [at |-> why, saw |-> pkg.md]]
    BY <1>1 DEF ReadRaw
  <2>2. [at |-> why, saw |-> pkg.md] \in ReaderStates
    BY <1>0, PkgParts DEF ReaderStates
  <2>3. reader' \in [Tabs -> ReaderStates]
    BY <2>1, <2>2, <1>0
  <2>4. UNCHANGED <<change, system, tidy>> /\ pkg' = pkg /\ discovery' = discovery /\ skillFaults' = skillFaults
    BY <1>1 DEF ReadRaw
  <2> QED
    BY <2>3, <2>4, <1>0, QuietInv
<1>2. CASE ListNothing(t)
  <2>1. discovery' \in [Tabs -> MaybeBody]
    BY <1>0, <1>2, <1>n DEF ListNothing
  <2>2. UNCHANGED <<change, system, tidy>> /\ pkg' = pkg /\ reader' = reader /\ skillFaults' = skillFaults
    BY <1>2 DEF ListNothing
  <2> QED
    BY <2>1, <2>2, <1>0, QuietInv
<1>3. CASE PutFile(t)
  <2>1. pkg' \in Packages /\ Core(pkg) = Core(pkg')
    BY <1>0, <1>3, <1>n, IndexAlone DEF PutFile
  <2>2. reader' \in [Tabs -> ReaderStates]
    BY <1>0, <1>3, <1>n DEF PutFile
  <2>3. UNCHANGED <<change, system, tidy>> /\ discovery' = discovery /\ skillFaults' = skillFaults
    BY <1>3 DEF PutFile
  <2> QED
    BY <2>1, <2>2, <2>3, <1>0, QuietInv
<1>4. CASE RefreshIndex(t)
  <2>0. PICK c \in MaybeBody : c = reader[t].saw
    BY <1>r
  <2>1. UNCHANGED <<change, system, tidy>> /\ (pkg' = pkg \/ pkg' = [pkg EXCEPT !.index = c])
    BY <1>4, <2>0 DEF RefreshIndex
  <2>2. pkg' \in Packages /\ Core(pkg) = Core(pkg')
    BY <2>1, <1>0, IndexAlone
  <2>3. discovery' = [discovery EXCEPT ![t] = c] \/ discovery' = discovery
    BY <1>4, <2>0 DEF RefreshIndex
  <2>4. discovery' \in [Tabs -> MaybeBody]
    BY <2>3, <1>0
  <2>5. \/ reader' = [reader EXCEPT ![t] = [reader[t] EXCEPT !.at = "write"]]
        \/ reader' = [reader EXCEPT ![t] = NoRead]
    BY <1>4 DEF RefreshIndex
  <2>6. [reader[t] EXCEPT !.at = "write"] \in ReaderStates
    BY <1>0 DEF ReaderStates
  <2>7. reader' \in [Tabs -> ReaderStates]
    BY <2>5, <2>6, <1>0, <1>n
  <2>8. skillFaults' = skillFaults \/ (skillFaults < MaxSkillFaults /\ skillFaults' = skillFaults + 1)
    BY <1>4 DEF RefreshIndex
  <2>9. skillFaults' \in 0..MaxSkillFaults
    BY <2>8, <1>0, SkillFacts
  <2> QED
    BY <2>1, <2>2, <2>4, <2>7, <2>9, QuietInv
<1> QED
  BY <1>1, <1>2, <1>3, <1>4 DEF ReadStep

LEMMA CloseStep ==
    ASSUME SkillInv, NEW t \in Tabs, CloseTab(t)
    PROVE  SkillInv'
<1>0. /\ reader \in [Tabs -> ReaderStates] /\ discovery \in [Tabs -> MaybeBody]
      /\ skillFaults \in 0..MaxSkillFaults /\ NoRead \in ReaderStates /\ Absent \in MaybeBody
  BY DEF SkillInv, ReaderStates, NoRead, MaybeBody
<1>1. reader' \in [Tabs -> ReaderStates] /\ discovery' \in [Tabs -> MaybeBody]
  BY <1>0 DEF CloseTab
<1>2. skillFaults' \in 0..MaxSkillFaults
  BY <1>0, SkillFacts DEF CloseTab
<1>3. PICK ch, s, td, sy : ch = change /\ s = pkg /\ td = tidy /\ sy = system
  OBVIOUS
<1>4. td \in BOOLEAN /\ sy \in BOOLEAN /\ StateOk(ch, s, td, sy)
  BY <1>3 DEF SkillInv
<1>5. CASE change.tab = t
  <2>1. change' = NoChange /\ tidy' = FALSE /\ pkg' = s /\ system' = sy
    BY <1>3, <1>5 DEF CloseTab
  <2>2. StateOk(NoChange, s, FALSE, sy)
    BY <1>4, CutOff
  <2>3. StateOk(change', pkg', tidy', system') /\ system' \in BOOLEAN /\ tidy' \in BOOLEAN
    BY <2>1, <2>2, <1>4
  <2> QED
    BY <2>3, <1>1, <1>2 DEF SkillInv, ReaderStates
<1>6. CASE change.tab # t
  <2>1. change' = ch /\ tidy' = td /\ pkg' = s /\ system' = sy
    BY <1>3, <1>4, <1>6 DEF CloseTab
  <2>3. StateOk(change', pkg', tidy', system') /\ system' \in BOOLEAN /\ tidy' \in BOOLEAN
    BY <2>1, <1>4
  <2> QED
    BY <2>3, <1>1, <1>2 DEF SkillInv, ReaderStates
<1> QED
  BY <1>5, <1>6

LEMMA RestParts ==
    ASSUME NEW ch, ch = change, ch \in Changes, ch.todo # <<>>, pkg' \in Packages, NEW w, NEW m, m = Rest(w)
    PROVE  Follows(ch, m) /\ m.clean = ch.clean /\ m.tab = ch.tab
<1>1. PICK n : n = [ch EXCEPT !.todo = Tail(ch.todo)]
  OBVIOUS
<1>2. /\ n.kind = ch.kind /\ n.todo = Tail(ch.todo) /\ n.undoing = ch.undoing /\ n.clean = ch.clean
      /\ n.before = ch.before /\ n.tab = ch.tab
  BY <1>1 DEF Changes
<1>3. Tail(ch.todo) \in Seq(SkillWrites)
  BY ChangeParts
<1>4. n \in Changes
  BY <1>1, <1>3 DEF Changes
<1>5. PICK b : b = [ch.before EXCEPT !.index = pkg'.index]
  OBVIOUS
<1>6. b \in Packages /\ Core(ch.before) = Core(b)
  BY <1>5, ChangeParts, PkgParts, IndexAlone
<1>7. PICK z : z = [n EXCEPT !.before = b]
  OBVIOUS
<1>8. /\ z.kind = ch.kind /\ z.todo = Tail(ch.todo) /\ z.undoing = ch.undoing /\ z.clean = ch.clean
      /\ z.before = b /\ z.tab = ch.tab
  BY <1>2, <1>4, <1>7 DEF Changes
<1>9. z \in Changes
  BY <1>4, <1>6, <1>7 DEF Changes
<1>10. m = z \/ m = n
  BY <1>1, <1>2, <1>5, <1>7 DEF Rest
<1> QED
  BY <1>2, <1>4, <1>6, <1>8, <1>9, <1>10 DEF Follows

\* A write that does not go to the store touches no slot.
LEMMA WriteWrote ==
    ASSUME NEW s \in Packages, NEW w \in SkillWrites, NEW t,
           NEW s2, s2 = IF CanFail(w, t) THEN AfterWrite(s, w) ELSE s
    PROVE  s2 \in Packages /\ Wrote(s, w, s2)
<1>1. CASE CanFail(w, t)
  BY <1>1, AfterTyped, AfterSlots
<1>2. CASE ~CanFail(w, t)
  <2>1. w.part \in Others
    BY <1>2 DEF CanFail, Others
  <2> QED
    BY <1>2, <2>1, NoHit
<1> QED
  BY <1>1, <1>2

LEMMA WriteOkStep ==
    ASSUME SkillInv, WriteOk
    PROVE  /\ SkillInv'
           /\ UndoRestores
<1>0. PICK ch, s, s2, td, sy, w : /\ ch = change /\ s = pkg /\ s2 = pkg' /\ td = tidy /\ sy = system
                                  /\ w = Head(change.todo)
  OBVIOUS
<1>1. td \in BOOLEAN /\ sy \in BOOLEAN /\ StateOk(ch, s, td, sy) /\ ch # NoChange
  BY <1>0 DEF SkillInv, WriteOk
<1>2. ChangeOk(ch, s, td, sy) /\ ch \in Changes /\ s \in Packages
  BY <1>1 DEF StateOk
<1>3. w = ch.todo[1] /\ w \in SkillWrites /\ ch.todo # <<>>
  BY <1>0, <1>2, NextWrite DEF ChangeOk
<1>4. s2 = IF CanFail(w, change.tab) THEN AfterWrite(s, w) ELSE s
  BY <1>0 DEF WriteOk
<1>5. s2 \in Packages /\ Wrote(s, w, s2)
  BY <1>2, <1>3, <1>4, WriteWrote
<1>6. PICK m : m = Rest(w)
  OBVIOUS
<1>7. Follows(ch, m) /\ m.clean = ch.clean
  BY <1>0, <1>2, <1>3, <1>5, <1>6, RestParts
<1>8. m.todo = Tail(ch.todo)
  BY <1>7 DEF Follows
<1>9. change' = IF m.todo = <<>> THEN NoChange ELSE m
  BY <1>0, <1>6 DEF WriteOk, Finish
<1>10. /\ reader' = reader /\ tidy' = td /\ skillFaults' = skillFaults
       /\ system' = (sy \/ (change' = NoChange /\ ch.kind = "install" /\ ~ch.undoing))
       /\ discovery' = Cached(w)
  BY <1>0 DEF WriteOk
<1>11. discovery' \in [Tabs -> MaybeBody]
  <2>1. w.part = "cache" => w.val \in MaybeBody
    BY <1>3, WriteParts DEF WriteFits
  <2>2. discovery \in [Tabs -> MaybeBody]
    BY DEF SkillInv
  <2> QED
    BY <2>1, <2>2, <1>10 DEF Cached
<1>r. reader' \in [Tabs -> ReaderStates] /\ skillFaults' \in 0..MaxSkillFaults /\ tidy' \in BOOLEAN
  BY <1>1, <1>10 DEF SkillInv, ReaderStates
<1>12. CASE m.todo # <<>>
  <2>1. StateOk(m, s2, td, sy)
    BY <1>1, <1>3, <1>5, <1>7, <1>12, WriteKeeps
  <2>2. change' = m /\ m # NoChange
    BY <1>9, <1>12, NoChangeTyped
  <2>3. system' = sy
    BY <1>1, <1>10, <2>2
  <2>4. StateOk(change', pkg', tidy', system') /\ system' \in BOOLEAN
    BY <2>1, <2>2, <2>3, <1>0, <1>1, <1>10
  <2>5. UndoRestores
    BY <2>2 DEF UndoRestores
  <2> QED
    BY <2>4, <2>5, <1>11, <1>r DEF SkillInv, ReaderStates
<1>13. CASE m.todo = <<>>
  <2>0. Tail(ch.todo) = <<>>
    BY <1>8, <1>13
  <2>1. /\ StateOk(NoChange, s2, td, sy)
        /\ ch.kind = "install" /\ ~ch.undoing => SystemPkg(s2)
        /\ ch.undoing /\ ch.clean => Core(s2) = Core(UndoGoal(ch))
    BY <2>0, <1>1, <1>3, <1>5, WriteEnds
  <2>2. change' = NoChange
    BY <1>9, <1>13
  <2>3. PICK sy2 : sy2 = system'
    OBVIOUS
  <2>4. sy2 \in BOOLEAN /\ (sy2 => sy \/ (ch.kind = "install" /\ ~ch.undoing))
    BY <2>2, <2>3, <1>1, <1>10
  <2>5. sy2 => SystemPkg(s2)
    BY <2>1, <2>4 DEF StateOk
  <2>6. StateOk(NoChange, s2, td, sy2)
    BY <2>1, <2>5 DEF StateOk
  <2>7. StateOk(change', pkg', tidy', system') /\ system' \in BOOLEAN
    BY <2>2, <2>3, <2>4, <2>6, <1>0, <1>10
  <2>8. UndoRestores
    BY <2>1, <1>0 DEF UndoRestores, UndoGoal
  <2> QED
    BY <2>7, <2>8, <1>11, <1>r DEF SkillInv, ReaderStates
<1> QED
  BY <1>12, <1>13

LEMMA CheckFailsStep ==
    ASSUME SkillInv, CheckFails
    PROVE  SkillInv' /\ change' # NoChange
<1>0. PICK ch, s, td, sy, w, u : /\ ch = change /\ s = pkg /\ td = tidy /\ sy = system
                                 /\ w = Head(change.todo) /\ u = UndoOf(Head(change.todo))
  OBVIOUS
<1>1. td \in BOOLEAN /\ sy \in BOOLEAN /\ StateOk(ch, s, td, sy) /\ ch # NoChange
  BY <1>0 DEF SkillInv, CheckFails
<1>2. ChangeOk(ch, s, td, sy) /\ ch \in Changes /\ s \in Packages
  BY <1>1 DEF StateOk
<1>3. w = ch.todo[1] /\ w \in SkillWrites
  BY <1>0, <1>2, NextWrite
<1>4. w.part = "check"
  BY <1>0 DEF CheckFails
<1>5. w.fail = "discard" /\ s \in Partly(s, w)
  BY <1>3, <1>4, WriteParts, PartlySame DEF WriteFits, Wholes
<1>6. IsUndo(u, w, ch.before)
  BY <1>0, UndoCases DEF IsUndo
<1>7. PICK m : m = Undoing(ch, u)
  OBVIOUS
<1>u. w.fail \in {"discard", "discard_twice", "restore"}
  BY <1>5
<1>v. PICK s2 \in Partly(s, w) : s2 = s
  BY <1>5
<1>8. StateOk(m, s, td, sy) /\ u # <<>> /\ m.todo = u
  <2>1. StateOk(m, s2, td, sy) /\ u # <<>> /\ m.todo = u
    BY <1>1, <1>3, <1>6, <1>7, <1>u, UndoOk
  <2> QED
    BY <2>1, <1>v
<1>9. /\ change' = m /\ pkg' = s /\ tidy' = td /\ system' = sy /\ reader' = reader /\ discovery' = discovery
      /\ skillFaults' = skillFaults
  BY <1>0, <1>7 DEF CheckFails, Undoing
<1>10. StateOk(change', pkg', tidy', system') /\ change' # NoChange /\ tidy' \in BOOLEAN /\ system' \in BOOLEAN
  BY <1>1, <1>8, <1>9, NoChangeTyped
<1> QED
  BY <1>9, <1>10 DEF SkillInv

LEMMA WriteFailsStep ==
    ASSUME SkillInv, WriteFails
    PROVE  SkillInv'
<1>0. PICK ch, s, s2, td, sy, w, u : /\ ch = change /\ s = pkg /\ s2 = pkg' /\ td = tidy /\ sy = system
                                     /\ w = Head(change.todo) /\ u = UndoOf(Head(change.todo))
  OBVIOUS
<1>1. td \in BOOLEAN /\ sy \in BOOLEAN /\ StateOk(ch, s, td, sy) /\ ch # NoChange
  BY <1>0 DEF SkillInv, WriteFails
<1>2. ChangeOk(ch, s, td, sy) /\ ch \in Changes /\ s \in Packages
  BY <1>1 DEF StateOk
<1>3. w = ch.todo[1] /\ w \in SkillWrites /\ ch.todo # <<>> /\ Fits(w, ch.kind, ch.undoing, ch.before)
  BY <1>0, <1>2, NextWrite DEF ChangeOk, FitWrites
<1>b. ch.undoing \in BOOLEAN /\ ch.clean \in BOOLEAN /\ ch.kind \in Kinds
  BY <1>2, ChangeParts
<1>4. s2 \in Partly(s, w)
  BY <1>0 DEF WriteFails
<1>5. s2 \in Packages /\ Cut(s2, sy) /\ (ch.kind \in {"update", "prune"} => s2 = s)
  <2>1. s2 \in Partly(s, ch.todo[1])
    BY <1>3, <1>4
  <2> QED
    BY <2>1, <1>1, PartlyOff
<1>6. /\ reader' = reader /\ discovery' = discovery /\ system' = sy
      /\ tidy' = (td /\ IF w.fail = "ignore" THEN ~ch.undoing ELSE w.fail # "stop")
      /\ change' = IF w.fail = "ignore"
                   THEN Finish([Rest(w) EXCEPT !.clean = @ /\ ~change.undoing])
                   ELSE Finish([change EXCEPT !.todo = u, !.undoing = TRUE])
  BY <1>0 DEF WriteFails
<1>7. skillFaults' \in 0..MaxSkillFaults
  <2>1. skillFaults \in 0..MaxSkillFaults /\ skillFaults < MaxSkillFaults /\ skillFaults' = skillFaults + 1
    BY DEF SkillInv, WriteFails
  <2> QED
    BY <2>1, SkillFacts
<1>8. PICK td2, ch2 : td2 = tidy' /\ ch2 = change'
  OBVIOUS
<1>9. td2 \in BOOLEAN /\ StateOk(ch2, s2, td2, sy)
  <2>1. CASE w.fail = "ignore"
    <3>1. PICK n : n = Rest(w)
      OBVIOUS
    <3>2. Follows(ch, n) /\ n.clean = ch.clean
      BY <1>0, <1>2, <1>3, <1>5, <3>1, RestParts
    <3>3. PICK m : m = [n EXCEPT !.clean = n.clean /\ ~ch.undoing]
      OBVIOUS
    <3>4. n \in Changes
      BY <3>2 DEF Follows
    <3>5. /\ m.kind = n.kind /\ m.todo = n.todo /\ m.undoing = n.undoing /\ m.before = n.before
          /\ m.clean = (n.clean /\ ~ch.undoing) /\ m \in Changes
      BY <3>3, <3>4, <3>2, <1>b DEF Changes
    <3>6. Follows(ch, m)
      BY <3>2, <3>5 DEF Follows
    <3>7. ch2 = IF m.todo = <<>> THEN NoChange ELSE m
      BY <2>1, <3>1, <3>3, <1>0, <1>6, <1>8 DEF Finish, Undoing
    <3>8. CASE ch.undoing
      <4>1. td2 = FALSE /\ m.clean = FALSE
        BY <2>1, <3>5, <3>8, <1>6, <1>8
      <4>2. CASE m.todo = <<>>
        BY <4>1, <4>2, <3>7, <1>5 DEF Cut
      <4>3. CASE m.todo # <<>>
        <5>1. StateOk(m, s2, FALSE, sy)
          BY <4>1, <4>3, <3>6, <3>8, <1>1, <1>3, <1>4, SkipOk
        <5> QED
          BY <5>1, <4>1, <4>3, <3>7
      <4> QED
        BY <4>2, <4>3
    <3>9. CASE ~ch.undoing
      <4>1. td2 = td /\ m.clean = ch.clean
        BY <2>1, <3>2, <3>5, <3>9, <1>1, <1>6, <1>8, <1>b
      <4>2. w.part \in Others /\ s2 = s
        <5>1. ch.kind \in {"update", "prune"} /\ w.part \in {"index", "cache"}
          BY <1>2, <1>3, <1>b, <2>1, <3>9
             DEF Fits, CreateFits, UpdateFits, DeleteFits, PruneFits, Kinds, ChangeOk
        <5> QED
          BY <5>1, <1>5 DEF Others
      <4>3. Wrote(s, w, s2)
        BY <4>2, NoHit
      <4>4. CASE m.todo = <<>>
        <5>1. Tail(ch.todo) = <<>>
          BY <4>4, <3>6 DEF Follows
        <5>2. StateOk(NoChange, s2, td, sy)
          BY <5>1, <4>3, <1>1, <1>3, <1>5, WriteEnds
        <5> QED
          BY <5>2, <4>1, <4>4, <3>7, <1>1
      <4>5. CASE m.todo # <<>>
        <5>1. StateOk(m, s2, td, sy)
          BY <4>1, <4>3, <4>5, <3>6, <1>1, <1>3, <1>5, WriteKeeps
        <5> QED
          BY <5>1, <4>1, <4>5, <3>7, <1>1
      <4> QED
        BY <4>4, <4>5
    <3> QED
      BY <3>8, <3>9
  <2>2. CASE w.fail = "stop"
    <3>1. u = <<>>
      BY <2>2, <1>0, UndoCases
    <3>2. PICK m : m = Undoing(ch, u)
      OBVIOUS
    <3>3. m.todo = <<>>
      BY <3>1, <3>2, <1>2 DEF Changes, Undoing
    <3>4. ch2 = NoChange /\ td2 = FALSE
      BY <2>2, <3>2, <3>3, <1>0, <1>6, <1>8 DEF Finish, Undoing
    <3> QED
      BY <3>4, <1>5 DEF Cut
  <2>3. CASE w.fail \in {"discard", "discard_twice", "restore"}
    <3>1. IsUndo(u, w, ch.before)
      BY <1>0, UndoCases DEF IsUndo
    <3>2. PICK m : m = Undoing(ch, u)
      OBVIOUS
    <3>3. StateOk(m, s2, td, sy) /\ u # <<>> /\ m.todo = u
      BY <2>3, <3>1, <3>2, <1>1, <1>3, <1>4, UndoOk
    <3>4. ch2 = m
      BY <2>3, <3>2, <3>3, <1>0, <1>6, <1>8 DEF Finish, Undoing
    <3>5. td2 = td
      BY <2>3, <1>1, <1>6, <1>8
    <3> QED
      BY <3>3, <3>4, <3>5, <1>1
  <2> QED
    BY <2>1, <2>2, <2>3, <1>3, WriteParts
<1>10. StateOk(change', pkg', tidy', system') /\ tidy' \in BOOLEAN /\ system' \in BOOLEAN
  BY <1>0, <1>1, <1>6, <1>8, <1>9
<1> QED
  BY <1>6, <1>7, <1>10 DEF SkillInv

LEMMA SkillStep ==
    ASSUME SkillInv, [SkillNext]_skillVars
    PROVE  SkillInv' /\ UndoRestores
<1>1. ASSUME NEW t \in Tabs, ChangeStep(t) PROVE SkillInv' /\ UndoRestores
  <2>1. SkillInv'
    BY <1>1, CreateStep, ImportStep, InstallStep, UpdateStep, RollbackStep, DeleteStep, PruneStep DEF ChangeStep
  <2>2. change = NoChange
    BY <1>1 DEF ChangeStep, CreateSkill, ImportPackage, InstallSystemPackage, UpdateSkill, RollbackSkill,
        DeleteSkill, ClearAllSkills, Prune, BeginChange
  <2>3. UndoRestores
    BY <2>2, NoChangeTyped DEF UndoRestores
  <2> QED
    BY <2>1, <2>3
<1>2. ASSUME NEW t \in Tabs, ReadStep(t) PROVE SkillInv' /\ UndoRestores
  <2>1. SkillInv'
    BY <1>2, ReadStepInv
  <2>2. change' = change
    BY <1>2 DEF ReadStep, ReadRaw, ListNothing, RefreshIndex, PutFile
  <2>3. UndoRestores
    BY <2>2, NoChangeTyped DEF UndoRestores
  <2> QED
    BY <2>1, <2>3
<1>3. ASSUME NEW t \in Tabs, CloseTab(t) PROVE SkillInv' /\ UndoRestores
  <2>1. SkillInv'
    BY <1>3, CloseStep
  <2>2. skillFaults \in 0..MaxSkillFaults /\ skillFaults' = skillFaults + 1
    BY <1>3 DEF CloseTab, SkillInv
  <2>3. skillFaults' # skillFaults
    BY <2>2, SkillFacts
  <2> QED
    BY <2>1, <2>3 DEF UndoRestores
<1>4. CASE WriteOk
  BY <1>4, WriteOkStep
<1>5. CASE CheckFails
  BY <1>5, CheckFailsStep DEF UndoRestores
<1>6. CASE WriteFails
  <2>1. SkillInv'
    BY <1>6, WriteFailsStep
  <2>2. skillFaults \in 0..MaxSkillFaults /\ skillFaults' = skillFaults + 1
    BY <1>6 DEF WriteFails, SkillInv
  <2>3. skillFaults' # skillFaults
    BY <2>2, SkillFacts
  <2> QED
    BY <2>1, <2>3 DEF UndoRestores
<1>7. CASE UNCHANGED skillVars
  <2>1. SkillInv'
    BY <1>7 DEF skillVars, SkillInv
  <2>2. UndoRestores
    BY <1>7, NoChangeTyped DEF skillVars, UndoRestores
  <2> QED
    BY <2>1, <2>2
<1> QED
  BY <1>1, <1>2, <1>3, <1>4, <1>5, <1>6, <1>7 DEF SkillNext

LEMMA SkillUse == SkillInv => SkillPackageHolds
<1> SUFFICES ASSUME SkillInv PROVE SkillPackageHolds
  OBVIOUS
<1>1. StateOk(change, pkg, tidy, system)
  BY DEF SkillInv
<1>2. SystemStays
  BY <1>1 DEF StateOk, SystemStays, SystemPkg, IsSystem
<1>3. VersionsAgree
  <2>1. SUFFICES ASSUME tidy, change = NoChange PROVE VersionsAgree
    BY DEF VersionsAgree
  <2>2. InOrderSkill(pkg)
    BY <1>1, <2>1 DEF StateOk
  <2>3. CASE pkg.md = Absent
    BY <2>2, <2>3 DEF InOrderSkill, VersionsAgree
  <2>4. CASE pkg.md # Absent
    <3>1. /\ pkg.head.of = pkg.md /\ pkg.meta = Meta(pkg.md, pkg.head.trust)
          /\ pkg.head.active \in Versions /\ pkg.body[pkg.head.active] = pkg.md
          /\ \A v \in Versions : pkg.rec[v] = "active" <=> v = pkg.head.active
      BY <2>2, <2>4 DEF InOrderSkill
    <3>2. {v \in Versions : pkg.rec[v] = "active"} = {pkg.head.active}
      BY <3>1
    <3> QED
      BY <2>4, <3>1, <3>2 DEF VersionsAgree
  <2> QED
    BY <2>3, <2>4
<1> QED
  BY <1>2, <1>3 DEF SkillPackageHolds

\* Once no change is under way SKILL.md is the body of the active version, or
\* nothing is left of the package, whatever readers do meanwhile and although
\* one write of a creation or an update may fail; and an installed built-in
\* package stays, under every change, failure and closed page.
THEOREM PackagesHold == SkillSpec => []SkillPackageHolds
<1>1. SkillInit => SkillInv
  BY SkillStart
<1>2. SkillInv /\ [SkillNext]_skillVars => SkillInv'
  BY SkillStep
<1>3. SkillInv => SkillPackageHolds
  BY SkillUse
<1> QED
  BY <1>1, <1>2, <1>3, PTL DEF SkillSpec

\* A creation that failed leaves nothing, and an update that failed leaves what
\* was there before, unless a write of the undo fails too.
THEOREM FailuresAreUndone == SkillSpec => FailedChangeUndone
<1>1. SkillInit => SkillInv
  BY SkillStart
<1>2. SkillInv /\ [SkillNext]_skillVars => SkillInv'
  BY SkillStep
<1>3. SkillInv /\ [SkillNext]_skillVars => [UndoRestores]_skillVars
  BY SkillStep
<1> QED
  BY <1>1, <1>2, <1>3, PTL DEF SkillSpec, FailedChangeUndone

=============================================================================
