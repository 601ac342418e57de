----------------------------- MODULE PageProofs -----------------------------
(***************************************************************************)
(* Proofs about the pages of the web client: clearing a session that       *)
(* several pages have open (SessionMemory), for any number of pages,       *)
(* memories and failing storage calls; and what the pages that sell plans  *)
(* and that administer show (WebPages), for any number of requests.        *)
(***************************************************************************)
EXTENDS SessionMemory, WebPages, FiniteSetTheorems, TLAPS

-----------------------------------------------------------------------------
(* Clearing a session.                                                     *)

Sess == {Old, New, Nobody, "other"}

ClearTyped ==
    /\ web \in BOOLEAN /\ tombstone \in BOOLEAN /\ leftover \in BOOLEAN
    /\ sources \in [MemoryIds -> SUBSET Sess]
    /\ memEpoch \in [Pages -> Nat]
    /\ page \in [Pages -> PageState]
    /\ cleared \in [committed : BOOLEAN, forgot : BOOLEAN]

\* The four things a page does behind the locks.
Clears(r) == r.clr \in {"mark", "forget", "provenance", "rollback"}
Extracts(r) == r.ext = "model"
Tools(r) == r.tool = "embed"
Checkpoints(r) == r.pump \in {"checkpoint", "verify"}

\* What is known of a page in state r, from the locks and the barrier: w is
\* web, d and g hold the locks, t is the tombstone, f says that a clear forgot
\* every memory and a that extraction is switched on.
RecHolds(r, p, w, d, g, t, f, a) ==
    /\ Clears(r) \/ Extracts(r) \/ Tools(r) \/ (w /\ Checkpoints(r)) => d = p
    /\ Clears(r) \/ Extracts(r) \/ Checkpoints(r) \/ (w /\ Tools(r)) => g = p
    /\ ~(Clears(r) /\ Extracts(r)) /\ ~(Clears(r) /\ Tools(r)) /\ ~(Clears(r) /\ Checkpoints(r))
    /\ ~(Extracts(r) /\ Tools(r)) /\ ~(Extracts(r) /\ Checkpoints(r))
    /\ w => ~(Tools(r) /\ Checkpoints(r))
    /\ Clears(r) /\ ~r.existed => ~f
    /\ Clears(r) /\ r.clr # "mark" => t
    /\ r.clr \notin {"idle", "failed"} => r.pump \in {"idle", "done"}
    /\ Extracts(r) => a

PageHolds(p) ==
    RecHolds(page[p], p, web, durable, sessionGate, tombstone, cleared.forgot, autoExtract)

\* A page that will still look at the snapshot, or at the checkpoint.
OnItsWay(r) == (Clears(r) /\ r.clr # "mark") \/ (r.clr = "store" /\ r.retained) \/ r.clr = "current"
WillDropSnapshot(r) == (r.session = Old /\ r.pump = "recheck") \/ OnItsWay(r)
WillDropCheckpoint(r) ==
    (r.session = Old /\ r.pump = "verify") \/ OnItsWay(r) \/ r.clr = "artifacts"

ForgottenStays ==
    cleared.forgot => tombstone /\ \A m \in MemoryIds : Old \notin sources[m]
SnapshotGoes ==
    tombstone /\ ~leftover /\ snapshot = Old => \E p \in Pages : WillDropSnapshot(page[p])
CheckpointGoes ==
    tombstone /\ ~leftover /\ checkpoint => \E p \in Pages : WillDropCheckpoint(page[p])

ClearInv ==
    /\ ClearTyped /\ \A p \in Pages : PageHolds(p)
    /\ ForgottenStays /\ SnapshotGoes /\ CheckpointGoes

LEMMA ClearInitInv == MemoryInit => ClearInv
<1> SUFFICES ASSUME MemoryInit PROVE ClearInv
  OBVIOUS
<1> DEFINE r == [session |-> Old, pump |-> "idle", ext |-> "idle",
                 token |-> NoToken, tool |-> "idle", clr |-> "idle",
                 force |-> FALSE, existed |-> FALSE, retained |-> FALSE]
<1>1. r \in PageState /\ r.pump = "idle" /\ r.ext = "idle" /\ r.tool = "idle" /\ r.clr = "idle"
  BY DEF PageState, NoToken, Old, Nobody
<1> HIDE DEF r
<1>2. page = [p \in Pages |-> r]
  BY DEF MemoryInit, r
<1>3. ClearTyped
  <2>1. page \in [Pages -> PageState] /\ memEpoch \in [Pages -> Nat]
    BY <1>1, <1>2 DEF MemoryInit
  <2>2. cleared \in [committed : BOOLEAN, forgot : BOOLEAN]
    BY DEF MemoryInit
  <2>3. {{}, {Old}, {Old, "other"}} \subseteq SUBSET Sess
    BY DEF Sess
  <2>4. sources \in [MemoryIds -> SUBSET Sess]
    BY <2>3 DEF MemoryInit
  <2> QED
    BY <2>1, <2>2, <2>4 DEF MemoryInit, ClearTyped
<1>4. \A p \in Pages : PageHolds(p)
  BY <1>1, <1>2 DEF PageHolds, RecHolds, Clears, Extracts, Tools, Checkpoints
<1> QED
  BY <1>3, <1>4 DEF MemoryInit, ClearInv, ForgottenStays, SnapshotGoes, CheckpointGoes

\* What a page does to a lock: it takes a free one or lets go of its own.
Turns(p, x, y) == y = x \/ (x \in {p, Nobody} /\ y \in {p, Nobody})

\* A step of page p to the state r keeps the invariant, if it keeps p's part.
LEMMA StepKeeps ==
    ASSUME ClearInv, NEW p \in Pages, NEW r \in PageState,
           page' = [page EXCEPT ![p] = r], UNCHANGED <<web, autoExtract>>,
           tombstone' \in BOOLEAN, leftover' \in BOOLEAN,
           sources' \in [MemoryIds -> SUBSET Sess], memEpoch' \in [Pages -> Nat],
           cleared' \in [committed : BOOLEAN, forgot : BOOLEAN],
           Turns(p, durable, durable'), Turns(p, sessionGate, sessionGate'),
           tombstone /\ ~tombstone' => durable = p,
           cleared'.forgot /\ ~cleared.forgot => durable = p,
           RecHolds(r, p, web, durable', sessionGate', tombstone', cleared'.forgot, autoExtract),
           ForgottenStays',
           tombstone' /\ ~leftover' /\ snapshot' = Old =>
              \/ WillDropSnapshot(r)
              \/ /\ tombstone /\ ~leftover /\ snapshot = Old
                 /\ ~WillDropSnapshot(page[p]),
           tombstone' /\ ~leftover' /\ checkpoint' =>
              \/ WillDropCheckpoint(r)
              \/ /\ tombstone /\ ~leftover /\ checkpoint
                 /\ ~WillDropCheckpoint(page[p])
    PROVE  ClearInv'
<1>a. Nobody \notin Pages
  BY MemoryAssumption
<1>b. page'[p] = r /\ \A q \in Pages : q # p => page'[q] = page[q]
  BY DEF ClearInv, ClearTyped
<1>1. ClearTyped'
  BY DEF ClearInv, ClearTyped
<1>2. ASSUME NEW q \in Pages, q # p PROVE PageHolds(q)'
  <2> DEFINE s == page[q]
  <2>1. page'[q] = s
    BY <1>b, <1>2
  <2>2. RecHolds(s, q, web, durable, sessionGate, tombstone, cleared.forgot, autoExtract)
    BY DEF ClearInv, PageHolds
  <2>3. cleared.forgot \in BOOLEAN /\ cleared'.forgot \in BOOLEAN /\ tombstone \in BOOLEAN
    BY DEF ClearInv, ClearTyped
  <2> HIDE DEF s
  <2>4. (durable = q => durable' = q) /\ (sessionGate = q => sessionGate' = q)
    BY <1>a, <1>2 DEF Turns
  <2>5. RecHolds(s, q, web, durable', sessionGate', tombstone', cleared'.forgot, autoExtract)
    BY <2>2, <2>3, <2>4, <1>2 DEF RecHolds
  <2> QED
    BY <2>1, <2>5 DEF PageHolds
<1>3. PageHolds(p)'
  BY <1>b DEF PageHolds
<1>4. SnapshotGoes'
  <2> SUFFICES ASSUME tombstone', ~leftover', snapshot' = Old
               PROVE  \E q \in Pages : WillDropSnapshot(page'[q])
    BY DEF SnapshotGoes
  <2>1. CASE WillDropSnapshot(r)
    BY <2>1, <1>b
  <2>2. CASE ~WillDropSnapshot(r)
    <3>1. PICK q \in Pages : WillDropSnapshot(page[q])
      BY <2>2 DEF ClearInv, SnapshotGoes
    <3>2. q # p
      BY <2>2, <3>1
    <3> QED
      BY <3>1, <3>2, <1>b
  <2> QED
    BY <2>1, <2>2
<1>5. CheckpointGoes'
  <2> SUFFICES ASSUME tombstone', ~leftover', checkpoint'
               PROVE  \E q \in Pages : WillDropCheckpoint(page'[q])
    BY DEF CheckpointGoes
  <2>1. CASE WillDropCheckpoint(r)
    BY <2>1, <1>b
  <2>2. CASE ~WillDropCheckpoint(r)
    <3>1. PICK q \in Pages : WillDropCheckpoint(page[q])
      BY <2>2 DEF ClearInv, CheckpointGoes
    <3>2. q # p
      BY <2>2, <3>1
    <3> QED
      BY <3>1, <3>2, <1>b
  <2> QED
    BY <2>1, <2>2
<1> QED
  BY <1>1, <1>2, <1>3, <1>4, <1>5 DEF ClearInv

-----------------------------------------------------------------------------
(* The states a page steps to, field by field.                             *)

\* Page p goes to the state r, in the same session, with these fields.
Moves(p, r, pump, ext, tool, clr, existed, retained) ==
    /\ r \in PageState /\ page' = [page EXCEPT ![p] = r]
    /\ r.session = page[p].session /\ r.pump = pump /\ r.ext = ext /\ r.tool = tool
    /\ r.clr = clr /\ r.existed = existed /\ r.retained = retained

PumpStates == {"idle", "check", "write", "recheck", "gate", "checkpoint", "verify", "done"}
ClearStates == {"idle", "scan", "mark", "forget", "provenance", "rollback",
                "store", "current", "artifacts", "switch", "failed"}

LEMMA PumpMoves ==
    ASSUME ClearInv, NEW p \in Pages, NEW v \in PumpStates, Set(p, "pump", v)
    PROVE  \E r : Moves(p, r, v, page[p].ext, page[p].tool, page[p].clr,
                        page[p].existed, page[p].retained)
<1> DEFINE s == page[p]
           r == [s EXCEPT !["pump"] = v]
<1>1. s \in PageState /\ page' = [page EXCEPT ![p] = r]
  BY DEF ClearInv, ClearTyped, Set
<1> HIDE DEF s
<1>2. /\ r \in PageState /\ r.session = s.session /\ r.pump = v /\ r.ext = s.ext
      /\ r.tool = s.tool /\ r.clr = s.clr /\ r.existed = s.existed /\ r.retained = s.retained
  BY <1>1 DEF PageState, PumpStates
<1> HIDE DEF r
<1> QED
  BY <1>1, <1>2 DEF Moves, s

LEMMA ExtractionMoves ==
    ASSUME ClearInv, NEW p \in Pages, NEW v \in {"queued", "model", "done"}, Set(p, "ext", v)
    PROVE  \E r : Moves(p, r, page[p].pump, v, page[p].tool, page[p].clr,
                        page[p].existed, page[p].retained)
<1> DEFINE s == page[p]
           r == [s EXCEPT !["ext"] = v]
<1>1. s \in PageState /\ page' = [page EXCEPT ![p] = r]
  BY DEF ClearInv, ClearTyped, Set
<1> HIDE DEF s
<1>2. /\ r \in PageState /\ r.session = s.session /\ r.pump = s.pump /\ r.ext = v
      /\ r.tool = s.tool /\ r.clr = s.clr /\ r.existed = s.existed /\ r.retained = s.retained
  BY <1>1 DEF PageState
<1> HIDE DEF r
<1> QED
  BY <1>1, <1>2 DEF Moves, s

LEMMA ToolMoves ==
    ASSUME ClearInv, NEW p \in Pages, NEW v \in {"embed", "done"}, Set(p, "tool", v)
    PROVE  \E r : Moves(p, r, page[p].pump, page[p].ext, v, page[p].clr,
                        page[p].existed, page[p].retained)
<1> DEFINE s == page[p]
           r == [s EXCEPT !["tool"] = v]
<1>1. s \in PageState /\ page' = [page EXCEPT ![p] = r]
  BY DEF ClearInv, ClearTyped, Set
<1> HIDE DEF s
<1>2. /\ r \in PageState /\ r.session = s.session /\ r.pump = s.pump /\ r.ext = s.ext
      /\ r.tool = v /\ r.clr = s.clr /\ r.existed = s.existed /\ r.retained = s.retained
  BY <1>1 DEF PageState
<1> HIDE DEF r
<1> QED
  BY <1>1, <1>2 DEF Moves, s

LEMMA ClearMoves ==
    ASSUME ClearInv, NEW p \in Pages, NEW v \in ClearStates, Set(p, "clr", v)
    PROVE  \E r : Moves(p, r, page[p].pump, page[p].ext, page[p].tool, v,
                        page[p].existed, page[p].retained)
<1> DEFINE s == page[p]
           r == [s EXCEPT !["clr"] = v]
<1>1. s \in PageState /\ page' = [page EXCEPT ![p] = r]
  BY DEF ClearInv, ClearTyped, Set
<1> HIDE DEF s
<1>2. /\ r \in PageState /\ r.session = s.session /\ r.pump = s.pump /\ r.ext = s.ext
      /\ r.tool = s.tool /\ r.clr = v /\ r.existed = s.existed /\ r.retained = s.retained
  BY <1>1 DEF PageState, ClearStates
<1> HIDE DEF r
<1> QED
  BY <1>1, <1>2 DEF Moves, s

LEMMA RetainedMoves ==
    ASSUME ClearInv, NEW p \in Pages,
           page' = [page EXCEPT ![p] = [page[p] EXCEPT !.clr = "store", !.retained = TRUE]]
    PROVE  \E r : Moves(p, r, page[p].pump, page[p].ext, page[p].tool, "store",
                        page[p].existed, TRUE)
<1> DEFINE s == page[p]
           r == [s EXCEPT !.clr = "store", !.retained = TRUE]
<1>1. s \in PageState /\ page' = [page EXCEPT ![p] = r]
  BY DEF ClearInv, ClearTyped
<1> HIDE DEF s
<1>2. /\ r \in PageState /\ r.session = s.session /\ r.pump = s.pump /\ r.ext = s.ext
      /\ r.tool = s.tool /\ r.clr = "store" /\ r.existed = s.existed /\ r.retained = TRUE
  BY <1>1 DEF PageState
<1> HIDE DEF r
<1> QED
  BY <1>1, <1>2 DEF Moves, s

LEMMA SpawnMoves ==
    ASSUME ClearInv, NEW p \in Pages, SpawnExtraction(p)
    PROVE  \E r : Moves(p, r, "done", "queued", page[p].tool, page[p].clr,
                        page[p].existed, page[p].retained)
<1> DEFINE s == page[p]
           t == [session |-> s.session, epoch |-> memEpoch[p]]
           r == [s EXCEPT !.pump = "done", !.ext = "queued", !.token = t]
<1>1. s \in PageState /\ page' = [page EXCEPT ![p] = r] /\ memEpoch[p] \in Nat
  BY DEF ClearInv, ClearTyped, SpawnExtraction
<1> HIDE DEF s
<1>2. t \in [session : {Old, New, Nobody}, epoch : Nat]
  BY <1>1 DEF PageState
<1> HIDE DEF t
<1>3. /\ r \in PageState /\ r.session = s.session /\ r.pump = "done" /\ r.ext = "queued"
      /\ r.tool = s.tool /\ r.clr = s.clr /\ r.existed = s.existed /\ r.retained = s.retained
  BY <1>1, <1>2 DEF PageState
<1> HIDE DEF r
<1> QED
  BY <1>1, <1>3 DEF Moves, s

\* What the invariant says of page p.
LEMMA KnownOf ==
    ASSUME ClearInv, NEW p \in Pages
    PROVE  /\ page[p] \in PageState
           /\ RecHolds(page[p], p, web, durable, sessionGate, tombstone, cleared.forgot, autoExtract)
           /\ cleared.forgot \in BOOLEAN /\ p # Nobody
  BY MemoryAssumption DEF ClearInv, ClearTyped, PageHolds

-----------------------------------------------------------------------------
(* One lemma per action: the end of a turn.                                *)

LEMMA TurnEndsKeeps ==
    ASSUME ClearInv, NEW p \in Pages, TurnEnds(p)
    PROVE  ClearInv'
<1>1. UNCHANGED <<web, tombstone, snapshot, checkpoint, sources, autoExtract, durable,
                  sessionGate, memEpoch, cleared, leftover>>
  BY DEF TurnEnds, setting, disk, history
<1>2. PICK r : Moves(p, r, "check", page[p].ext, page[p].tool, page[p].clr,
                     page[p].existed, page[p].retained)
  BY PumpMoves DEF TurnEnds, PumpStates
<1>3. page[p].pump = "idle" /\ page[p].clr \in {"idle", "failed"}
  BY DEF TurnEnds
<1>4. RecHolds(r, p, web, durable, sessionGate, tombstone, cleared.forgot, autoExtract)
  BY <1>2, <1>3, KnownOf DEF RecHolds, Moves, Clears, Extracts, Tools, Checkpoints
<1>5. ~WillDropSnapshot(page[p]) /\ ~WillDropCheckpoint(page[p])
  BY <1>3 DEF WillDropSnapshot, WillDropCheckpoint, OnItsWay, Clears
<1> QED
  BY <1>1, <1>2, <1>4, <1>5, StepKeeps DEF Moves, ClearInv, ClearTyped, Turns, ForgottenStays

LEMMA SaveCheckKeeps ==
    ASSUME ClearInv, NEW p \in Pages, SaveCheck(p)
    PROVE  ClearInv'
<1>1. UNCHANGED <<web, tombstone, snapshot, checkpoint, sources, autoExtract, durable,
                  sessionGate, memEpoch, cleared, leftover>>
  BY DEF SaveCheck, setting, disk, history
<1>2. PICK v \in {"write", "gate", "done"} : Set(p, "pump", v)
  BY DEF SaveCheck, AfterSnapshot
<1>3. PICK r : Moves(p, r, v, page[p].ext, page[p].tool, page[p].clr,
                     page[p].existed, page[p].retained)
  BY <1>2, PumpMoves DEF PumpStates
<1>4. page[p].pump = "check" /\ page[p].clr \in {"idle", "failed"}
  BY KnownOf DEF SaveCheck, RecHolds
<1>5. RecHolds(r, p, web, durable, sessionGate, tombstone, cleared.forgot, autoExtract)
  BY <1>3, <1>4, KnownOf DEF RecHolds, Moves, Clears, Extracts, Tools, Checkpoints
<1>6. ~WillDropSnapshot(page[p]) /\ ~WillDropCheckpoint(page[p])
  BY <1>4 DEF WillDropSnapshot, WillDropCheckpoint, OnItsWay, Clears
<1> QED
  BY <1>1, <1>3, <1>5, <1>6, StepKeeps DEF Moves, ClearInv, ClearTyped, Turns, ForgottenStays

LEMMA SaveWriteKeeps ==
    ASSUME ClearInv, NEW p \in Pages, SaveWrite(p)
    PROVE  ClearInv'
<1>1. UNCHANGED <<web, tombstone, checkpoint, sources, autoExtract, durable,
                  sessionGate, memEpoch, cleared, leftover>>
  BY DEF SaveWrite, setting, history
<1>2. PICK v \in {"recheck", "gate", "done"} :
         /\ Set(p, "pump", v)
         /\ snapshot' = snapshot \/ (v = "recheck" /\ snapshot' = page[p].session)
  BY DEF SaveWrite, AfterSnapshot
<1>3. PICK r : Moves(p, r, v, page[p].ext, page[p].tool, page[p].clr,
                     page[p].existed, page[p].retained)
  BY <1>2, PumpMoves DEF PumpStates
<1>4. page[p].pump = "write" /\ page[p].clr \in {"idle", "failed"}
  BY KnownOf DEF SaveWrite, RecHolds
<1>5. RecHolds(r, p, web, durable, sessionGate, tombstone, cleared.forgot, autoExtract)
  BY <1>3, <1>4, KnownOf DEF RecHolds, Moves, Clears, Extracts, Tools, Checkpoints
<1>6. ~WillDropSnapshot(page[p]) /\ ~WillDropCheckpoint(page[p])
  BY <1>4 DEF WillDropSnapshot, WillDropCheckpoint, OnItsWay, Clears
<1>7. snapshot' = Old => snapshot = Old \/ WillDropSnapshot(r)
  BY <1>2, <1>3 DEF Moves, WillDropSnapshot
<1> QED
  BY <1>1, <1>3, <1>5, <1>6, <1>7, StepKeeps DEF Moves, ClearInv, ClearTyped, Turns, ForgottenStays

LEMMA CleanupKeeps ==
    ASSUME ClearInv, NEW p \in Pages, reject_and_cleanup_cleared_snapshot(p)
    PROVE  ClearInv'
<1>1. /\ UNCHANGED <<web, tombstone, checkpoint, sources, autoExtract, durable,
                     sessionGate, memEpoch, cleared>>
      /\ leftover' \in {leftover, TRUE}
  BY DEF reject_and_cleanup_cleared_snapshot, setting
<1>2. PICK v \in {"gate", "done"} : Set(p, "pump", v)
  BY DEF reject_and_cleanup_cleared_snapshot, AfterSnapshot
<1>3. PICK r : Moves(p, r, v, page[p].ext, page[p].tool, page[p].clr,
                     page[p].existed, page[p].retained)
  BY <1>2, PumpMoves DEF PumpStates
<1>4. page[p].pump = "recheck" /\ page[p].clr \in {"idle", "failed"}
  BY KnownOf DEF reject_and_cleanup_cleared_snapshot, RecHolds
<1>5. RecHolds(r, p, web, durable, sessionGate, tombstone, cleared.forgot, autoExtract)
  BY <1>3, <1>4, KnownOf DEF RecHolds, Moves, Clears, Extracts, Tools, Checkpoints
<1>6. ~WillDropCheckpoint(page[p]) /\ (WillDropSnapshot(page[p]) => page[p].session = Old)
  BY <1>4 DEF WillDropSnapshot, WillDropCheckpoint, OnItsWay, Clears
<1>7. tombstone /\ ~leftover' /\ snapshot' = Old => snapshot = Old /\ page[p].session # Old
  BY DEF reject_and_cleanup_cleared_snapshot, session_was_cleared, Old, Nobody
<1> QED
  BY <1>1, <1>3, <1>5, <1>6, <1>7, StepKeeps DEF Moves, ClearInv, ClearTyped, Turns, ForgottenStays

LEMMA CheckpointCheckKeeps ==
    ASSUME ClearInv, NEW p \in Pages, CheckpointCheck(p)
    PROVE  ClearInv'
<1>1. UNCHANGED <<web, tombstone, snapshot, checkpoint, sources, autoExtract, memEpoch,
                  cleared, leftover>>
  BY DEF CheckpointCheck, setting, disk, history
<1>2. /\ page[p].pump = "gate" /\ page[p].clr \in {"idle", "failed"}
      /\ GateFree /\ (web => DurableFree)
  BY KnownOf DEF CheckpointCheck, CheckpointLocks, RecHolds
<1>3. ~WillDropSnapshot(page[p]) /\ ~WillDropCheckpoint(page[p])
  BY <1>2 DEF WillDropSnapshot, WillDropCheckpoint, OnItsWay, Clears
<1>4. CASE CheckpointLocks(p) /\ Set(p, "pump", "checkpoint")
  <2>1. PICK r : Moves(p, r, "checkpoint", page[p].ext, page[p].tool, page[p].clr,
                       page[p].existed, page[p].retained)
    BY <1>4, PumpMoves DEF PumpStates
  <2>2. RecHolds(r, p, web, durable', sessionGate', tombstone, cleared.forgot, autoExtract)
    BY <1>2, <1>4, <2>1, KnownOf DEF RecHolds, Moves, Clears, Extracts, Tools, Checkpoints,
         CheckpointLocks, GateFree, DurableFree
  <2>3. Turns(p, durable, durable') /\ Turns(p, sessionGate, sessionGate')
    BY <1>4 DEF Turns, CheckpointLocks, GateFree, DurableFree
  <2> QED
    BY <1>1, <1>3, <2>1, <2>2, <2>3, StepKeeps DEF Moves, ClearInv, ClearTyped, ForgottenStays
<1>5. CASE SpawnExtraction(p) /\ UNCHANGED <<durable, sessionGate>>
  <2>1. PICK r : Moves(p, r, "done", "queued", page[p].tool, page[p].clr,
                       page[p].existed, page[p].retained)
    BY <1>5, SpawnMoves
  <2>2. RecHolds(r, p, web, durable, sessionGate, tombstone, cleared.forgot, autoExtract)
    BY <1>2, <2>1, KnownOf DEF RecHolds, Moves, Clears, Extracts, Tools, Checkpoints
  <2> QED
    BY <1>1, <1>3, <1>5, <2>1, <2>2, StepKeeps DEF Moves, ClearInv, ClearTyped, Turns, ForgottenStays
<1> QED
  BY <1>4, <1>5 DEF CheckpointCheck

\* Leaving the gate after a checkpoint.
LEMMA CheckpointLeaves ==
    ASSUME ClearInv, NEW p \in Pages, Checkpoints(page[p]), CheckpointUnlocks, NEW r,
           Moves(p, r, "done", "queued", page[p].tool, page[p].clr,
                 page[p].existed, page[p].retained)
    PROVE  /\ RecHolds(r, p, web, durable', sessionGate', tombstone, cleared.forgot, autoExtract)
           /\ Turns(p, durable, durable') /\ Turns(p, sessionGate, sessionGate')
  BY KnownOf DEF RecHolds, Moves, Clears, Extracts, Tools, Checkpoints, CheckpointUnlocks, Turns

LEMMA CheckpointWriteKeeps ==
    ASSUME ClearInv, NEW p \in Pages, CheckpointWrite(p)
    PROVE  ClearInv'
<1>1. UNCHANGED <<web, tombstone, snapshot, sources, autoExtract, memEpoch, cleared, leftover>>
  BY DEF CheckpointWrite, setting, history
<1>2. page[p].pump = "checkpoint" /\ page[p].clr \in {"idle", "failed"}
  BY KnownOf DEF CheckpointWrite, RecHolds
<1>3. ~WillDropSnapshot(page[p]) /\ ~WillDropCheckpoint(page[p])
  BY <1>2 DEF WillDropSnapshot, WillDropCheckpoint, OnItsWay, Clears
<1>4. CASE /\ checkpoint' = (checkpoint \/ page[p].session = Old)
           /\ Set(p, "pump", "verify") /\ UNCHANGED <<durable, sessionGate>>
  <2>1. PICK r : Moves(p, r, "verify", page[p].ext, page[p].tool, page[p].clr,
                       page[p].existed, page[p].retained)
    BY <1>4, PumpMoves DEF PumpStates
  <2>2. RecHolds(r, p, web, durable, sessionGate, tombstone, cleared.forgot, autoExtract)
    BY <1>2, <2>1, KnownOf DEF RecHolds, Moves, Clears, Extracts, Tools, Checkpoints
  <2>3. checkpoint' => checkpoint \/ WillDropCheckpoint(r)
    BY <1>4, <2>1 DEF Moves, WillDropCheckpoint
  <2> QED
    BY <1>1, <1>3, <1>4, <2>1, <2>2, <2>3, StepKeeps
       DEF Moves, ClearInv, ClearTyped, Turns, ForgottenStays
<1>5. CASE SpawnExtraction(p) /\ CheckpointUnlocks /\ UNCHANGED checkpoint
  <2>1. PICK r : Moves(p, r, "done", "queued", page[p].tool, page[p].clr,
                       page[p].existed, page[p].retained)
    BY <1>5, SpawnMoves
  <2>2. /\ RecHolds(r, p, web, durable', sessionGate', tombstone, cleared.forgot, autoExtract)
        /\ Turns(p, durable, durable') /\ Turns(p, sessionGate, sessionGate')
    BY <1>2, <1>5, <2>1, CheckpointLeaves DEF Checkpoints
  <2> QED
    BY <1>1, <1>3, <1>5, <2>1, <2>2, StepKeeps DEF Moves, ClearInv, ClearTyped, ForgottenStays
<1> QED
  BY <1>4, <1>5 DEF CheckpointWrite

LEMMA CheckpointVerifyKeeps ==
    ASSUME ClearInv, NEW p \in Pages, CheckpointVerify(p)
    PROVE  ClearInv'
<1>1. /\ UNCHANGED <<web, tombstone, snapshot, sources, autoExtract, memEpoch, cleared>>
      /\ leftover' \in {leftover, TRUE}
  BY DEF CheckpointVerify, setting
<1>2. page[p].pump = "verify" /\ page[p].clr \in {"idle", "failed"}
  BY KnownOf DEF CheckpointVerify, RecHolds
<1>3. ~WillDropSnapshot(page[p]) /\ (WillDropCheckpoint(page[p]) => page[p].session = Old)
  BY <1>2 DEF WillDropSnapshot, WillDropCheckpoint, OnItsWay, Clears
<1>4. PICK r : Moves(p, r, "done", "queued", page[p].tool, page[p].clr,
                     page[p].existed, page[p].retained)
  BY SpawnMoves DEF CheckpointVerify
<1>5. /\ RecHolds(r, p, web, durable', sessionGate', tombstone, cleared.forgot, autoExtract)
      /\ Turns(p, durable, durable') /\ Turns(p, sessionGate, sessionGate')
  BY <1>2, <1>4, CheckpointLeaves DEF Checkpoints, CheckpointVerify
<1>6. tombstone /\ ~leftover' /\ checkpoint' => checkpoint /\ page[p].session # Old
  BY DEF CheckpointVerify, session_was_cleared
<1> QED
  BY <1>1, <1>3, <1>4, <1>5, <1>6, StepKeeps DEF Moves, ClearInv, ClearTyped, ForgottenStays

-----------------------------------------------------------------------------
(* Durable memories.                                                       *)

LEMMA ExtractBeginsKeeps ==
    ASSUME ClearInv, NEW p \in Pages, ExtractBegins(p)
    PROVE  ClearInv'
<1>1. UNCHANGED <<web, tombstone, snapshot, checkpoint, sources, autoExtract, memEpoch,
                  cleared, leftover>>
  BY DEF ExtractBegins, setting, disk, history
<1>2. page[p].ext = "queued" /\ durable = Nobody /\ sessionGate = Nobody
  BY DEF ExtractBegins, DurableFree, GateFree
<1>3. PICK v \in {"model", "done"} :
         /\ Set(p, "ext", v)
         /\ \/ v = "model" /\ autoExtract /\ durable' = p /\ sessionGate' = p
            \/ v = "done" /\ UNCHANGED <<durable, sessionGate>>
  BY DEF ExtractBegins, TakeBoth
<1>4. PICK r : Moves(p, r, page[p].pump, v, page[p].tool, page[p].clr,
                     page[p].existed, page[p].retained)
  BY <1>3, ExtractionMoves
<1>5. RecHolds(r, p, web, durable', sessionGate', tombstone, cleared.forgot, autoExtract)
  BY <1>2, <1>3, <1>4, KnownOf DEF RecHolds, Moves, Clears, Extracts, Tools, Checkpoints
<1>6. /\ WillDropSnapshot(r) = WillDropSnapshot(page[p])
      /\ WillDropCheckpoint(r) = WillDropCheckpoint(page[p])
  BY <1>4 DEF Moves, WillDropSnapshot, WillDropCheckpoint, OnItsWay, Clears
<1>7. Turns(p, durable, durable') /\ Turns(p, sessionGate, sessionGate')
  BY <1>2, <1>3 DEF Turns
<1> QED
  BY <1>1, <1>4, <1>5, <1>6, <1>7, StepKeeps DEF Moves, ClearInv, ClearTyped, ForgottenStays

LEMMA ExtractEndsKeeps ==
    ASSUME ClearInv, NEW p \in Pages, ExtractEnds(p)
    PROVE  ClearInv'
<1>1. UNCHANGED <<web, tombstone, snapshot, checkpoint, sources, autoExtract, memEpoch,
                  cleared, leftover>>
  BY DEF ExtractEnds, setting, disk, history
<1>2. page[p].ext = "model" /\ durable' = Nobody /\ sessionGate' = Nobody
  BY DEF ExtractEnds, ReleaseBoth
<1>3. PICK r : Moves(p, r, page[p].pump, "done", page[p].tool, page[p].clr,
                     page[p].existed, page[p].retained)
  BY ExtractionMoves DEF ExtractEnds
<1>4. /\ RecHolds(r, p, web, durable', sessionGate', tombstone, cleared.forgot, autoExtract)
      /\ Turns(p, durable, durable') /\ Turns(p, sessionGate, sessionGate')
  BY <1>2, <1>3, KnownOf DEF RecHolds, Moves, Clears, Extracts, Tools, Checkpoints, Turns
<1>5. /\ WillDropSnapshot(r) = WillDropSnapshot(page[p])
      /\ WillDropCheckpoint(r) = WillDropCheckpoint(page[p])
  BY <1>3 DEF Moves, WillDropSnapshot, WillDropCheckpoint, OnItsWay, Clears
<1> QED
  BY <1>1, <1>3, <1>4, <1>5, StepKeeps DEF Moves, ClearInv, ClearTyped, ForgottenStays

\* A memory written while no tombstone is up cannot bring a forgotten one back.
LEMMA RememberKeeps ==
    ASSUME ClearInv, NEW p \in Pages, NEW m \in MemoryIds, Remember(p, m),
           UNCHANGED <<tombstone, cleared>>
    PROVE  sources' \in [MemoryIds -> SUBSET Sess] /\ ForgottenStays'
<1>1. page[p].session \in Sess
  BY KnownOf DEF PageState, Sess
<1>2. sources' \in [MemoryIds -> SUBSET Sess]
  BY <1>1 DEF Remember, ClearInv, ClearTyped
<1>3. ASSUME cleared.forgot, NEW k \in MemoryIds PROVE Old \notin sources'[k]
  BY <1>3 DEF Remember, session_was_cleared, ClearInv, ClearTyped, ForgottenStays
<1> QED
  BY <1>2, <1>3 DEF ClearInv, ForgottenStays

LEMMA ExtractWritesKeeps ==
    ASSUME ClearInv, NEW p \in Pages, ExtractWrites(p)
    PROVE  ClearInv'
<1>1. UNCHANGED <<web, tombstone, snapshot, checkpoint, autoExtract, durable, sessionGate,
                  memEpoch, page, cleared, leftover>>
  BY DEF ExtractWrites, setting, history
<1>2. sources' \in [MemoryIds -> SUBSET Sess] /\ ForgottenStays'
  BY <1>1, RememberKeeps DEF ExtractWrites
<1> QED
  BY <1>1, <1>2 DEF ClearInv, ClearTyped, PageHolds, SnapshotGoes, CheckpointGoes

LEMMA ToolBeginsKeeps ==
    ASSUME ClearInv, NEW p \in Pages, ToolBegins(p)
    PROVE  ClearInv'
<1>1. UNCHANGED <<web, tombstone, snapshot, checkpoint, sources, autoExtract, memEpoch,
                  cleared, leftover>>
  BY DEF ToolBegins, setting, disk, history
<1>2. /\ page[p].tool = "idle" /\ page[p].clr \in {"idle", "failed"}
      /\ durable = Nobody /\ (web => sessionGate = Nobody)
  BY DEF ToolBegins, DurableFree, GateFree
<1>3. PICK v \in {"embed", "done"} :
         /\ Set(p, "tool", v)
         /\ \/ v = "embed" /\ durable' = p /\ sessionGate' = IF web THEN p ELSE sessionGate
            \/ v = "done" /\ UNCHANGED <<durable, sessionGate>>
  BY DEF ToolBegins
<1>4. PICK r : Moves(p, r, page[p].pump, page[p].ext, v, page[p].clr,
                     page[p].existed, page[p].retained)
  BY <1>3, ToolMoves
<1>5. RecHolds(r, p, web, durable', sessionGate', tombstone, cleared.forgot, autoExtract)
  BY <1>2, <1>3, <1>4, KnownOf DEF RecHolds, Moves, Clears, Extracts, Tools, Checkpoints
<1>6. /\ WillDropSnapshot(r) = WillDropSnapshot(page[p])
      /\ WillDropCheckpoint(r) = WillDropCheckpoint(page[p])
  BY <1>4 DEF Moves, WillDropSnapshot, WillDropCheckpoint, OnItsWay, Clears
<1>7. Turns(p, durable, durable') /\ Turns(p, sessionGate, sessionGate')
  BY <1>2, <1>3 DEF Turns
<1> QED
  BY <1>1, <1>4, <1>5, <1>6, <1>7, StepKeeps DEF Moves, ClearInv, ClearTyped, ForgottenStays

LEMMA ToolWritesKeeps ==
    ASSUME ClearInv, NEW p \in Pages, ToolWrites(p)
    PROVE  ClearInv'
<1>1. UNCHANGED <<web, tombstone, snapshot, checkpoint, autoExtract, memEpoch, cleared, leftover>>
  BY DEF ToolWrites, setting, history
<1>2. /\ page[p].tool = "embed" /\ durable' = Nobody
      /\ sessionGate' = IF web THEN Nobody ELSE sessionGate
  BY DEF ToolWrites
<1>3. sources' \in [MemoryIds -> SUBSET Sess] /\ ForgottenStays'
  <2>1. CASE \E m \in MemoryIds : Remember(p, m)
    BY <1>1, <2>1, RememberKeeps
  <2>2. CASE UNCHANGED sources
    BY <1>1, <2>2 DEF ClearInv, ClearTyped, ForgottenStays
  <2> QED
    BY <2>1, <2>2 DEF ToolWrites
<1>4. PICK r : Moves(p, r, page[p].pump, page[p].ext, "done", page[p].clr,
                     page[p].existed, page[p].retained)
  BY ToolMoves DEF ToolWrites
<1>5. /\ RecHolds(r, p, web, durable', sessionGate', tombstone, cleared.forgot, autoExtract)
      /\ Turns(p, durable, durable') /\ Turns(p, sessionGate, sessionGate')
  BY <1>2, <1>4, KnownOf DEF RecHolds, Moves, Clears, Extracts, Tools, Checkpoints, Turns
<1>6. /\ WillDropSnapshot(r) = WillDropSnapshot(page[p])
      /\ WillDropCheckpoint(r) = WillDropCheckpoint(page[p])
  BY <1>4 DEF Moves, WillDropSnapshot, WillDropCheckpoint, OnItsWay, Clears
<1> QED
  BY <1>1, <1>3, <1>4, <1>5, <1>6, StepKeeps DEF Moves, ClearInv, ClearTyped

-----------------------------------------------------------------------------
(* Clearing the session.                                                   *)

LEMMA ClearBeginsKeeps ==
    ASSUME ClearInv, NEW p \in Pages, NEW force \in BOOLEAN, ClearBegins(p, force)
    PROVE  ClearInv'
<1> DEFINE s == page[p]
           v == IF p \in bare THEN "store" ELSE "scan"
           r == [s EXCEPT !.clr = v, !.force = force]
<1>1. UNCHANGED <<web, tombstone, snapshot, checkpoint, sources, autoExtract, durable,
                  sessionGate, memEpoch, cleared, leftover>>
  BY DEF ClearBegins, setting, disk, history
<1>2. /\ s \in PageState /\ page' = [page EXCEPT ![p] = r] /\ v \in {"store", "scan"}
      /\ s.clr = "idle" /\ s.pump \in {"idle", "done"}
  BY KnownOf DEF ClearBegins
<1> HIDE DEF s, v
<1>3. /\ r \in PageState /\ r.session = s.session /\ r.pump = s.pump /\ r.ext = s.ext
      /\ r.tool = s.tool /\ r.clr = v /\ r.existed = s.existed /\ r.retained = s.retained
  BY <1>2 DEF PageState
<1> HIDE DEF r
<1>4. RecHolds(s, p, web, durable, sessionGate, tombstone, cleared.forgot, autoExtract)
  BY KnownOf DEF s
<1>5. RecHolds(r, p, web, durable, sessionGate, tombstone, cleared.forgot, autoExtract)
  BY <1>2, <1>3, <1>4 DEF RecHolds, Clears, Extracts, Tools, Checkpoints
<1>6. ~WillDropSnapshot(s) /\ ~WillDropCheckpoint(s)
  BY <1>2 DEF WillDropSnapshot, WillDropCheckpoint, OnItsWay, Clears
<1> QED
  BY <1>1, <1>2, <1>3, <1>5, <1>6, StepKeeps
     DEF s, ClearInv, ClearTyped, Turns, ForgottenStays

LEMMA ClearScanKeeps ==
    ASSUME ClearInv, NEW p \in Pages, ClearScan(p)
    PROVE  ClearInv'
<1> DEFINE s == page[p]
<1>1. UNCHANGED <<web, tombstone, snapshot, checkpoint, sources, autoExtract, memEpoch,
                  cleared, leftover>>
  BY DEF ClearScan, setting, disk, history
<1>2. /\ s.clr = "scan" /\ s.pump \in {"idle", "done"}
      /\ durable = Nobody /\ sessionGate = Nobody
  BY KnownOf DEF ClearScan, DurableFree, GateFree, RecHolds
<1>3. ~WillDropSnapshot(s) /\ ~WillDropCheckpoint(s)
  BY <1>2 DEF WillDropSnapshot, WillDropCheckpoint, OnItsWay, Clears
<1>4. PICK r : /\ \/ Moves(p, r, s.pump, s.ext, s.tool, "mark", tombstone, s.retained)
                     /\ durable' = p /\ sessionGate' = p
                  \/ Moves(p, r, s.pump, s.ext, s.tool, "failed", s.existed, s.retained)
                     /\ UNCHANGED <<durable, sessionGate>>
  <2> DEFINE q == [s EXCEPT !.clr = "mark", !.existed = tombstone]
  <2>1. CASE /\ page' = [page EXCEPT ![p] = q]
             /\ durable' = p /\ sessionGate' = p
    <3>1. s \in PageState /\ tombstone \in BOOLEAN
      BY KnownOf DEF ClearInv, ClearTyped
    <3> HIDE DEF s
    <3>2. /\ q \in PageState /\ q.session = s.session /\ q.pump = s.pump /\ q.ext = s.ext
          /\ q.tool = s.tool /\ q.clr = "mark" /\ q.existed = tombstone /\ q.retained = s.retained
      BY <3>1 DEF PageState
    <3> HIDE DEF q
    <3> QED
      BY <2>1, <3>2 DEF Moves, s
  <2>2. CASE Set(p, "clr", "failed") /\ UNCHANGED <<durable, sessionGate>>
    BY <2>2, ClearMoves DEF ClearStates
  <2> QED
    BY <2>1, <2>2 DEF ClearScan, TakeBoth
<1>5. RecHolds(r, p, web, durable', sessionGate', tombstone, cleared.forgot, autoExtract)
  BY <1>2, <1>4, KnownOf
     DEF RecHolds, Moves, Clears, Extracts, Tools, Checkpoints, ClearInv, ForgottenStays
<1>6. Turns(p, durable, durable') /\ Turns(p, sessionGate, sessionGate')
  BY <1>2, <1>4 DEF Turns
<1> QED
  BY <1>1, <1>3, <1>4, <1>5, <1>6, StepKeeps DEF Moves, ClearInv, ClearTyped, ForgottenStays

LEMMA ClearMarkKeeps ==
    ASSUME ClearInv, NEW p \in Pages, ClearMark(p)
    PROVE  ClearInv'
<1> DEFINE s == page[p]
<1>1. UNCHANGED <<web, snapshot, checkpoint, sources, autoExtract, cleared, leftover>>
  BY DEF ClearMark, setting, history
<1>2. s.clr = "mark" /\ s.pump \in {"idle", "done"} /\ durable = p /\ sessionGate = p
  BY KnownOf DEF ClearMark, RecHolds, Clears
<1>3. ~WillDropSnapshot(s) /\ ~WillDropCheckpoint(s)
  BY <1>2 DEF WillDropSnapshot, WillDropCheckpoint, OnItsWay, Clears
<1>4. Bumped(p) \in [Pages -> Nat]
  BY DEF Bumped, ClearInv, ClearTyped
<1>5. PICK r :
         \/ /\ Moves(p, r, s.pump, s.ext, s.tool, "forget", s.existed, s.retained)
            /\ tombstone' = TRUE /\ memEpoch' = Bumped(p) /\ UNCHANGED <<durable, sessionGate>>
         \/ /\ Moves(p, r, s.pump, s.ext, s.tool, "store", s.existed, TRUE)
            /\ tombstone' = TRUE /\ memEpoch' = Bumped(p)
            /\ durable' = Nobody /\ sessionGate' = Nobody
         \/ /\ Moves(p, r, s.pump, s.ext, s.tool, "failed", s.existed, s.retained)
            /\ UNCHANGED <<tombstone, memEpoch>>
            /\ durable' = Nobody /\ sessionGate' = Nobody
  BY ClearMoves, RetainedMoves DEF ClearMark, ClearStates, ReleaseBoth
<1>6. RecHolds(r, p, web, durable', sessionGate', tombstone', cleared.forgot, autoExtract)
  BY <1>2, <1>5, KnownOf DEF RecHolds, Moves, Clears, Extracts, Tools, Checkpoints
<1>7. Turns(p, durable, durable') /\ Turns(p, sessionGate, sessionGate')
  BY <1>2, <1>5 DEF Turns
<1>8. tombstone' => UNCHANGED tombstone \/ (WillDropSnapshot(r) /\ WillDropCheckpoint(r))
  BY <1>5 DEF Moves, WillDropSnapshot, WillDropCheckpoint, OnItsWay, Clears
<1>9. /\ tombstone' \in BOOLEAN /\ (tombstone => tombstone') /\ memEpoch' \in [Pages -> Nat]
      /\ ForgottenStays'
  BY <1>1, <1>4, <1>5 DEF ClearInv, ClearTyped, ForgottenStays
<1> QED
  BY <1>1, <1>3, <1>5, <1>6, <1>7, <1>8, <1>9, StepKeeps DEF Moves, ClearInv, ClearTyped

LEMMA ClearForgetsKeeps ==
    ASSUME ClearInv, NEW p \in Pages, ClearForgets(p)
    PROVE  ClearInv'
<1> DEFINE s == page[p]
<1>1. UNCHANGED <<web, tombstone, snapshot, checkpoint, autoExtract, durable, sessionGate,
                  memEpoch, cleared, leftover>>
  BY DEF ClearForgets, setting, history
<1>2. s.clr = "forget"
  BY DEF ClearForgets
<1>3. PICK lost \in SUBSET Exclusive :
         /\ sources' = [m \in MemoryIds |-> IF m \in lost THEN {} ELSE sources[m]]
         /\ Set(p, "clr", "provenance") \/ Set(p, "clr", "rollback")
  BY DEF ClearForgets
<1>4. PICK v \in {"provenance", "rollback"} : Set(p, "clr", v)
  BY <1>3
<1>5. PICK r : Moves(p, r, s.pump, s.ext, s.tool, v, s.existed, s.retained)
  BY <1>4, ClearMoves DEF ClearStates
<1>6. RecHolds(r, p, web, durable, sessionGate, tombstone, cleared.forgot, autoExtract)
  BY <1>2, <1>5, KnownOf DEF RecHolds, Moves, Clears, Extracts, Tools, Checkpoints
<1>7. WillDropSnapshot(r) /\ WillDropCheckpoint(r)
  BY <1>5 DEF Moves, WillDropSnapshot, WillDropCheckpoint, OnItsWay, Clears
<1>8. sources' \in [MemoryIds -> SUBSET Sess] /\ ForgottenStays'
  BY <1>1, <1>3 DEF ClearInv, ClearTyped, ForgottenStays
<1> QED
  BY <1>1, <1>5, <1>6, <1>7, <1>8, StepKeeps DEF Moves, ClearInv, ClearTyped, Turns

LEMMA ClearProvenanceKeeps ==
    ASSUME ClearInv, NEW p \in Pages, ClearProvenance(p)
    PROVE  ClearInv'
<1> DEFINE s == page[p]
<1>1. UNCHANGED <<web, tombstone, snapshot, checkpoint, autoExtract, memEpoch, leftover>>
  BY DEF ClearProvenance, setting
<1>2. s.clr = "provenance" /\ durable = p /\ sessionGate = p /\ tombstone
  BY KnownOf DEF ClearProvenance, RecHolds, Clears
<1>3. CASE /\ sources' = [m \in MemoryIds |-> sources[m] \ {Old}]
           /\ cleared' = [cleared EXCEPT !.forgot = TRUE]
           /\ page' = [page EXCEPT ![p] = [page[p] EXCEPT !.clr = "store", !.retained = TRUE]]
           /\ ReleaseBoth
  <2>1. PICK r : Moves(p, r, s.pump, s.ext, s.tool, "store", s.existed, TRUE)
    BY <1>3, RetainedMoves
  <2>2. cleared' \in [committed : BOOLEAN, forgot : BOOLEAN]
    BY <1>3 DEF ClearInv, ClearTyped
  <2>3. sources' \in [MemoryIds -> SUBSET Sess] /\ ForgottenStays'
    BY <1>1, <1>2, <1>3 DEF ClearInv, ClearTyped, ForgottenStays
  <2>4. RecHolds(r, p, web, durable', sessionGate', tombstone, cleared'.forgot, autoExtract)
    BY <1>2, <1>3, <2>1, KnownOf
       DEF RecHolds, Moves, Clears, Extracts, Tools, Checkpoints, ReleaseBoth
  <2>5. WillDropSnapshot(r) /\ WillDropCheckpoint(r)
    BY <2>1 DEF Moves, WillDropSnapshot, WillDropCheckpoint, OnItsWay
  <2>6. Turns(p, durable, durable') /\ Turns(p, sessionGate, sessionGate')
    BY <1>2, <1>3 DEF Turns, ReleaseBoth
  <2> QED
    BY <1>1, <1>2, <2>1, <2>2, <2>3, <2>4, <2>5, <2>6, StepKeeps DEF Moves, ClearInv, ClearTyped
<1>4. CASE \E bad \in Shared, stuck \in SUBSET Shared :
             /\ bad \notin stuck /\ Fault
             /\ sources' = [m \in MemoryIds |->
                              IF m \in stuck THEN sources[m] \ {Old} ELSE sources[m]]
             /\ Set(p, "clr", "rollback") /\ UNCHANGED <<durable, sessionGate, cleared>>
  <2>1. PICK stuck \in SUBSET Shared :
           /\ sources' = [m \in MemoryIds |->
                            IF m \in stuck THEN sources[m] \ {Old} ELSE sources[m]]
           /\ Set(p, "clr", "rollback") /\ UNCHANGED <<durable, sessionGate, cleared>>
    BY <1>4
  <2>2. PICK r : Moves(p, r, s.pump, s.ext, s.tool, "rollback", s.existed, s.retained)
    BY <2>1, ClearMoves DEF ClearStates
  <2>3. sources' \in [MemoryIds -> SUBSET Sess] /\ ForgottenStays'
    BY <1>1, <2>1 DEF ClearInv, ClearTyped, ForgottenStays
  <2>4. RecHolds(r, p, web, durable, sessionGate, tombstone, cleared.forgot, autoExtract)
    BY <1>2, <2>2, KnownOf DEF RecHolds, Moves, Clears, Extracts, Tools, Checkpoints
  <2>5. WillDropSnapshot(r) /\ WillDropCheckpoint(r)
    BY <2>2 DEF Moves, WillDropSnapshot, WillDropCheckpoint, OnItsWay, Clears
  <2> QED
    BY <1>1, <2>1, <2>2, <2>3, <2>4, <2>5, StepKeeps DEF Moves, ClearInv, ClearTyped, Turns
<1> QED
  BY <1>3, <1>4 DEF ClearProvenance

LEMMA ClearRollbackKeeps ==
    ASSUME ClearInv, NEW p \in Pages, ClearRollback(p)
    PROVE  ClearInv'
<1> DEFINE s == page[p]
<1>1. UNCHANGED <<web, snapshot, checkpoint, sources, autoExtract, memEpoch, cleared, leftover>>
  BY DEF ClearRollback, setting, history
<1>2. /\ s.clr = "rollback" /\ durable = p /\ sessionGate = p /\ tombstone
      /\ s.existed \in BOOLEAN /\ (~s.existed => ~cleared.forgot)
      /\ durable' = Nobody /\ sessionGate' = Nobody
  BY KnownOf DEF ClearRollback, RecHolds, Clears, PageState, ReleaseBoth
<1>3. PICK r :
         /\ tombstone' \in BOOLEAN /\ (s.existed => tombstone')
         /\ \/ Moves(p, r, s.pump, s.ext, s.tool, "store", s.existed, TRUE)
            \/ Moves(p, r, s.pump, s.ext, s.tool, "failed", s.existed, s.retained) /\ ~tombstone'
  <2>1. /\ tombstone' \in BOOLEAN /\ (s.existed => tombstone')
        /\ \/ page' = [page EXCEPT ![p] = [page[p] EXCEPT !.clr = "store", !.retained = TRUE]]
           \/ Set(p, "clr", "failed") /\ ~tombstone'
    BY <1>2 DEF ClearRollback
  <2> QED
    BY <2>1, ClearMoves, RetainedMoves DEF ClearStates
<1>4. RecHolds(r, p, web, durable', sessionGate', tombstone', cleared.forgot, autoExtract)
  BY <1>2, <1>3, KnownOf DEF RecHolds, Moves, Clears, Extracts, Tools, Checkpoints
<1>5. tombstone' => WillDropSnapshot(r) /\ WillDropCheckpoint(r)
  BY <1>3 DEF Moves, WillDropSnapshot, WillDropCheckpoint, OnItsWay, Clears
<1>6. Turns(p, durable, durable') /\ Turns(p, sessionGate, sessionGate')
  BY <1>2 DEF Turns
<1>7. ForgottenStays'
  BY <1>1, <1>2, <1>3 DEF ClearInv, ForgottenStays
<1> QED
  BY <1>1, <1>2, <1>3, <1>4, <1>5, <1>6, <1>7, StepKeeps DEF Moves, ClearInv, ClearTyped

LEMMA StoreMarkKeeps ==
    ASSUME ClearInv, NEW p \in Pages, StoreMark(p)
    PROVE  ClearInv'
<1> DEFINE s == page[p]
<1>1. UNCHANGED <<web, snapshot, checkpoint, sources, autoExtract, durable, sessionGate, memEpoch>>
  BY DEF StoreMark, setting
<1>2. s.clr = "store" /\ s.pump \in {"idle", "done"} /\ s.retained \in BOOLEAN
  BY KnownOf DEF StoreMark, RecHolds, PageState
<1>3. CASE /\ tombstone' = TRUE /\ cleared' = [cleared EXCEPT !.committed = TRUE]
           /\ Set(p, "clr", "current") /\ UNCHANGED leftover
  <2>1. PICK r : Moves(p, r, s.pump, s.ext, s.tool, "current", s.existed, s.retained)
    BY <1>3, ClearMoves DEF ClearStates
  <2>2. /\ cleared' \in [committed : BOOLEAN, forgot : BOOLEAN]
        /\ cleared'.forgot = cleared.forgot
    BY <1>3 DEF ClearInv, ClearTyped
  <2>3. RecHolds(r, p, web, durable, sessionGate, TRUE, cleared.forgot, autoExtract)
    BY <1>2, <2>1, KnownOf DEF RecHolds, Moves, Clears, Extracts, Tools, Checkpoints
  <2>4. WillDropSnapshot(r) /\ WillDropCheckpoint(r)
    BY <2>1 DEF Moves, WillDropSnapshot, WillDropCheckpoint, OnItsWay
  <2>5. ForgottenStays'
    BY <1>1, <1>3, <2>2 DEF ClearInv, ForgottenStays
  <2> QED
    BY <1>1, <1>3, <2>1, <2>2, <2>3, <2>4, <2>5, StepKeeps DEF Moves, ClearInv, ClearTyped, Turns
<1>4. CASE /\ UNCHANGED <<tombstone, cleared>>
           /\ Set(p, "clr", IF page[p].retained THEN "switch" ELSE "failed")
           /\ leftover' = (leftover \/ page[p].retained)
  <2>1. PICK v \in {"switch", "failed"} : Set(p, "clr", v)
    BY <1>4
  <2>2. PICK r : Moves(p, r, s.pump, s.ext, s.tool, v, s.existed, s.retained)
    BY <2>1, ClearMoves DEF ClearStates
  <2>3. RecHolds(r, p, web, durable, sessionGate, tombstone, cleared.forgot, autoExtract)
    BY <1>2, <2>2, KnownOf DEF RecHolds, Moves, Clears, Extracts, Tools, Checkpoints
  <2>4. ~s.retained => ~WillDropSnapshot(s) /\ ~WillDropCheckpoint(s)
    BY <1>2 DEF WillDropSnapshot, WillDropCheckpoint, OnItsWay, Clears
  <2>5. leftover' \in BOOLEAN /\ (~leftover' => ~leftover /\ ~s.retained)
    BY <1>4
  <2>6. ForgottenStays'
    BY <1>1, <1>4 DEF ClearInv, ForgottenStays
  <2> QED
    BY <1>1, <1>4, <2>2, <2>3, <2>4, <2>5, <2>6, StepKeeps DEF Moves, ClearInv, ClearTyped, Turns
<1> QED
  BY <1>3, <1>4 DEF StoreMark

LEMMA StoreCurrentKeeps ==
    ASSUME ClearInv, NEW p \in Pages, StoreCurrent(p)
    PROVE  ClearInv'
<1> DEFINE s == page[p]
<1>1. /\ UNCHANGED <<web, tombstone, checkpoint, sources, autoExtract, durable, sessionGate,
                     memEpoch, cleared>>
      /\ leftover' \in {leftover, TRUE}
  BY DEF StoreCurrent, setting
<1>2. s.clr = "current" /\ s.pump \in {"idle", "done"}
  BY KnownOf DEF StoreCurrent, RecHolds
<1>3. ~leftover' => snapshot' # Old
  BY DEF StoreCurrent, Old, Nobody
<1>4. PICK r : Moves(p, r, s.pump, s.ext, s.tool, "artifacts", s.existed, s.retained)
  BY ClearMoves DEF StoreCurrent, ClearStates
<1>5. RecHolds(r, p, web, durable, sessionGate, tombstone, cleared.forgot, autoExtract)
  BY <1>2, <1>4, KnownOf DEF RecHolds, Moves, Clears, Extracts, Tools, Checkpoints
<1>6. WillDropCheckpoint(r)
  BY <1>4 DEF Moves, WillDropCheckpoint
<1> QED
  BY <1>1, <1>3, <1>4, <1>5, <1>6, StepKeeps DEF Moves, ClearInv, ClearTyped, Turns, ForgottenStays

LEMMA StoreArtifactsKeeps ==
    ASSUME ClearInv, NEW p \in Pages, StoreArtifacts(p)
    PROVE  ClearInv'
<1> DEFINE s == page[p]
<1>1. /\ UNCHANGED <<web, tombstone, snapshot, sources, autoExtract, durable, sessionGate,
                     memEpoch, cleared>>
      /\ leftover' \in {leftover, TRUE}
  BY DEF StoreArtifacts, setting
<1>2. s.clr = "artifacts" /\ s.pump \in {"idle", "done"}
  BY KnownOf DEF StoreArtifacts, RecHolds
<1>3. ~leftover' => ~checkpoint'
  BY DEF StoreArtifacts
<1>4. PICK r : Moves(p, r, s.pump, s.ext, s.tool, "switch", s.existed, s.retained)
  BY ClearMoves DEF StoreArtifacts, ClearStates
<1>5. RecHolds(r, p, web, durable, sessionGate, tombstone, cleared.forgot, autoExtract)
  BY <1>2, <1>4, KnownOf DEF RecHolds, Moves, Clears, Extracts, Tools, Checkpoints
<1>6. ~WillDropSnapshot(s)
  BY <1>2 DEF WillDropSnapshot, OnItsWay, Clears
<1> QED
  BY <1>1, <1>3, <1>4, <1>5, <1>6, StepKeeps DEF Moves, ClearInv, ClearTyped, Turns, ForgottenStays

LEMMA ClearSwitchKeeps ==
    ASSUME ClearInv, NEW p \in Pages, ClearSwitch(p)
    PROVE  ClearInv'
<1> DEFINE s == page[p]
           r == [s EXCEPT !.clr = "idle", !.session = New, !.pump = "idle",
                          !.force = FALSE, !.existed = FALSE, !.retained = FALSE]
<1>1. /\ UNCHANGED <<web, tombstone, snapshot, checkpoint, sources, autoExtract, durable,
                     sessionGate, cleared, leftover>>
      /\ memEpoch' \in [Pages -> Nat]
  BY DEF ClearSwitch, setting, disk, history, ClearInv, ClearTyped
<1>2. /\ s \in PageState /\ page' = [page EXCEPT ![p] = r]
      /\ s.clr = "switch" /\ s.pump \in {"idle", "done"}
  BY KnownOf DEF ClearSwitch, RecHolds
<1>3. RecHolds(s, p, web, durable, sessionGate, tombstone, cleared.forgot, autoExtract)
  BY KnownOf
<1>4. ~WillDropSnapshot(s) /\ ~WillDropCheckpoint(s)
  BY <1>2 DEF WillDropSnapshot, WillDropCheckpoint, OnItsWay, Clears
<1> HIDE DEF s
<1>5. r \in PageState /\ r.pump = "idle" /\ r.ext = s.ext /\ r.tool = s.tool /\ r.clr = "idle"
  BY <1>2 DEF PageState
<1> HIDE DEF r
<1>6. RecHolds(r, p, web, durable, sessionGate, tombstone, cleared.forgot, autoExtract)
  BY <1>3, <1>5 DEF RecHolds, Clears, Extracts, Tools, Checkpoints
<1> QED
  BY <1>1, <1>2, <1>4, <1>5, <1>6, StepKeeps
     DEF s, ClearInv, ClearTyped, Turns, ForgottenStays

LEMMA ClearAgainKeeps ==
    ASSUME ClearInv, NEW p \in Pages, ClearAgain(p)
    PROVE  ClearInv'
<1> DEFINE s == page[p]
           r == [s EXCEPT !.clr = "idle", !.force = FALSE, !.existed = FALSE, !.retained = FALSE]
<1>1. UNCHANGED <<web, tombstone, snapshot, checkpoint, sources, autoExtract, durable,
                  sessionGate, memEpoch, cleared, leftover>>
  BY DEF ClearAgain, setting, disk, history
<1>2. s \in PageState /\ page' = [page EXCEPT ![p] = r] /\ s.clr = "failed"
  BY KnownOf DEF ClearAgain
<1>3. RecHolds(s, p, web, durable, sessionGate, tombstone, cleared.forgot, autoExtract)
  BY KnownOf
<1> HIDE DEF s
<1>4. /\ r \in PageState /\ r.session = s.session /\ r.pump = s.pump /\ r.ext = s.ext
      /\ r.tool = s.tool /\ r.clr = "idle"
  BY <1>2 DEF PageState
<1> HIDE DEF r
<1>5. RecHolds(r, p, web, durable, sessionGate, tombstone, cleared.forgot, autoExtract)
  BY <1>2, <1>3, <1>4 DEF RecHolds, Clears, Extracts, Tools, Checkpoints
<1>6. /\ WillDropSnapshot(s) => WillDropSnapshot(r)
      /\ WillDropCheckpoint(s) => WillDropCheckpoint(r)
  BY <1>2, <1>4 DEF WillDropSnapshot, WillDropCheckpoint, OnItsWay, Clears
<1> QED
  BY <1>1, <1>2, <1>4, <1>5, <1>6, StepKeeps
     DEF s, ClearInv, ClearTyped, Turns, ForgottenStays

LEMMA CloseKeeps ==
    ASSUME ClearInv, NEW p \in Pages, Close(p)
    PROVE  ClearInv'
<1> DEFINE s == page[p]
           r == [s EXCEPT !.session = Nobody, !.pump = "idle", !.ext = "idle",
                          !.token = NoToken, !.tool = "idle", !.clr = "idle",
                          !.force = FALSE, !.existed = FALSE, !.retained = FALSE]
<1>1. UNCHANGED <<web, tombstone, snapshot, checkpoint, sources, autoExtract, memEpoch, cleared>>
  BY DEF Close, setting, disk
<1>2. s \in PageState /\ page' = [page EXCEPT ![p] = r]
  BY KnownOf DEF Close
<1>3. /\ leftover' \in BOOLEAN
      /\ ~leftover' => ~leftover /\ s.pump \notin {"recheck", "verify"} /\ s.clr \notin Removing
  BY DEF Close
<1>4. ~leftover' => ~leftover /\ ~WillDropSnapshot(s) /\ ~WillDropCheckpoint(s)
  BY <1>3 DEF Removing, WillDropSnapshot, WillDropCheckpoint, OnItsWay, Clears
<1>5. Turns(p, durable, durable') /\ Turns(p, sessionGate, sessionGate')
  BY DEF Close, Turns
<1>6. r \in PageState /\ r.pump = "idle" /\ r.ext = "idle" /\ r.tool = "idle" /\ r.clr = "idle"
  <2> HIDE DEF s
  <2>1. NoToken \in [session : {Old, New, Nobody}, epoch : Nat]
    BY DEF NoToken
  <2> QED
    BY <1>2, <2>1 DEF PageState
<1> HIDE DEF r
<1>7. RecHolds(r, p, web, durable', sessionGate', tombstone, cleared.forgot, autoExtract)
  BY <1>6 DEF RecHolds, Clears, Extracts, Tools, Checkpoints
<1> QED
  BY <1>1, <1>2, <1>3, <1>4, <1>5, <1>6, <1>7, StepKeeps DEF ClearInv, ClearTyped, ForgottenStays

-----------------------------------------------------------------------------
(* The memory page, and the theorem.                                       *)

\* Extraction runs behind the lock that the switch takes.
LEMMA SwitchOffKeeps ==
    ASSUME ClearInv, set_auto_extract_enabled
    PROVE  ClearInv'
<1>1. UNCHANGED <<web, tombstone, snapshot, checkpoint, sources, durable, sessionGate,
                  memEpoch, page, cleared, leftover>>
  BY DEF set_auto_extract_enabled, setting, history
<1>2. ASSUME NEW p \in Pages PROVE PageHolds(p)'
  <2>1. ~Extracts(page[p])
    BY KnownOf DEF RecHolds, set_auto_extract_enabled, DurableFree
  <2>2. RecHolds(page[p], p, web, durable, sessionGate, tombstone, cleared.forgot, autoExtract')
    BY <2>1, KnownOf DEF RecHolds
  <2> QED
    BY <1>1, <2>2 DEF PageHolds
<1> QED
  BY <1>1, <1>2 DEF ClearInv, ClearTyped, ForgottenStays, SnapshotGoes, CheckpointGoes

LEMMA DeleteKeeps ==
    ASSUME ClearInv, NEW m \in MemoryIds, delete_library_memory(m)
    PROVE  ClearInv'
<1>1. UNCHANGED <<web, tombstone, snapshot, checkpoint, autoExtract, durable, sessionGate,
                  memEpoch, page, cleared, leftover>>
  BY DEF delete_library_memory, setting, history
<1>2. sources' \in [MemoryIds -> SUBSET Sess] /\ ForgottenStays'
  BY <1>1 DEF delete_library_memory, ClearInv, ClearTyped, ForgottenStays
<1> QED
  BY <1>1, <1>2 DEF ClearInv, ClearTyped, PageHolds, SnapshotGoes, CheckpointGoes

LEMMA ClearInvStep == ClearInv /\ [MemoryNext]_memoryVars => ClearInv'
<1> SUFFICES ASSUME ClearInv, [MemoryNext]_memoryVars PROVE ClearInv'
  OBVIOUS
<1>1. ASSUME NEW p \in Pages, PageStep(p) PROVE ClearInv'
  BY <1>1, TurnEndsKeeps, SaveCheckKeeps, SaveWriteKeeps, CleanupKeeps, CheckpointCheckKeeps,
     CheckpointWriteKeeps, CheckpointVerifyKeeps, ExtractBeginsKeeps, ExtractWritesKeeps,
     ExtractEndsKeeps, ToolBeginsKeeps, ToolWritesKeeps, ClearBeginsKeeps, ClearScanKeeps,
     ClearMarkKeeps, ClearForgetsKeeps, ClearProvenanceKeeps, ClearRollbackKeeps, StoreMarkKeeps,
     StoreCurrentKeeps, StoreArtifactsKeeps, ClearSwitchKeeps, ClearAgainKeeps, CloseKeeps
     DEF PageStep
<1>2. CASE UNCHANGED memoryVars
  BY <1>2 DEF memoryVars, ClearInv, ClearTyped, PageHolds, ForgottenStays, SnapshotGoes,
     CheckpointGoes
<1> QED
  BY <1>1, <1>2, SwitchOffKeeps, DeleteKeeps DEF MemoryNext

\* A cleared session does not come back, with any number of pages, memories and
\* failing storage calls: while the tombstone stands, nothing a turn, an
\* extraction or a tool of any page had under way leaves its snapshot or its
\* checkpoint behind, forgotten memories stay forgotten, and no extraction runs
\* once the user has switched extraction off.
THEOREM ClearedSessionsStayGone == MemorySpec => []ClearedStaysGone
<1>1. ClearInv => ClearedStaysGone
  <2> SUFFICES ASSUME ClearInv PROVE ClearedStaysGone
    OBVIOUS
  <2>1. Settled => \A p \in Pages : ~WillDropSnapshot(page[p]) /\ ~WillDropCheckpoint(page[p])
    BY DEF Settled, Removing, WillDropSnapshot, WillDropCheckpoint, OnItsWay, Clears
  <2>2. tombstone /\ ~leftover /\ Settled => snapshot # Old /\ ~checkpoint
    BY <2>1 DEF ClearInv, SnapshotGoes, CheckpointGoes
  <2>3. (\E p \in Pages : page[p].ext = "model") => autoExtract
    BY KnownOf DEF RecHolds, Extracts
  <2> QED
    BY <2>2, <2>3 DEF ClearedStaysGone, ClearInv, ForgottenStays
<1> QED
  BY <1>1, ClearInitInv, ClearInvStep, PTL DEF MemorySpec

-----------------------------------------------------------------------------
(* The page that sells plans.                                              *)

JobStates == {"unsent", "sent", "locked", "open", "paid", "settled", "short", "broken",
              "ok", "insufficient", "failed", "in_progress", "refused"}
JobRec == [at : JobStates, balance : Int]
ProfileRec == [balance : Int, old : BOOLEAN]
LoadRec == [at : {"unused", "spawned", "ended"} \cup Asking, version : Nat, epoch : Nat,
            lang : Languages, balance : Int, old : BOOLEAN]
ShopRec == [dialog : BOOLEAN, submitting : BOOLEAN, inline : BOOLEAN, attempt : Nat,
            current : Jobs \cup {NoJob}, balance : Int, old : BOOLEAN, bought : Int, epoch : Nat,
            version : Nat, failed : BOOLEAN, lang : Languages]

ShopTyped ==
    /\ buyer \in Int /\ job \in [Jobs -> JobRec] /\ load \in [Loads -> LoadRec]
    /\ shop \in ShopRec /\ profile \in ProfileRec /\ otherRead \in Int

\* The balance only falls, so what a purchase reported is not below it.
Reported(r, b) == r.at \in {"paid", "settled", "ok"} => b <= r.balance

\* A profile that is not an old one was cached after the last purchase that
\* has deleted it, so that it is not above what that purchase left.
Current(c, r) ==
    c # NotCached /\ ~c.old /\ r.at \in {"settled", "ok"} => c.balance <= r.balance
CurrentShown(c, s) ==
    c # NotCached /\ ~c.old /\ s.bought # Unknown => c.balance <= s.bought

\* A request of this epoch was sent after the last purchase was shown.
Ordered(r, s) ==
    /\ r.at \in Asking => r.epoch <= s.epoch
    /\ r.at \in {"read", "served"} /\ r.epoch = s.epoch /\ s.bought # Unknown /\ ~r.old
           => r.balance <= s.bought

\* What the page shows is not above what the last purchase left, unless it
\* comes from an old profile, and the balance is not above it either.
Shows(s, b) ==
    /\ s.submitting => s.current \in Jobs
    /\ s.bought # Unknown => (s.balance <= s.bought \/ s.old) /\ b <= s.bought

ShopInv ==
    /\ ShopTyped /\ Shows(shop, buyer)
    /\ \A j \in Jobs : Reported(job[j], buyer)
    /\ CurrentShown(profile, shop) /\ \A j \in Jobs : Current(profile, job[j])
    /\ \A l \in Loads : Ordered(load[l], shop)

LEMMA ShopInitInv == PurchaseInit => ShopInv
<1> SUFFICES ASSUME PurchaseInit PROVE ShopInv
  OBVIOUS
<1> DEFINE n == [NewLoad EXCEPT !.at = "unused"]
           r == [at |-> "unsent", balance |-> Unknown]
<1>0. Unknown \in Int /\ "en" \in Languages
  BY DEF Unknown, Languages
<1>1. PICK first \in Loads : load = [l \in Loads |-> IF l = first THEN NewLoad ELSE n]
  BY DEF PurchaseInit
<1>2. /\ NewLoad \in LoadRec /\ NewLoad.at = "spawned"
      /\ n \in LoadRec /\ n.at = "unused"
  BY <1>0 DEF NewLoad, LoadRec
<1>3. load \in [Loads -> LoadRec] /\ \A l \in Loads : Ordered(load[l], shop)
  <2> HIDE DEF n
  <2> QED
    BY <1>1, <1>2 DEF Ordered, Asking
<1>4. job = [j \in Jobs |-> r] /\ r \in JobRec /\ r.at = "unsent"
  BY <1>0 DEF PurchaseInit, JobRec, JobStates
<1>5. job \in [Jobs -> JobRec] /\ \A j \in Jobs : Reported(job[j], buyer)
  <2> HIDE DEF r
  <2> QED
    BY <1>4 DEF Reported
<1>6. shop \in ShopRec /\ ~shop.submitting /\ shop.bought = Unknown
  BY <1>0 DEF PurchaseInit, ShopRec
<1>7. buyer \in 0 .. Deposit
  BY DEF PurchaseInit
<1>8. buyer \in Int
  BY <1>7, PurchaseAssumption
<1>9. profile = NotCached /\ profile \in ProfileRec /\ otherRead \in Int
  BY <1>0 DEF PurchaseInit, NotCached, ProfileRec
<1> QED
  BY <1>3, <1>5, <1>6, <1>8, <1>9 DEF ShopInv, ShopTyped, Shows, Current, CurrentShown

\* A profile that is gone, is marked as old or was just read breaks nothing.
Renewed(c) ==
    /\ c \in ProfileRec
    /\ c = profile \/ c = NotCached \/ c.old \/ c.balance = buyer

LEMMA RenewedHolds ==
    ASSUME ShopInv, NEW c, Renewed(c)
    PROVE  CurrentShown(c, shop) /\ \A j \in Jobs : Current(c, job[j])
<1>1. CASE c.balance = buyer
  BY <1>1 DEF ShopInv, Shows, Reported, Current, CurrentShown
<1> QED
  BY <1>1 DEF Renewed, ShopInv, Current, CurrentShown

LEMMA FilledRenews ==
    ASSUME NEW b \in Int
    PROVE  Renewed(Filled(b))
<1>1. (b # buyer) \in BOOLEAN
  OBVIOUS
<1>2. Filled(b) \in ProfileRec /\ Filled(b).balance = b /\ Filled(b).old = (b # buyer)
  BY DEF Filled, ProfileRec
<1> QED
  BY <1>2 DEF Renewed

\* One request of the page changes, to the state r.
LEMMA LoadKeeps ==
    ASSUME ShopInv, NEW l \in Loads, NEW r \in LoadRec, load' = [load EXCEPT ![l] = r],
           UNCHANGED <<buyer, job, otherRead>>, Renewed(profile'), NEW s \in ShopRec, shop' = s,
           s.epoch = shop.epoch, s.bought = shop.bought, s.submitting = shop.submitting,
           s.current = shop.current, Ordered(r, shop),
           s.bought # Unknown => s.balance <= s.bought \/ s.old
    PROVE  ShopInv'
<1>1. ShopTyped'
  BY DEF ShopInv, ShopTyped, Renewed
<1>2. Shows(s, buyer)
  BY DEF ShopInv, Shows
<1>3. ASSUME NEW k \in Loads PROVE Ordered(load'[k], s)
  BY DEF ShopInv, ShopTyped, Ordered
<1>4. CurrentShown(profile', s) /\ \A j \in Jobs : Current(profile', job[j])
  BY RenewedHolds DEF CurrentShown
<1> QED
  BY <1>1, <1>2, <1>3, <1>4 DEF ShopInv

\* Only the cache changes, or what its other reader holds.
LEMMA CacheKeeps ==
    ASSUME ShopInv, UNCHANGED <<buyer, job, shop, load>>, Renewed(profile'), otherRead' \in Int
    PROVE  ShopInv'
<1>1. ShopTyped'
  BY DEF ShopInv, ShopTyped, Renewed
<1> QED
  BY <1>1, RenewedHolds DEF ShopInv

LEMMA CacheStepsKeep ==
    ASSUME ShopInv, OtherReads \/ OtherFills \/ ExpireProfile
    PROVE  ShopInv'
<1>1. /\ UNCHANGED <<buyer, job, shop, load>>
      /\ otherRead \in Int /\ buyer \in Int /\ profile \in ProfileRec
  BY DEF ShopInv, ShopTyped, OtherReads, OtherFills, ExpireProfile
<1>2. Unknown \in Int /\ NotCached \in ProfileRec
  BY DEF Unknown, NotCached, ProfileRec
<1>3. CASE OtherReads
  BY <1>1, <1>3, CacheKeeps DEF OtherReads, Renewed
<1>4. CASE OtherFills
  BY <1>1, <1>2, <1>4, FilledRenews, CacheKeeps DEF OtherFills, Renewed
<1>5. CASE ExpireProfile
  BY <1>1, <1>2, <1>5, CacheKeeps DEF ExpireProfile, Renewed
<1> QED
  BY <1>3, <1>4, <1>5

LEMMA SendLoadKeeps ==
    ASSUME ShopInv, NEW l \in Loads, SendLoad(l)
    PROVE  ShopInv'
<1> DEFINE o == load[l]
           r == [o EXCEPT !.at = "sent", !.epoch = shop.epoch]
<1>1. o \in LoadRec /\ shop \in ShopRec /\ load' = [load EXCEPT ![l] = r]
      /\ UNCHANGED <<buyer, job, shop, otherRead>> /\ Renewed(profile')
  BY DEF ShopInv, ShopTyped, SendLoad, serverVars, cacheOfUser, Renewed
<1>2. shop.epoch \in Nat
  BY <1>1 DEF ShopRec
<1> HIDE DEF o
<1>3. r \in LoadRec /\ r.at = "sent" /\ r.epoch = shop.epoch
  BY <1>1, <1>2 DEF LoadRec, Asking
<1> HIDE DEF r
<1>4. Ordered(r, shop) /\ (shop.bought # Unknown => shop.balance <= shop.bought \/ shop.old)
  BY <1>2, <1>3 DEF Ordered, ShopInv, Shows
<1> QED
  BY <1>1, <1>3, <1>4, LoadKeeps

\* get_me answers from the cache, or from the row and fills the cache.
LEMMA GetMeKeeps ==
    ASSUME ShopInv, NEW l \in Loads, LookUpProfile(l) \/ ReadProfile(l) \/ FillProfile(l)
    PROVE  ShopInv'
<1> DEFINE o == load[l]
           c == profile
           hit == [o EXCEPT !.at = "served", !.balance = c.balance, !.old = c.old]
           missed == [o EXCEPT !.at = "missed"]
           read == [o EXCEPT !.at = "read", !.balance = buyer]
           served == [o EXCEPT !.at = "served"]
<1>1. /\ o \in LoadRec /\ shop \in ShopRec /\ c \in ProfileRec /\ buyer \in Int
      /\ UNCHANGED <<buyer, job, shop, otherRead>> /\ Ordered(o, shop) /\ CurrentShown(c, shop)
      /\ o.at \in {"sent", "missed", "read"} /\ Shows(shop, buyer)
  BY DEF ShopInv, ShopTyped, LookUpProfile, ReadProfile, FillProfile, serverVars, cacheOfUser
<1>2. c.balance \in Int /\ c.old \in BOOLEAN /\ o.balance \in Int
  BY <1>1 DEF ProfileRec, LoadRec
<1>3. Renewed(profile')
  BY <1>1, <1>2, FilledRenews
     DEF Renewed, LookUpProfile, ReadProfile, FillProfile, serverVars, cacheOfUser
<1>4. \/ load' = [load EXCEPT ![l] = hit] /\ c # NotCached
      \/ load' = [load EXCEPT ![l] = missed]
      \/ load' = [load EXCEPT ![l] = read]
      \/ load' = [load EXCEPT ![l] = served] /\ o.at = "read"
  BY DEF LookUpProfile, ReadProfile, FillProfile, ShopInv, ShopTyped
<1> HIDE DEF o, c
<1>5. /\ hit \in LoadRec /\ hit.at = "served" /\ hit.epoch = o.epoch
      /\ hit.balance = c.balance /\ hit.old = c.old
  BY <1>1, <1>2 DEF LoadRec, Asking
<1>6. missed \in LoadRec /\ missed.at = "missed" /\ missed.epoch = o.epoch
  BY <1>1 DEF LoadRec, Asking
<1>7. read \in LoadRec /\ read.at = "read" /\ read.epoch = o.epoch /\ read.balance = buyer
  BY <1>1 DEF LoadRec, Asking
<1>8. /\ served \in LoadRec /\ served.at = "served" /\ served.epoch = o.epoch
      /\ served.balance = o.balance /\ served.old = o.old
  BY <1>1 DEF LoadRec, Asking
<1> HIDE DEF hit, missed, read, served
<1>9. PICK r \in LoadRec : load' = [load EXCEPT ![l] = r] /\ Ordered(r, shop)
  <2>1. o.epoch <= shop.epoch
    BY <1>1 DEF Ordered, Asking
  <2>2. CASE load' = [load EXCEPT ![l] = hit] /\ c # NotCached
    BY <1>1, <1>5, <2>1, <2>2 DEF Ordered, CurrentShown
  <2>3. CASE load' = [load EXCEPT ![l] = missed]
    BY <1>6, <2>1, <2>3 DEF Ordered
  <2>4. CASE load' = [load EXCEPT ![l] = read]
    BY <1>1, <1>7, <2>1, <2>4 DEF Ordered, Shows
  <2>5. CASE load' = [load EXCEPT ![l] = served] /\ o.at = "read"
    BY <1>1, <1>8, <2>1, <2>5 DEF Ordered
  <2> QED
    BY <1>4, <2>2, <2>3, <2>4, <2>5
<1>10. shop.bought # Unknown => shop.balance <= shop.bought \/ shop.old
  BY <1>1 DEF Shows
<1> QED
  BY <1>1, <1>3, <1>9, <1>10, LoadKeeps

LEMMA LoadAnsweredKeeps ==
    ASSUME ShopInv, NEW l \in Loads, LoadAnswered(l)
    PROVE  ShopInv'
<1> DEFINE o == load[l]
           r == [o EXCEPT !.at = "ended"]
           t == shop
           seen == [t EXCEPT !.failed = FALSE, !.balance = o.balance, !.old = o.old]
           failed == [t EXCEPT !.failed = TRUE]
<1>1. o \in LoadRec /\ t \in ShopRec /\ load' = [load EXCEPT ![l] = r]
      /\ UNCHANGED <<buyer, job, otherRead>> /\ Renewed(profile') /\ Ordered(o, t) /\ Shows(t, buyer)
  BY DEF ShopInv, ShopTyped, LoadAnswered, serverVars, cacheOfUser, Renewed
<1>2. \/ shop' = t
      \/ shop' = seen /\ o.at = "served" /\ o.epoch = t.epoch
      \/ shop' = failed
  BY DEF LoadAnswered, balance_response_is_stale
<1> HIDE DEF o, t
<1>3. r \in LoadRec /\ r.at = "ended" /\ o.balance \in Int /\ o.old \in BOOLEAN
  BY <1>1 DEF LoadRec
<1>4. /\ seen \in ShopRec /\ seen.balance = o.balance /\ seen.old = o.old /\ seen.epoch = t.epoch
      /\ seen.bought = t.bought /\ seen.submitting = t.submitting /\ seen.current = t.current
  BY <1>1, <1>3 DEF ShopRec
<1>5. /\ failed \in ShopRec /\ failed.balance = t.balance /\ failed.old = t.old
      /\ failed.epoch = t.epoch /\ failed.bought = t.bought
      /\ failed.submitting = t.submitting /\ failed.current = t.current
  BY <1>1 DEF ShopRec
<1> HIDE DEF r, seen, failed
<1>6. PICK s \in ShopRec :
         /\ shop' = s /\ s.epoch = t.epoch /\ s.bought = t.bought /\ s.submitting = t.submitting
         /\ s.current = t.current /\ (s.bought # Unknown => s.balance <= s.bought \/ s.old)
  BY <1>1, <1>2, <1>4, <1>5 DEF Ordered, Shows
<1>7. Ordered(r, shop)
  BY <1>3 DEF Ordered, Asking
<1> QED
  BY <1>1, <1>3, <1>6, <1>7, LoadKeeps DEF t

LEMMA SpawnStepsKeep ==
    ASSUME ShopInv, ToggleLanguage \/ RetryBalance
    PROVE  ShopInv'
<1> DEFINE t == shop
<1>1. t \in ShopRec /\ Shows(t, buyer)
  BY DEF ShopInv, ShopTyped
<1>2. PICK s \in ShopRec :
         /\ shop' = s /\ SpawnLoad(s) /\ s.epoch = t.epoch /\ s.bought = t.bought
         /\ s.submitting = t.submitting /\ s.current = t.current /\ s.balance = t.balance
         /\ s.old = t.old
  <2>1. CASE ToggleLanguage
    <3>1. PICK g \in Languages : shop' = [t EXCEPT !.lang = g] /\ SpawnLoad(shop')
      BY <2>1 DEF ToggleLanguage
    <3> HIDE DEF t
    <3> QED
      BY <1>1, <3>1 DEF ShopRec
  <2>2. CASE RetryBalance
    <3>1. shop' = [t EXCEPT !.failed = FALSE, !.version = t.version + 1] /\ SpawnLoad(shop')
      BY <2>2 DEF RetryBalance
    <3> DEFINE n == t.version + 1
    <3> HIDE DEF t
    <3>2. n \in Nat
      BY <1>1 DEF ShopRec
    <3> HIDE DEF n
    <3>3. shop' = [t EXCEPT !.failed = FALSE, !.version = n]
      BY <3>1 DEF n
    <3> DEFINE r == [t EXCEPT !.failed = FALSE, !.version = n]
    <3>4. /\ r \in ShopRec /\ r.epoch = t.epoch /\ r.bought = t.bought
          /\ r.submitting = t.submitting /\ r.current = t.current /\ r.balance = t.balance
          /\ r.old = t.old
      BY <1>1, <3>2 DEF ShopRec
    <3> HIDE DEF r
    <3>5. shop' = r /\ SpawnLoad(r)
      BY <3>1, <3>3 DEF r
    <3> QED
      BY <3>4, <3>5
  <2> QED
    BY <2>1, <2>2
<1> DEFINE r == [NewLoad EXCEPT !.version = s.version, !.lang = s.lang]
<1>3. PICK l \in Loads : load' = [load EXCEPT ![l] = r]
  BY <1>2 DEF SpawnLoad
<1>4. r \in LoadRec /\ r.at = "spawned"
  <2>1. s.version \in Nat /\ s.lang \in Languages /\ Unknown \in Int /\ "en" \in Languages
    BY <1>2 DEF ShopRec, Unknown, Languages
  <2> QED
    BY <2>1 DEF NewLoad, LoadRec
<1> HIDE DEF r
<1>5. UNCHANGED <<buyer, job, otherRead, profile>> /\ Ordered(r, shop)
  BY <1>4 DEF ToggleLanguage, RetryBalance, serverVars, cacheOfUser, Ordered, Asking
<1>6. Renewed(profile')
  BY <1>5 DEF Renewed, ShopInv, ShopTyped
<1>7. s.bought # Unknown => s.balance <= s.bought \/ s.old
  BY <1>1, <1>2 DEF Shows
<1> QED
  BY <1>2, <1>3, <1>4, <1>5, <1>6, <1>7, LoadKeeps

\* The dialog changes, and perhaps one job is sent; no purchase is shown.
LEMMA DialogKeeps ==
    ASSUME ShopInv, UNCHANGED <<buyer, cacheOfUser, load>>, NEW s \in ShopRec, shop' = s,
           s.epoch = shop.epoch, s.bought = shop.bought, s.balance = shop.balance,
           s.old = shop.old, s.submitting => s.current \in Jobs,
           \/ UNCHANGED job
           \/ \E j \in Jobs : job' = [job EXCEPT ![j].at = "sent"]
    PROVE  ShopInv'
<1>1. /\ job' \in [Jobs -> JobRec]
      /\ \A j \in Jobs : Reported(job'[j], buyer) /\ Current(profile, job'[j])
  <2>1. CASE UNCHANGED job
    BY <2>1 DEF ShopInv, ShopTyped
  <2>2. CASE \E j \in Jobs : job' = [job EXCEPT ![j].at = "sent"]
    <3>1. PICK j \in Jobs : job' = [job EXCEPT ![j].at = "sent"]
      BY <2>2
    <3> DEFINE o == job[j]
               r == [o EXCEPT !.at = "sent"]
    <3>2. o \in JobRec /\ job' = [job EXCEPT ![j] = r]
      BY <3>1 DEF ShopInv, ShopTyped
    <3> HIDE DEF o
    <3>3. r \in JobRec /\ r.at = "sent"
      BY <3>2 DEF JobRec, JobStates
    <3> HIDE DEF r
    <3> QED
      BY <3>2, <3>3 DEF ShopInv, ShopTyped, Reported, Current
  <2> QED
    BY <2>1, <2>2
<1>2. Shows(s, buyer)
  BY DEF ShopInv, Shows
<1>3. CurrentShown(profile, s) /\ \A l \in Loads : Ordered(load[l], s)
  BY DEF ShopInv, Ordered, CurrentShown
<1> QED
  BY <1>1, <1>2, <1>3 DEF ShopInv, ShopTyped, cacheOfUser

\* A request is sent, from the page's state s.
LEMMA SendKeeps ==
    ASSUME ShopInv, UNCHANGED <<buyer, cacheOfUser, load>>, NEW s \in ShopRec, NEW n \in Nat,
           Send(s, n), s.epoch = shop.epoch, s.bought = shop.bought,
           s.balance = shop.balance, s.old = shop.old
    PROVE  ShopInv'
<1>1. PICK j \in Jobs : /\ job' = [job EXCEPT ![j].at = "sent"]
                        /\ shop' = [s EXCEPT !.attempt = n, !.current = j]
  BY DEF Send
<1> DEFINE r == [s EXCEPT !.attempt = n, !.current = j]
<1>2. /\ r \in ShopRec /\ r.epoch = s.epoch /\ r.bought = s.bought /\ r.balance = s.balance
      /\ r.old = s.old /\ r.current = j
  BY <1>1 DEF ShopRec
<1> HIDE DEF r
<1>3. shop' = r
  BY <1>1 DEF r
<1> QED
  BY <1>1, <1>2, <1>3, DialogKeeps

LEMMA RetryKeeps ==
    ASSUME ShopInv, UNCHANGED <<buyer, cacheOfUser, load>>, RetryOrGiveUp
    PROVE  ShopInv'
<1> DEFINE t == shop
           n == t.attempt + 1
           r == [t EXCEPT !.submitting = FALSE, !.dialog = FALSE, !.inline = FALSE, !.current = NoJob]
<1>1. t \in ShopRec
  BY DEF ShopInv, ShopTyped
<1>2. CASE Send(t, n)
  <2>1. n \in Nat
    <3> HIDE DEF t
    <3> QED
      BY <1>1 DEF ShopRec
  <2> HIDE DEF n
  <2> QED
    BY <1>1, <1>2, <2>1, SendKeeps
<1>3. CASE shop' = r /\ UNCHANGED job
  <2> HIDE DEF t
  <2>1. /\ r \in ShopRec /\ r.epoch = t.epoch /\ r.bought = t.bought /\ r.balance = t.balance
        /\ r.old = t.old /\ ~r.submitting
    BY <1>1 DEF ShopRec
  <2> HIDE DEF r
  <2> QED
    BY <1>3, <2>1, DialogKeeps DEF t
<1> QED
  BY <1>2, <1>3 DEF RetryOrGiveUp, apply_purchase_failure

LEMMA DialogStepsKeep ==
    ASSUME ShopInv, OpenDialog \/ CancelDialog \/ Confirm \/ LoseAnswer
    PROVE  ShopInv'
<1> DEFINE t == shop
           opened == [t EXCEPT !.dialog = TRUE, !.inline = FALSE]
           closed == [t EXCEPT !.dialog = FALSE]
           sending == [t EXCEPT !.submitting = TRUE, !.inline = FALSE]
<1>1. t \in ShopRec /\ (t.submitting => t.current \in Jobs)
  BY DEF ShopInv, ShopTyped, Shows
<1>2. \/ (shop' = opened \/ shop' = closed) /\ UNCHANGED job
      \/ Send(sending, 0)
      \/ RetryOrGiveUp
  BY DEF OpenDialog, CancelDialog, Confirm, LoseAnswer, serverVars
<1>3. UNCHANGED <<buyer, cacheOfUser, load>>
  BY DEF OpenDialog, CancelDialog, Confirm, LoseAnswer, serverVars
<1> HIDE DEF t
<1>4. /\ opened \in ShopRec /\ opened.epoch = t.epoch /\ opened.bought = t.bought
      /\ opened.balance = t.balance /\ opened.old = t.old /\ opened.submitting = t.submitting
      /\ opened.current = t.current
  BY <1>1 DEF ShopRec
<1>5. /\ closed \in ShopRec /\ closed.epoch = t.epoch /\ closed.bought = t.bought
      /\ closed.balance = t.balance /\ closed.old = t.old /\ closed.submitting = t.submitting
      /\ closed.current = t.current
  BY <1>1 DEF ShopRec
<1>6. /\ sending \in ShopRec /\ sending.epoch = t.epoch /\ sending.bought = t.bought
      /\ sending.balance = t.balance /\ sending.old = t.old
  BY <1>1 DEF ShopRec
<1> HIDE DEF opened, closed, sending
<1>7. CASE (shop' = opened \/ shop' = closed) /\ UNCHANGED job
  BY <1>1, <1>3, <1>4, <1>5, <1>7, DialogKeeps DEF t
<1>8. CASE Send(sending, 0)
  BY <1>3, <1>6, <1>8, SendKeeps DEF t
<1> QED
  BY <1>2, <1>3, <1>7, <1>8, RetryKeeps

\* A purchase is shown: no request that is under way is of the new epoch.
LEMMA ReceiveKeeps ==
    ASSUME ShopInv, Receive
    PROVE  ShopInv'
<1> DEFINE t == shop
           b == job[t.current].balance
           n == t.epoch + 1
           bought == [t EXCEPT !.submitting = FALSE, !.dialog = FALSE, !.inline = FALSE,
                               !.balance = b, !.old = FALSE, !.bought = b, !.epoch = n,
                               !.current = NoJob]
<1>1. t \in ShopRec /\ t.current \in Jobs /\ UNCHANGED <<buyer, cacheOfUser, load>>
  BY DEF ShopInv, ShopTyped, Shows, Receive
<1>2. CASE RetryOrGiveUp
  BY <1>1, <1>2, RetryKeeps
<1>3. CASE job[t.current].at = "ok" /\ shop' = bought /\ UNCHANGED job
  <2>1. /\ b \in Int /\ buyer \in Int /\ buyer <= b
        /\ profile # NotCached /\ ~profile.old => profile.balance <= b
    BY <1>1, <1>3 DEF ShopInv, ShopTyped, Reported, Current, JobRec
  <2>2. n \in Nat /\ t.epoch \in Nat /\ n > t.epoch
    <3> HIDE DEF t
    <3> QED
      BY <1>1 DEF ShopRec
  <2>3. \A l \in Loads : load[l] \in LoadRec /\ Ordered(load[l], t)
    BY DEF ShopInv, ShopTyped
  <2> HIDE DEF b, n, t
  <2>4. /\ bought \in ShopRec /\ bought.epoch = n /\ bought.bought = b /\ bought.balance = b
        /\ ~bought.submitting
    BY <1>1, <2>1, <2>2 DEF ShopRec
  <2> HIDE DEF bought
  <2>5. Shows(bought, buyer) /\ CurrentShown(profile, bought)
    BY <2>1, <2>4 DEF Shows, CurrentShown
  <2>6. ASSUME NEW l \in Loads PROVE Ordered(load[l], bought)
    <3>1. load[l].epoch \in Nat
      BY <2>3 DEF LoadRec
    <3> QED
      BY <2>2, <2>3, <2>4, <3>1 DEF Ordered, Asking
  <2> QED
    BY <1>1, <1>3, <2>4, <2>5, <2>6 DEF ShopInv, ShopTyped, cacheOfUser
<1>4. ASSUME NEW k \in BOOLEAN, shop' = apply_purchase_failure(k), UNCHANGED job PROVE ShopInv'
  <2> DEFINE r == [t EXCEPT !.submitting = FALSE, !.dialog = k, !.inline = k, !.current = NoJob]
  <2>1. shop' = r
    BY <1>4 DEF apply_purchase_failure
  <2> HIDE DEF t
  <2>2. /\ r \in ShopRec /\ r.epoch = t.epoch /\ r.bought = t.bought /\ r.balance = t.balance
        /\ r.old = t.old /\ ~r.submitting
    BY <1>1 DEF ShopRec
  <2> HIDE DEF r
  <2> QED
    BY <1>1, <1>4, <2>1, <2>2, DialogKeeps DEF t
<1>5. \/ RetryOrGiveUp
      \/ job[t.current].at = "ok" /\ shop' = bought /\ UNCHANGED job
      \/ \E k \in BOOLEAN : shop' = apply_purchase_failure(k) /\ UNCHANGED job
  BY DEF Receive, apply_purchase_success
<1> QED
  BY <1>2, <1>3, <1>4, <1>5

\* A job goes to the state r, and the balance does not rise.
LEMMA JobKeeps ==
    ASSUME ShopInv, NEW j \in Jobs, NEW r \in JobRec, job' = [job EXCEPT ![j] = r],
           UNCHANGED <<shop, load, otherRead>>, buyer' \in Int, buyer' <= buyer,
           Reported(r, buyer'), profile' = profile \/ (UNCHANGED buyer /\ Renewed(profile')),
           Current(profile', r)
    PROVE  ShopInv'
<1>1. ASSUME NEW i \in Jobs PROVE Reported(job'[i], buyer')
  <2>1. job[i].balance \in Int /\ buyer \in Int /\ Reported(job[i], buyer)
    BY DEF ShopInv, ShopTyped, JobRec
  <2>2. CASE i = j
    BY <2>2 DEF ShopInv, ShopTyped
  <2>3. CASE i # j
    <3>1. job'[i] = job[i]
      BY <2>3 DEF ShopInv, ShopTyped
    <3> QED
      BY <2>1, <3>1 DEF Reported
  <2> QED
    BY <2>2, <2>3
<1>2. Shows(shop, buyer')
  <2>1. shop.bought \in Int /\ buyer \in Int
    BY DEF ShopInv, ShopTyped, ShopRec
  <2> QED
    BY <2>1 DEF ShopInv, Shows
<1>3. ShopTyped'
  BY DEF ShopInv, ShopTyped, Renewed
<1>4. CurrentShown(profile', shop) /\ \A i \in Jobs : Current(profile', job[i])
  BY RenewedHolds DEF ShopInv
<1>5. ASSUME NEW i \in Jobs PROVE Current(profile', job'[i])
  BY <1>4 DEF ShopInv, ShopTyped
<1> QED
  BY <1>1, <1>2, <1>3, <1>4, <1>5 DEF ShopInv

LEMMA ServerStepsKeep ==
    ASSUME ShopInv, NEW j \in Jobs,
           RefuseJob(j) \/ AcquirePurchaseLock(j) \/ RunPurchase(j) \/ RespondJob(j)
    PROVE  ShopInv'
<1> DEFINE o == job[j]
<1>1. o \in JobRec /\ buyer \in Int /\ Price \in Nat /\ Reported(o, buyer)
      /\ UNCHANGED <<shop, load, otherRead, profile>> /\ Current(profile, o)
  BY PurchaseAssumption
     DEF ShopInv, ShopTyped, RefuseJob, AcquirePurchaseLock, RunPurchase, RespondJob, JobStep,
         cacheOfUser
<1>2. ASSUME NEW v \in JobStates, job' = [job EXCEPT ![j].at = v], UNCHANGED buyer,
             v \in {"paid", "settled", "ok"} => v = "ok" /\ o.at = "settled"
      PROVE  ShopInv'
  <2> DEFINE r == [o EXCEPT !.at = v]
  <2>1. job' = [job EXCEPT ![j] = r]
    BY <1>2
  <2> HIDE DEF o
  <2>2. r \in JobRec /\ r.at = v /\ r.balance = o.balance
    BY <1>1 DEF JobRec
  <2> HIDE DEF r
  <2>3. Reported(r, buyer) /\ Current(profile, r)
    BY <1>1, <1>2, <2>2 DEF Reported, Current
  <2>4. buyer' \in Int /\ buyer' <= buyer /\ Reported(r, buyer')
    BY <1>1, <1>2, <2>3
  <2>5. profile' = profile /\ Current(profile', r)
    BY <1>1, <2>3
  <2> QED
    BY <1>1, <2>1, <2>2, <2>4, <2>5, JobKeeps
<1>3. ASSUME buyer' = buyer - Price,
             job' = [job EXCEPT ![j].at = "paid", ![j].balance = buyer - Price]
      PROVE  ShopInv'
  <2> DEFINE b == buyer - Price
             r == [o EXCEPT !.at = "paid", !.balance = b]
  <2>1. job' = [job EXCEPT ![j] = r] /\ buyer' = b
    BY <1>3
  <2>2. b \in Int /\ b <= buyer
    BY <1>1
  <2> HIDE DEF o, b
  <2>3. r \in JobRec /\ r.at = "paid" /\ r.balance = b
    BY <1>1, <2>2 DEF JobRec, JobStates
  <2> HIDE DEF r
  <2>4. Reported(r, b) /\ Current(profile, r)
    BY <2>2, <2>3 DEF Reported, Current
  <2>5. profile' = profile /\ Current(profile', r)
    BY <1>1, <2>4
  <2> QED
    BY <1>1, <2>1, <2>2, <2>3, <2>4, <2>5, JobKeeps
<1>4. CASE RefuseJob(j)
  BY <1>2, <1>4 DEF RefuseJob, JobStep, JobStates
<1>5. CASE AcquirePurchaseLock(j)
  BY <1>2, <1>5 DEF AcquirePurchaseLock, JobStates
<1>6. CASE RunPurchase(j)
  BY <1>2, <1>3, <1>6 DEF RunPurchase, JobStates
<1>7. CASE RespondJob(j)
  BY <1>2, <1>7 DEF RespondJob, JobStep, JobStates
<1> QED
  BY <1>4, <1>5, <1>6, <1>7

\* Nothing is cached after the deletion, or what is cached is old.
LEMMA InvalidateKeeps ==
    ASSUME ShopInv, NEW j \in Jobs, InvalidateProfile(j)
    PROVE  ShopInv'
<1> DEFINE o == job[j]
           c == profile
           r == [o EXCEPT !.at = "settled"]
           d == [c EXCEPT !.old = TRUE]
<1>1. /\ o \in JobRec /\ o.at = "paid" /\ c \in ProfileRec /\ buyer \in Int
      /\ Reported(o, buyer) /\ UNCHANGED <<buyer, shop, load, otherRead>>
      /\ job' = [job EXCEPT ![j] = r]
  BY DEF ShopInv, ShopTyped, InvalidateProfile, JobStep
<1>2. profile' = NotCached \/ profile' = d
  <2>1. CASE c = NotCached /\ profile' = [c EXCEPT !.old = FALSE]
    BY <2>1 DEF NotCached
  <2> QED
    BY <2>1 DEF InvalidateProfile
<1> HIDE DEF o, c
<1>3. r \in JobRec /\ r.balance = o.balance
  BY <1>1 DEF JobRec, JobStates
<1>4. d \in ProfileRec /\ d.old = TRUE
  BY <1>1 DEF ProfileRec
<1>5. NotCached \in ProfileRec
  BY DEF ProfileRec, NotCached, Unknown
<1> HIDE DEF r, d
<1>6. Reported(r, buyer)
  BY <1>1, <1>3 DEF Reported
<1>7. Renewed(profile') /\ Current(profile', r)
  BY <1>2, <1>4, <1>5 DEF Renewed, Current
<1>8. buyer' \in Int /\ buyer' <= buyer /\ Reported(r, buyer')
  BY <1>1, <1>6
<1> QED
  BY <1>1, <1>3, <1>7, <1>8, JobKeeps

LEMMA ShopInvStep == ShopInv /\ [PurchaseNext]_purchaseVars => ShopInv'
<1> SUFFICES ASSUME ShopInv, [PurchaseNext]_purchaseVars PROVE ShopInv'
  OBVIOUS
<1>1. CASE UNCHANGED <<buyer, cacheOfUser, job, shop, load>>
  BY <1>1 DEF ShopInv, ShopTyped, cacheOfUser
<1>2. ExpirePurchaseLock \/ UNCHANGED purchaseVars
         => UNCHANGED <<buyer, cacheOfUser, job, shop, load>>
  BY DEF ExpirePurchaseLock, purchaseVars, cacheOfUser
<1> QED
  BY <1>1, <1>2, SendLoadKeeps, GetMeKeeps, LoadAnsweredKeeps, CacheStepsKeep, SpawnStepsKeep,
     DialogStepsKeep, ReceiveKeeps, ServerStepsKeep, InvalidateKeeps DEF PurchaseNext

-----------------------------------------------------------------------------
(* The pages of the administration.                                        *)

FetchRec == [at : {"free", "spawned", "sent", "refused"}, page : ListPages \cup {0},
             version : Nat, asOf : Nat]
ModalRec == [kind : {"none", "create", "edit", "delete"}, row : AdminRows \cup {NoTarget},
             submitting : BOOLEAN]
JobActs == {"create", "edit", "delete", "adjust"}

\* The version counts the changes the page knows of, and a listing that was
\* asked for is as of its version; a task that waits for its first poll is for
\* the page that is wanted, or the effect has to run again.
FetchHolds(f) ==
    /\ fetch[f].at = "sent" => fetch[f].asOf = fetch[f].version
    /\ fetch[f].at = "spawned" => refetch \/ fetch[f].page = listKey.page

ListHolds ==
    /\ listing.state = "loaded" /\ ~refetch /\ (\A f \in Fetches : fetch[f].at # "spawned")
        => listing.asOf = known
    /\ listing.state = "loading"
        => refetch \/ \E f \in Fetches :
                fetch[f].at \in {"spawned", "refused"} \/ (fetch[f].at = "sent" /\ ~Stale(f))

ListInv ==
    /\ listing \in [state : {"loading", "loaded", "error"}, asOf : Nat]
    /\ listKey \in [version : Nat, page : ListPages]
    /\ fetch \in [Fetches -> FetchRec]
    /\ listKey.version = known /\ (\A f \in Fetches : FetchHolds(f)) /\ ListHolds

\* There is at most one submission, and it is that of the open dialog.
SentBy(j) ==
    /\ modal.submitting /\ modal.row = j.row
    /\ modal.kind = IF j.act = "adjust" THEN "edit" ELSE j.act

DialogInv ==
    /\ modal \in ModalRec
    /\ jobs \subseteq [act : JobActs, row : AdminRows \cup {NoTarget}]
    /\ \A j \in jobs : SentBy(j)
    /\ \A i, j \in jobs : i = j
    /\ modal.kind = "edit" => shownBalance = modal.row

SelectorRec == [pages : Seq(Nat), next : Nat, more : BOOLEAN, loading : BOOLEAN, failed : BOOLEAN]

SelectorInv ==
    /\ selector \in SelectorRec
    /\ selector.next >= 1
    /\ selector.pages = [i \in 1 .. selector.next - 1 |-> i]
    /\ ~selector.loading /\ selector.more /\ ~selector.failed
        => TenantPages[Last(selector.pages)]

AdminInv == ListInv /\ DialogInv /\ SelectorInv

LEMMA AdminInitInv == AdminInit => AdminInv
<1> SUFFICES ASSUME AdminInit PROVE AdminInv
  OBVIOUS
<1>1. ListInv
  <2>1. FreeFetch \in FetchRec /\ FreeFetch.at = "free"
    BY DEF FreeFetch, FetchRec
  <2>2. fetch \in [Fetches -> FetchRec] /\ \A f \in Fetches : fetch[f].at = "free"
    BY <2>1 DEF AdminInit
  <2>3. /\ listing \in [state : {"loading", "loaded", "error"}, asOf : Nat]
        /\ listing.state = "loading"
    BY DEF AdminInit
  <2>4. listKey \in [version : Nat, page : ListPages] /\ listKey.version = known
    BY AdminAssumption DEF AdminInit
  <2>5. refetch
    BY DEF AdminInit
  <2> QED
    BY <2>2, <2>3, <2>4, <2>5 DEF ListInv, FetchHolds, ListHolds
<1>2. DialogInv
  BY DEF AdminInit, DialogInv, NoDialog, ModalRec
<1>3. SelectorInv
  <2>1. /\ selector \in SelectorRec
        /\ selector.pages = <<>> /\ selector.next = 1 /\ selector.loading
    BY DEF AdminInit, SelectorRec
  <2>2. <<>> = [i \in 1 .. 1 - 1 |-> i]
    OBVIOUS
  <2> QED
    BY <2>1, <2>2 DEF SelectorInv
<1> QED
  BY <1>1, <1>2, <1>3 DEF AdminInv

\* The effect has to run again: another page or search, or a change that the
\* page has seen.
LEMMA AskAgainKeeps ==
    ASSUME ListInv, listKey' \in [version : Nat, page : ListPages], refetch' = TRUE,
           UNCHANGED <<listing, fetch>>, listKey'.version = known'
    PROVE  ListInv'
  BY DEF ListInv, FetchHolds, ListHolds

LEMMA OtherPageKeeps ==
    ASSUME ListInv, NEW p \in ListPages, listKey' = [listKey EXCEPT !.page = p], refetch' = TRUE,
           UNCHANGED <<listing, fetch, known>>
    PROVE  ListInv'
<1> DEFINE k == listKey
<1>1. k \in [version : Nat, page : ListPages] /\ k.version = known
  BY DEF ListInv
<1> HIDE DEF k
<1>2. [k EXCEPT !.page = p] \in [version : Nat, page : ListPages]
      /\ [k EXCEPT !.page = p].version = k.version
  BY <1>1
<1> QED
  BY <1>1, <1>2, AskAgainKeeps DEF k

LEMMA ReloadKeeps ==
    ASSUME ListInv, Reload
    PROVE  ListInv'
<1> DEFINE k == listKey
           n == k.version + 1
<1>1. k \in [version : Nat, page : ListPages] /\ k.version = known
  BY DEF ListInv
<1>2. /\ listKey' = [k EXCEPT !.version = n] /\ known' = known + 1 /\ refetch' = TRUE
      /\ UNCHANGED <<listing, fetch>>
  BY DEF Reload
<1> HIDE DEF k
<1>3. n \in Nat /\ n = known'
  BY <1>1, <1>2
<1> HIDE DEF n
<1>4. [k EXCEPT !.version = n] \in [version : Nat, page : ListPages]
      /\ [k EXCEPT !.version = n].version = n
  BY <1>1, <1>3
<1> QED
  BY <1>2, <1>3, <1>4, AskAgainKeeps

LEMMA EffectKeeps ==
    ASSUME ListInv, NEW f \in Fetches, RunListEffect(f)
    PROVE  ListInv'
<1> DEFINE r == [FreeFetch EXCEPT !.at = "spawned", !.page = listKey.page]
<1>1. /\ fetch' = [fetch EXCEPT ![f] = r] /\ refetch' = FALSE /\ UNCHANGED <<listing, listKey, known>>
      /\ \A g \in Fetches : fetch[g].at # "spawned"
  BY DEF RunListEffect
<1>2. r \in FetchRec /\ r.at = "spawned" /\ r.page = listKey.page
  BY DEF ListInv, FreeFetch, FetchRec
<1> HIDE DEF r
<1>3. fetch' \in [Fetches -> FetchRec] /\ fetch'[f] = r
      /\ \A g \in Fetches : g # f => fetch'[g] = fetch[g]
  BY <1>1, <1>2 DEF ListInv
<1>4. ASSUME NEW g \in Fetches PROVE FetchHolds(g)'
  BY <1>1, <1>2, <1>3 DEF ListInv, FetchHolds
<1>5. ListHolds'
  BY <1>2, <1>3 DEF ListHolds
<1> QED
  BY <1>1, <1>3, <1>4, <1>5 DEF ListInv

LEMMA StartFetchKeeps ==
    ASSUME ListInv, NEW f \in Fetches, StartFetch(f)
    PROVE  ListInv'
<1> DEFINE o == fetch[f]
           r == [o EXCEPT !.at = "sent", !.version = listKey.version, !.asOf = known]
           t == listing
           u == [t EXCEPT !.state = "loading"]
<1>1. /\ fetch' = [fetch EXCEPT ![f] = r] /\ listing' = u /\ UNCHANGED <<listKey, refetch, known>>
      /\ o \in FetchRec /\ o.at = "spawned" /\ FetchHolds(f)
      /\ t \in [state : {"loading", "loaded", "error"}, asOf : Nat]
      /\ listKey.version = known
  BY DEF StartFetch, ListInv
<1>2. known \in Nat
  BY DEF ListInv
<1>3. refetch \/ o.page = listKey.page
  BY <1>1 DEF FetchHolds
<1> HIDE DEF o, t
<1>4. /\ r \in FetchRec /\ r.at = "sent" /\ r.page = o.page /\ r.version = listKey.version
      /\ r.asOf = known
  BY <1>1, <1>2 DEF FetchRec
<1>5. u \in [state : {"loading", "loaded", "error"}, asOf : Nat] /\ u.state = "loading"
  BY <1>1
<1> HIDE DEF r, u
<1>6. fetch' \in [Fetches -> FetchRec] /\ fetch'[f] = r
      /\ \A g \in Fetches : g # f => fetch'[g] = fetch[g]
  BY <1>1, <1>4 DEF ListInv
<1>7. ASSUME NEW g \in Fetches PROVE FetchHolds(g)'
  BY <1>1, <1>4, <1>6 DEF ListInv, FetchHolds
<1>8. ListHolds'
  BY <1>1, <1>3, <1>4, <1>5, <1>6 DEF ListHolds, Stale
<1> QED
  BY <1>1, <1>5, <1>6, <1>7, <1>8 DEF ListInv

LEMMA FetchEndsKeeps ==
    ASSUME ListInv, NEW f \in Fetches, NEW ok \in BOOLEAN, FetchEnds(f, ok)
    PROVE  ListInv'
<1>1. /\ fetch' = [fetch EXCEPT ![f] = FreeFetch] /\ UNCHANGED <<listKey, refetch, known>>
      /\ fetch[f].at = "sent"
  BY DEF FetchEnds
<1>2. FreeFetch \in FetchRec /\ FreeFetch.at = "free"
  BY DEF FreeFetch, FetchRec
<1>3. fetch' \in [Fetches -> FetchRec] /\ fetch'[f] = FreeFetch
      /\ \A g \in Fetches : g # f => fetch'[g] = fetch[g]
  BY <1>1, <1>2 DEF ListInv
<1>4. ASSUME NEW g \in Fetches PROVE FetchHolds(g)'
  BY <1>1, <1>2, <1>3 DEF ListInv, FetchHolds
<1>5. CASE Stale(f)
  <2>1. listing' = listing
    BY <1>5 DEF FetchEnds
  <2>2. \A g \in Fetches : g # f => (Stale(g)' <=> Stale(g))
    BY <1>1, <1>3 DEF Stale
  <2>3. ListHolds'
    BY <1>1, <1>2, <1>3, <1>5, <2>1, <2>2 DEF ListInv, ListHolds
  <2> QED
    BY <1>1, <1>3, <1>4, <2>1, <2>3 DEF ListInv
<1>6. CASE ~Stale(f)
  <2> DEFINE t == listing
  <2>1. fetch[f].asOf = known /\ fetch[f].asOf \in Nat
    BY <1>1, <1>6 DEF Stale, ListInv, FetchHolds, FetchRec
  <2>2. \/ listing' = [state |-> "loaded", asOf |-> fetch[f].asOf]
        \/ listing' = [t EXCEPT !.state = "error"]
    BY <1>6 DEF FetchEnds
  <2>3. t \in [state : {"loading", "loaded", "error"}, asOf : Nat]
    BY DEF ListInv
  <2> HIDE DEF t
  <2>4. /\ listing' \in [state : {"loading", "loaded", "error"}, asOf : Nat]
        /\ listing'.state = "error" \/ (listing'.state = "loaded" /\ listing'.asOf = known)
    BY <2>1, <2>2, <2>3
  <2>5. ListHolds'
    BY <1>1, <2>4 DEF ListHolds
  <2> QED
    BY <1>1, <1>3, <1>4, <2>4, <2>5 DEF ListInv
<1> QED
  BY <1>5, <1>6

LEMMA FetchRefusedKeeps ==
    ASSUME ListInv, NEW f \in Fetches, FetchRefused(f)
    PROVE  ListInv'
<1> DEFINE o == fetch[f]
           r == [o EXCEPT !.at = "refused"]
<1>1. /\ fetch' = [fetch EXCEPT ![f] = r] /\ UNCHANGED <<listing, listKey, refetch, known>>
      /\ o \in FetchRec /\ o.at = "sent"
  BY DEF FetchRefused, ListInv
<1> HIDE DEF o
<1>2. r \in FetchRec /\ r.at = "refused"
  BY <1>1 DEF FetchRec
<1> HIDE DEF r
<1>3. fetch' \in [Fetches -> FetchRec] /\ fetch'[f] = r
      /\ \A g \in Fetches : g # f => fetch'[g] = fetch[g]
  BY <1>1, <1>2 DEF ListInv
<1>4. ASSUME NEW g \in Fetches PROVE FetchHolds(g)'
  BY <1>1, <1>2, <1>3 DEF ListInv, FetchHolds
<1>5. ListHolds'
  <2>1. (\A g \in Fetches : fetch'[g].at # "spawned") => \A g \in Fetches : fetch[g].at # "spawned"
    BY <1>1, <1>3 DEF o
  <2> QED
    BY <1>1, <1>2, <1>3, <2>1 DEF ListInv, ListHolds
<1> QED
  BY <1>1, <1>3, <1>4, <1>5 DEF ListInv

LEMMA ListStepKeeps ==
    ASSUME AdminInv, ListStep
    PROVE  AdminInv'
<1>1. CASE LeavePage
  BY <1>1 DEF LeavePage, listVars, dialogVars, AdminInv, ListInv, FetchHolds, ListHolds, Stale,
     DialogInv, SentBy, SelectorInv
<1>2. CASE SearchChanges \/ \E p \in ListPages : ChangePage(p)
  BY <1>2, OtherPageKeeps, AdminAssumption DEF SearchChanges, ChangePage, dialogVars, AdminInv,
     DialogInv, SentBy, SelectorInv
<1>3. ASSUME NEW f \in Fetches,
             \/ RunListEffect(f) \/ StartFetch(f) \/ FetchRefused(f)
             \/ \E ok \in BOOLEAN : FetchEnds(f, ok)
      PROVE  AdminInv'
  <2>1. ListInv'
    BY <1>3, EffectKeeps, StartFetchKeeps, FetchRefusedKeeps, FetchEndsKeeps DEF AdminInv
  <2>2. UNCHANGED <<modal, shownBalance, jobs, selector>>
    BY <1>3 DEF RunListEffect, StartFetch, FetchRefused, FetchEnds, dialogVars
  <2> QED
    BY <2>1, <2>2 DEF AdminInv, DialogInv, SentBy, SelectorInv
<1> QED
  BY <1>1, <1>2, <1>3 DEF ListStep

-----------------------------------------------------------------------------
(* Dialogs.                                                                *)

LEMMA OpensKeeps ==
    ASSUME DialogInv, NEW r \in AdminRows \cup {NoTarget}, NEW k \in {"create", "edit", "delete"},
           modal.kind = "none", modal' = [kind |-> k, row |-> r, submitting |-> FALSE],
           UNCHANGED jobs, k = "edit" => shownBalance' = r
    PROVE  DialogInv'
<1>1. jobs = {}
  BY DEF DialogInv, SentBy, JobActs
<1>2. modal' \in ModalRec /\ modal'.kind = k /\ modal'.row = r
  BY DEF ModalRec
<1> QED
  BY <1>1, <1>2 DEF DialogInv

LEMMA SendsKeeps ==
    ASSUME DialogInv, NEW a \in JobActs, SendForm(a),
           modal.kind = IF a = "adjust" THEN "edit" ELSE a
    PROVE  DialogInv'
<1> DEFINE m == modal
           j == [act |-> a, row |-> m.row]
<1>1. m \in ModalRec /\ ~m.submitting /\ modal' = [m EXCEPT !.submitting = TRUE]
      /\ jobs' = jobs \cup {j} /\ UNCHANGED shownBalance
  BY DEF DialogInv, SendForm
<1>2. jobs = {}
  BY <1>1 DEF DialogInv, SentBy
<1>3. m.kind = IF a = "adjust" THEN "edit" ELSE a
  OBVIOUS
<1>4. m.kind = "edit" => shownBalance = m.row
  BY DEF DialogInv
<1> HIDE DEF m
<1>5. /\ modal' \in ModalRec /\ modal'.submitting /\ modal'.row = m.row /\ modal'.kind = m.kind
      /\ j \in [act : JobActs, row : AdminRows \cup {NoTarget}] /\ j.act = a /\ j.row = m.row
  BY <1>1 DEF ModalRec
<1> HIDE DEF j
<1> QED
  BY <1>1, <1>2, <1>3, <1>4, <1>5 DEF DialogInv, SentBy

\* A submission is answered: the dialog closes or goes on.
LEMMA AnswerKeeps ==
    ASSUME DialogInv, NEW j \in jobs, jobs' = jobs \ {j},
           \/ modal' = NoDialog
           \/ /\ modal' = [modal EXCEPT !.submitting = FALSE]
              /\ shownBalance' = shownBalance \/ (shownBalance' = j.row /\ modal.kind = "edit")
    PROVE  DialogInv'
<1> DEFINE m == modal
<1>1. jobs' = {}
  BY DEF DialogInv
<1>2. m \in ModalRec /\ m.row = j.row /\ (m.kind = "edit" => shownBalance = m.row)
  BY DEF DialogInv, SentBy
<1>3. CASE modal' = NoDialog
  BY <1>1, <1>3 DEF DialogInv, NoDialog, ModalRec
<1>4. CASE /\ modal' = [m EXCEPT !.submitting = FALSE]
           /\ shownBalance' = shownBalance \/ (shownBalance' = j.row /\ modal.kind = "edit")
  <2> HIDE DEF m
  <2>1. modal' \in ModalRec /\ modal'.kind = m.kind /\ modal'.row = m.row
    BY <1>2, <1>4 DEF ModalRec
  <2> QED
    BY <1>1, <1>2, <1>4, <2>1 DEF DialogInv
<1> QED
  BY <1>3, <1>4

LEMMA DialogStepKeeps ==
    ASSUME AdminInv, DialogStep
    PROVE  AdminInv'
<1>1. ASSUME DialogInv', UNCHANGED <<listVars, known, selector>> PROVE AdminInv'
  BY <1>1 DEF AdminInv, listVars, ListInv, FetchHolds, ListHolds, Stale, SelectorInv
<1>2. ASSUME DialogInv', Reload, UNCHANGED selector PROVE AdminInv'
  BY <1>2, ReloadKeeps DEF AdminInv, SelectorInv
<1>3. CASE OpenCreate \/ \E r \in AdminRows : OpenEdit(r) \/ OpenDelete(r)
  BY <1>1, <1>3, OpensKeeps DEF OpenCreate, OpenEdit, OpenDelete, Open, AdminInv
<1>4. CASE CloseDialog
  <2>1. jobs = {}
    BY <1>4 DEF CloseDialog, AdminInv, DialogInv, SentBy
  <2>2. DialogInv'
    BY <1>4, <2>1 DEF CloseDialog, DialogInv, NoDialog, ModalRec
  <2> QED
    BY <1>1, <1>4, <2>2 DEF CloseDialog
<1>5. CASE SubmitCreate \/ SubmitEdit \/ ConfirmDelete \/ AdjustBalance
  <2>1. PICK a \in JobActs : SendForm(a) /\ modal.kind = IF a = "adjust" THEN "edit" ELSE a
    BY <1>5 DEF SubmitCreate, SubmitEdit, ConfirmDelete, AdjustBalance, JobActs
  <2>2. DialogInv'
    BY <2>1, SendsKeeps DEF AdminInv
  <2> QED
    BY <1>1, <2>1, <2>2 DEF SendForm
<1>6. ASSUME NEW j \in jobs, FormSaved(j) \/ RowDeleted(j) \/ BalanceAdjusted(j) \/ JobFails(j)
      PROVE  AdminInv'
  <2>1. DialogInv'
    BY <1>6, AnswerKeeps DEF FormSaved, RowDeleted, BalanceAdjusted, JobFails, ClosesOn, AdminInv
  <2>2. CASE JobFails(j)
    BY <1>1, <2>1, <2>2 DEF JobFails
  <2>3. CASE FormSaved(j) \/ RowDeleted(j) \/ BalanceAdjusted(j)
    BY <1>2, <2>1, <2>3 DEF FormSaved, RowDeleted, BalanceAdjusted
  <2> QED
    BY <1>6, <2>2, <2>3
<1> QED
  BY <1>3, <1>4, <1>5, <1>6 DEF DialogStep

-----------------------------------------------------------------------------
(* The tenant selector.                                                    *)

LEMMA SelectorStepKeeps ==
    ASSUME AdminInv, SelectorStep
    PROVE  AdminInv'
<1> DEFINE t == selector
           asked == [t EXCEPT !.loading = TRUE, !.failed = FALSE]
           failed == [t EXCEPT !.loading = FALSE, !.failed = TRUE]
           more == t.next < Len(TenantPages)
           wait == more /\ ~TenantPages[t.next]
           came == [t EXCEPT !.pages = Append(t.pages, t.next), !.next = t.next + 1,
                             !.more = more, !.loading = wait]
<1>1. UNCHANGED <<listVars, dialogVars, known>>
  BY DEF SelectorStep, OpenSelector, ScrollSelector, LoadTenantPage, TenantPageArrives,
     TenantPageFails
<1>2. /\ t \in SelectorRec /\ t.next >= 1 /\ t.pages = [i \in 1 .. t.next - 1 |-> i]
      /\ t.pages \in Seq(Nat) /\ t.next \in Nat
  BY DEF AdminInv, SelectorInv, SelectorRec
<1>3. selector' = asked \/ selector' = failed \/ selector' = came
  BY DEF SelectorStep, OpenSelector, ScrollSelector, LoadTenantPage, TenantPageArrives,
     TenantPageFails
<1>4. SelectorInv'
  <2>1. CASE selector' = asked
    <3> HIDE DEF t
    <3>1. /\ asked \in SelectorRec /\ asked.pages = t.pages /\ asked.next = t.next
          /\ asked.loading
      BY <1>2 DEF SelectorRec
    <3> HIDE DEF asked
    <3> QED
      BY <1>2, <2>1, <3>1 DEF SelectorInv, SelectorRec
  <2>2. CASE selector' = failed
    <3> HIDE DEF t
    <3>1. /\ failed \in SelectorRec /\ failed.pages = t.pages /\ failed.next = t.next
          /\ failed.failed
      BY <1>2 DEF SelectorRec
    <3> HIDE DEF failed
    <3> QED
      BY <1>2, <2>2, <3>1 DEF SelectorInv, SelectorRec
  <2>3. CASE selector' = came
    <3> DEFINE n == t.next
               q == Append(t.pages, n)
    <3>1. n \in Nat /\ n >= 1 /\ n + 1 \in Nat /\ n + 1 >= 1 /\ (n + 1) - 1 = n
      BY <1>2
    <3>2. q \in Seq(Nat) /\ q = [i \in 1 .. n |-> i] /\ Len(q) = n /\ q[n] = n
      <4> HIDE DEF t
      <4>1. Len(t.pages) = n - 1
        BY <1>2
      <4>2. q \in Seq(Nat) /\ Len(q) = n
        BY <1>2, <4>1
      <4>3. \A i \in 1 .. n : q[i] = i
        BY <1>2, <3>1, <4>1
      <4> QED
        BY <3>1, <4>2, <4>3
    <3>3. Last(q) = n
      BY <3>2 DEF Last
    <3>4. TenantPages[n] \in BOOLEAN \/ ~more
      BY <3>1, AdminAssumption
    <3>5. more \in BOOLEAN /\ wait \in BOOLEAN /\ (~wait /\ more => TenantPages[n])
      BY <3>4
    <3> HIDE DEF q, more, wait, t
    <3>6. /\ came \in SelectorRec /\ came.pages = q /\ came.next = n + 1 /\ came.more = more
          /\ came.loading = wait
      BY <1>2, <3>1, <3>2, <3>5 DEF SelectorRec, q
    <3> HIDE DEF came, n
    <3> QED
      BY <2>3, <3>1, <3>2, <3>3, <3>5, <3>6 DEF SelectorInv, SelectorRec
  <2> QED
    BY <1>3, <2>1, <2>2, <2>3
<1> QED
  BY <1>1, <1>4 DEF AdminInv, listVars, dialogVars, ListInv, FetchHolds, ListHolds, Stale,
     DialogInv, SentBy

LEMMA AdminInvStep == AdminInv /\ [AdminNext]_adminVars => AdminInv'
<1> SUFFICES ASSUME AdminInv, [AdminNext]_adminVars PROVE AdminInv'
  OBVIOUS
<1>1. CASE UNCHANGED adminVars
  BY <1>1 DEF adminVars, AdminInv, listVars, dialogVars, ListInv, FetchHolds, ListHolds, Stale,
     DialogInv, SentBy, SelectorInv
<1> QED
  BY <1>1, ListStepKeeps, DialogStepKeeps, SelectorStepKeeps DEF AdminNext

LEMMA AdminInvHolds == AdminInv => AdminPageHolds
<1> SUFFICES ASSUME AdminInv PROVE AdminPageHolds
  OBVIOUS
<1>1. Cardinality(jobs) <= 1
  <2>1. CASE jobs = {}
    BY <2>1, FS_EmptySet
  <2>2. CASE jobs # {}
    <3>1. PICK j \in jobs : TRUE
      BY <2>2
    <3>2. jobs = {j}
      BY <3>1 DEF AdminInv, DialogInv
    <3>3. Cardinality({j}) = 1
      BY FS_Singleton
    <3> QED
      BY <3>2, <3>3
  <2> QED
    BY <2>1, <2>2
<1> QED
  BY <1>1 DEF AdminInv, ListInv, ListHolds, DialogInv, SentBy, SelectorInv, AdminPageHolds

\* Pages show nothing older than what they know, with any number of requests,
\* purchases, rows and pages of a list and any order of the answers: no answer
\* puts back a balance above the one a purchase left, a list is as of the last
\* change that its page knows of, no dialog shows another row's answer, and the
\* tenant selector has every page once and in order.
THEOREM PagesShowWhatTheyKnow == PagesSpec => []PagesHold
<1> DEFINE Inv == ShopInv /\ AdminInv
<1>1. PagesInit => Inv
  BY ShopInitInv, AdminInitInv DEF PagesInit
<1>2. Inv /\ [PagesNext]_pagesVars => Inv'
  <2> SUFFICES ASSUME Inv, [PagesNext]_pagesVars PROVE Inv'
    OBVIOUS
  <2>1. [PurchaseNext]_purchaseVars /\ [AdminNext]_adminVars
    BY DEF PagesNext, pagesVars
  <2> QED
    BY <2>1, ShopInvStep, AdminInvStep
<1>3. Inv => PagesHold
  <2>1. ShopInv => ShownKeepsPurchase
    BY DEF ShopInv, ShopTyped, ShopRec, Shows, ShownKeepsPurchase
  <2> QED
    BY <2>1, AdminInvHolds DEF PagesHold
<1> QED
  BY <1>1, <1>2, <1>3, PTL DEF PagesSpec
=============================================================================
