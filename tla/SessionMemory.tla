--------------------------- MODULE SessionMemory ---------------------------
(***************************************************************************)
(* Clearing a conversation that several pages have open: the snapshot, the *)
(* checkpoint and the durable memories of one session, written by turns    *)
(* that end, by background extraction and by the memory_write tool, and    *)
(* removed by clear_current_session and SessionStore::clear_current        *)
(* (crates/rust-agent/src/memory/service.rs, context/session.rs, the       *)
(* locks of app/web/src/agent/service.rs).                                 *)
(*                                                                         *)
(* A page is a browser tab with a runtime of its own over one IndexedDB,   *)
(* or a view of the one native process.  Of a memory only the sessions it  *)
(* came from are kept; equal texts share an entry, so a write adds the     *)
(* session to the sources.  The status keys are left out.                  *)
(***************************************************************************)
EXTENDS Naturals, FiniteSets

CONSTANTS
    Pages,        \* the pages that restored the session
    MemoryIds,    \* durable memories
    MaxFaults     \* bound of the model: storage calls that fail

VARIABLES
    web,          \* tabs with Web Locks; otherwise one native process
    bare,         \* pages whose memory service could not be built
    tombstone,    \* the clear barrier of the session
    snapshot,     \* whose snapshot the current key holds
    checkpoint,   \* the session's checkpoint is on disk
    sources,      \* sources[m] : the sessions memory m came from, {} if none
    autoExtract,  \* the owner's switch of automatic extraction
    durable,      \* holder of the lock of durable mutations
    sessionGate,  \* holder of the session's gate or Web Lock
    storeLock,    \* holder of SessionStore's Web Lock
    memEpoch,     \* memEpoch[p] : the extraction epoch page p sees
    page,         \* page[p] : what page p is doing
    faults,       \* storage calls that failed so far
    cleared,      \* history: a clear committed / forgot every memory
    leftover      \* history: a removal failed, or a page went away before it

memoryVars == <<web, bare, tombstone, snapshot, checkpoint, sources, autoExtract,
                durable, sessionGate, storeLock, memEpoch, page, faults, cleared,
                leftover>>
disk == <<tombstone, snapshot, checkpoint, sources, autoExtract>>
setting == <<web, bare>>
history == <<cleared, leftover>>

Old == "old"       \* the session the pages restored
New == "new"       \* the session of a page after its clear
Nobody == "none"

ASSUME MemoryAssumption == Nobody \notin Pages /\ MaxFaults \in Nat

NoToken == [session |-> Nobody, epoch |-> 0]

\* pump: the end of a turn; ext: the extraction it spawned; tool: a
\* memory_write; clr: a clear, with what it remembers.
PageState ==
    [session : {Old, New, Nobody},
     pump : {"idle", "check", "write", "recheck", "gate", "checkpoint", "verify", "done"},
     ext : {"idle", "queued", "model", "done"}, token : [session : {Old, New, Nobody}, epoch : Nat],
     tool : {"idle", "embed", "done"},
     clr : {"idle", "scan", "mark", "forget", "provenance", "rollback",
            "store", "current", "artifacts", "switch", "failed"},
     force : BOOLEAN, existed : BOOLEAN, retained : BOOLEAN]

MemoryTypeOK ==
    /\ web \in BOOLEAN /\ bare \subseteq Pages
    /\ tombstone \in BOOLEAN /\ checkpoint \in BOOLEAN /\ autoExtract \in BOOLEAN
    /\ snapshot \in {Old, New, Nobody}
    /\ sources \in [MemoryIds -> SUBSET {Old, New, "other"}]
    /\ {durable, sessionGate, storeLock} \subseteq Pages \cup {Nobody}
    /\ memEpoch \in [Pages -> Nat]
    /\ page \in [Pages -> PageState]
    /\ faults \in 0..MaxFaults
    /\ cleared \in [committed : BOOLEAN, forgot : BOOLEAN] /\ leftover \in BOOLEAN

\* The session was restored from its snapshot; a memory may already be there,
\* from this session or shared with another.
MemoryInit ==
    /\ web \in BOOLEAN /\ bare \in SUBSET Pages
    /\ tombstone = FALSE /\ snapshot = Old /\ checkpoint = FALSE /\ autoExtract = TRUE
    /\ sources \in [MemoryIds -> {{}, {Old}, {Old, "other"}}]
    /\ durable = Nobody /\ sessionGate = Nobody /\ storeLock = Nobody
    /\ memEpoch = [p \in Pages |-> 0]
    /\ page = [p \in Pages |-> [session |-> Old, pump |-> "idle", ext |-> "idle",
                                token |-> NoToken, tool |-> "idle", clr |-> "idle",
                                force |-> FALSE, existed |-> FALSE, retained |-> FALSE]]
    /\ faults = 0
    /\ cleared = [committed |-> FALSE, forgot |-> FALSE] /\ leftover = FALSE

-----------------------------------------------------------------------------
(* Storage and locks. *)

Fault == faults < MaxFaults /\ faults' = faults + 1
Works == UNCHANGED faults

\* session_was_cleared, for the session the page is in at this moment.
session_was_cleared(p) == page[p].session = Old /\ tombstone

\* with_durable_write_locks on the web; the process' mutation gate and the
\* session's own gate in a native host.  Both are taken in this order
\* everywhere, and nothing is read between the two.
DurableFree == durable = Nobody
GateFree == sessionGate = Nobody
TakeBoth(p) == DurableFree /\ GateFree /\ durable' = p /\ sessionGate' = p
ReleaseBoth == durable' = Nobody /\ sessionGate' = Nobody

\* SessionStore's operations are serialized across tabs, not across the pages
\* of a native process.
StoreFree == web => storeLock = Nobody
TakeStore(p) == storeLock' = IF web THEN p ELSE storeLock
ReleaseStore == storeLock' = IF web THEN Nobody ELSE storeLock

Set(p, field, value) == page' = [page EXCEPT ![p] = [page[p] EXCEPT ![field] = value]]

-----------------------------------------------------------------------------
(* The end of a turn: snapshot, checkpoint, then extraction in background. *)

\* The page's own gate keeps the pump and a clear of the same page apart.
TurnEnds(p) ==
    /\ page[p].session # Nobody /\ page[p].pump = "idle"
    /\ page[p].clr \in {"idle", "failed"}
    /\ Set(p, "pump", "check")
    /\ UNCHANGED <<setting, disk, durable, sessionGate, storeLock, memEpoch, faults, history>>

\* Without a memory service the turn ends with its snapshot.
AfterSnapshot(p) == IF p \in bare THEN "done" ELSE "gate"

\* SessionStore::save: a cleared session, or a tombstone that cannot be read,
\* refuses the snapshot.
SaveCheck(p) ==
    /\ page[p].pump = "check" /\ StoreFree
    /\ \/ /\ Works /\ ~session_was_cleared(p)
          /\ TakeStore(p) /\ Set(p, "pump", "write")
       \/ /\ (Works /\ session_was_cleared(p)) \/ Fault
          /\ Set(p, "pump", AfterSnapshot(p)) /\ UNCHANGED storeLock
    /\ UNCHANGED <<setting, disk, durable, sessionGate, memEpoch, history>>

SaveWrite(p) ==
    /\ page[p].pump = "write"
    /\ \/ /\ Works /\ snapshot' = page[p].session
          /\ Set(p, "pump", "recheck") /\ UNCHANGED storeLock
       \/ /\ Fault /\ UNCHANGED snapshot
          /\ Set(p, "pump", AfterSnapshot(p)) /\ ReleaseStore
    /\ UNCHANGED <<setting, tombstone, checkpoint, sources, autoExtract, durable,
                   sessionGate, memEpoch, history>>

\* Mutant: the snapshot is not looked at again after it was written.
NoCleanup(p) ==
    /\ page[p].pump = "recheck"
    /\ Works /\ UNCHANGED <<snapshot, leftover>>
    /\ Set(p, "pump", AfterSnapshot(p)) /\ ReleaseStore
    /\ UNCHANGED <<setting, tombstone, checkpoint, sources, autoExtract, durable,
                   sessionGate, memEpoch, cleared>>

\* The barrier may have come down during the write: the snapshot goes again,
\* unless current has become another session's.
reject_and_cleanup_cleared_snapshot(p) ==
    /\ page[p].pump = "recheck"
    /\ \/ /\ Works /\ UNCHANGED leftover
          /\ snapshot' = IF session_was_cleared(p) /\ snapshot = page[p].session
                         THEN Nobody ELSE snapshot
       \/ Fault /\ leftover' = TRUE /\ UNCHANGED snapshot
    /\ Set(p, "pump", AfterSnapshot(p)) /\ ReleaseStore
    /\ UNCHANGED <<setting, tombstone, checkpoint, sources, autoExtract, durable,
                   sessionGate, memEpoch, cleared>>

\* The token is captured when the extraction is spawned.
SpawnExtraction(p) ==
    page' = [page EXCEPT ![p] =
               [page[p] EXCEPT !.pump = "done", !.ext = "queued",
                         !.token = [session |-> page[p].session, epoch |-> memEpoch[p]]]]

\* save_checkpoint behind the gate; on the web behind the durable lock too.
CheckpointLocks(p) ==
    /\ GateFree /\ (web => DurableFree)
    /\ sessionGate' = p /\ durable' = IF web THEN p ELSE durable
CheckpointUnlocks ==
    sessionGate' = Nobody /\ durable' = IF web THEN Nobody ELSE durable

CheckpointCheck(p) ==
    /\ page[p].pump = "gate"
    /\ \/ /\ Works /\ ~session_was_cleared(p)
          /\ CheckpointLocks(p) /\ Set(p, "pump", "checkpoint")
       \/ /\ GateFree /\ (web => DurableFree)
          /\ (Works /\ session_was_cleared(p)) \/ Fault
          /\ SpawnExtraction(p) /\ UNCHANGED <<durable, sessionGate>>
    /\ UNCHANGED <<setting, disk, storeLock, memEpoch, history>>

CheckpointWrite(p) ==
    /\ page[p].pump = "checkpoint"
    /\ \/ /\ Works /\ checkpoint' = (checkpoint \/ page[p].session = Old)
          /\ Set(p, "pump", "verify") /\ UNCHANGED <<durable, sessionGate>>
       \/ /\ Fault /\ SpawnExtraction(p) /\ CheckpointUnlocks /\ UNCHANGED checkpoint
    /\ UNCHANGED <<setting, tombstone, snapshot, sources, autoExtract, storeLock,
                   memEpoch, history>>

\* SessionStore::clear_current does not take the gate, so save_checkpoint
\* looks once more and removes what it has just written.
CheckpointVerify(p) ==
    /\ page[p].pump = "verify"
    /\ \/ /\ Works /\ UNCHANGED leftover
          /\ checkpoint' = (checkpoint /\ ~session_was_cleared(p))
       \/ Fault /\ leftover' = TRUE /\ UNCHANGED checkpoint
    /\ SpawnExtraction(p) /\ CheckpointUnlocks
    /\ UNCHANGED <<setting, tombstone, snapshot, sources, autoExtract, storeLock,
                   memEpoch, cleared>>

-----------------------------------------------------------------------------
(* Durable memories. *)

\* extract_durable_if_current, once it has the locks: the session and epoch of
\* the token still hold, there is no tombstone and extraction is switched on.
\* (Whether the digest repeats an earlier one is left open.)
TokenCurrent(p) == page[p].token = [session |-> page[p].session, epoch |-> memEpoch[p]]

ExtractBegins(p) ==
    /\ page[p].ext = "queued" /\ DurableFree /\ GateFree
    /\ \/ /\ Works /\ TokenCurrent(p) /\ ~session_was_cleared(p) /\ autoExtract
          /\ TakeBoth(p) /\ Set(p, "ext", "model")
       \/ /\ Works \/ Fault
          /\ Set(p, "ext", "done") /\ UNCHANGED <<durable, sessionGate>>
    /\ UNCHANGED <<setting, disk, storeLock, memEpoch, history>>

\* write_memory_inner behind the engine's lock, after the embedding: the
\* tombstone is read again, then remember_in_domain adds the session.
Remember(p, m) ==
    /\ ~session_was_cleared(p)
    /\ sources' = [sources EXCEPT ![m] = @ \cup {page[p].session}]

\* The model answered; each record is written, and the first failure ends it.
ExtractWrites(p) ==
    /\ page[p].ext = "model"
    /\ \E m \in MemoryIds : page[p].session \notin sources[m] /\ Remember(p, m)
    /\ UNCHANGED <<setting, tombstone, snapshot, checkpoint, autoExtract, durable,
                   sessionGate, storeLock, memEpoch, page, faults, history>>

ExtractEnds(p) ==
    /\ page[p].ext = "model"
    /\ Set(p, "ext", "done") /\ ReleaseBoth
    /\ UNCHANGED <<setting, disk, storeLock, memEpoch, faults, history>>

\* The memory_write tool: Web Locks, or the process' mutation gate.
ToolBegins(p) ==
    /\ page[p].session # Nobody /\ p \notin bare /\ page[p].tool = "idle"
    /\ page[p].clr \in {"idle", "failed"}
    /\ DurableFree /\ (web => GateFree)
    /\ \/ /\ ~session_was_cleared(p) /\ Set(p, "tool", "embed")
          /\ durable' = p /\ sessionGate' = IF web THEN p ELSE sessionGate
       \/ /\ session_was_cleared(p) /\ Set(p, "tool", "done")
          /\ UNCHANGED <<durable, sessionGate>>
    /\ UNCHANGED <<setting, disk, storeLock, memEpoch, faults, history>>

ToolWrites(p) ==
    /\ page[p].tool = "embed"
    /\ (\E m \in MemoryIds : Remember(p, m)) \/ UNCHANGED sources
    /\ Set(p, "tool", "done")
    /\ durable' = Nobody /\ sessionGate' = IF web THEN Nobody ELSE sessionGate
    /\ UNCHANGED <<setting, tombstone, snapshot, checkpoint, autoExtract, storeLock,
                   memEpoch, faults, history>>

\* The memory page switches extraction off.
set_auto_extract_enabled ==
    /\ DurableFree /\ autoExtract /\ autoExtract' = FALSE
    /\ UNCHANGED <<setting, tombstone, snapshot, checkpoint, sources, durable,
                   sessionGate, storeLock, memEpoch, page, faults, history>>

\* The memory page deletes a memory; it holds the lock from the look at the
\* entry to its removal.
delete_library_memory(m) ==
    /\ DurableFree /\ sources[m] # {} /\ sources' = [sources EXCEPT ![m] = {}]
    /\ UNCHANGED <<setting, tombstone, snapshot, checkpoint, autoExtract, durable,
                   sessionGate, storeLock, memEpoch, page, faults, history>>

-----------------------------------------------------------------------------
(* Clearing the session from a page. *)

\* Memories can be forgotten only where there is a memory service.
ClearBegins(p, force) ==
    /\ page[p].session = Old /\ page[p].clr = "idle"
    /\ page[p].pump \in {"idle", "done"} /\ page[p].tool # "embed"
    /\ force => p \notin bare
    /\ page' = [page EXCEPT ![p] =
                  [page[p] EXCEPT !.clr = IF p \in bare THEN "store" ELSE "scan", !.force = force]]
    /\ UNCHANGED <<setting, disk, durable, sessionGate, storeLock, memEpoch, faults, history>>

\* clear_current_session: is there a tombstone already; which memories.
ClearScan(p) ==
    /\ page[p].clr = "scan" /\ DurableFree /\ GateFree
    /\ \/ /\ Works /\ TakeBoth(p)
          /\ page' = [page EXCEPT ![p] = [page[p] EXCEPT !.clr = "mark", !.existed = tombstone]]
       \/ Fault /\ Set(p, "clr", "failed") /\ UNCHANGED <<durable, sessionGate>>
    /\ UNCHANGED <<setting, disk, storeLock, memEpoch, history>>

\* In a native process the pages in the session share its epoch.
Bumped(p) == [q \in Pages |-> memEpoch[q] +
                 (IF q = p \/ (~web /\ page[q].session = Old) THEN 1 ELSE 0)]

ClearMark(p) ==
    /\ page[p].clr = "mark"
    /\ \/ /\ Works /\ tombstone' = TRUE /\ memEpoch' = Bumped(p)
          /\ IF page[p].force
             THEN Set(p, "clr", "forget") /\ UNCHANGED <<durable, sessionGate>>
             ELSE /\ ReleaseBoth
                  /\ page' = [page EXCEPT ![p] = [page[p] EXCEPT !.clr = "store", !.retained = TRUE]]
       \/ /\ Fault /\ ~page[p].existed
          /\ Set(p, "clr", "failed") /\ ReleaseBoth /\ UNCHANGED <<tombstone, memEpoch>>
    /\ UNCHANGED <<setting, snapshot, checkpoint, sources, autoExtract, storeLock, history>>

\* Memories of this session alone go first; each removal may fail.
Exclusive == {m \in MemoryIds : sources[m] = {Old}}
Shared == {m \in MemoryIds : Old \in sources[m] /\ sources[m] # {Old}}

ClearForgets(p) ==
    /\ page[p].clr = "forget"
    /\ \E gone \in SUBSET Exclusive :
         /\ sources' = [m \in MemoryIds |-> IF m \in gone THEN {} ELSE sources[m]]
         /\ IF gone = Exclusive THEN Works /\ Set(p, "clr", "provenance")
            ELSE Fault /\ Set(p, "clr", "rollback")
    /\ UNCHANGED <<setting, tombstone, snapshot, checkpoint, autoExtract, durable,
                   sessionGate, storeLock, memEpoch, history>>

\* Then the session is taken off the shared ones.  When one update fails, those
\* before it are put back, which may fail too.
ClearProvenance(p) ==
    /\ page[p].clr = "provenance"
    /\ \/ /\ Works /\ sources' = [m \in MemoryIds |-> sources[m] \ {Old}]
          /\ cleared' = [cleared EXCEPT !.forgot = TRUE]
          /\ page' = [page EXCEPT ![p] = [page[p] EXCEPT !.clr = "store", !.retained = TRUE]]
          /\ ReleaseBoth
       \/ \E bad \in Shared, stuck \in SUBSET Shared :
            /\ bad \notin stuck /\ Fault
            /\ sources' = [m \in MemoryIds |->
                             IF m \in stuck THEN sources[m] \ {Old} ELSE sources[m]]
            /\ Set(p, "clr", "rollback") /\ UNCHANGED <<durable, sessionGate, cleared>>
    /\ UNCHANGED <<setting, tombstone, snapshot, checkpoint, autoExtract, storeLock,
                   memEpoch, leftover>>

\* A partial failure withdraws a tombstone this clear has set, and the page
\* keeps the session.  A withdrawal that reports an error may have happened;
\* the session is given up if the tombstone is still there or cannot be read.
ClearRollback(p) ==
    /\ page[p].clr = "rollback" /\ ReleaseBoth
    /\ \/ /\ Works
          /\ tombstone' = page[p].existed
          /\ IF page[p].existed
             THEN page' = [page EXCEPT ![p] = [page[p] EXCEPT !.clr = "store", !.retained = TRUE]]
             ELSE Set(p, "clr", "failed")
       \/ /\ Fault /\ ~page[p].existed
          /\ \E there, unread \in BOOLEAN :
               /\ tombstone' = there
               /\ IF there \/ unread
                  THEN page' = [page EXCEPT ![p] = [page[p] EXCEPT !.clr = "store", !.retained = TRUE]]
                  ELSE Set(p, "clr", "failed")
    /\ UNCHANGED <<setting, snapshot, checkpoint, sources, autoExtract, storeLock,
                   memEpoch, history>>

\* SessionStore::clear_current: the tombstone commits the clear.  Where it
\* cannot be set, the page goes on only if the memory service left one.
StoreMark(p) ==
    /\ page[p].clr = "store" /\ StoreFree
    /\ \/ /\ Works /\ TakeStore(p) /\ tombstone' = TRUE
          /\ cleared' = [cleared EXCEPT !.committed = TRUE]
          /\ Set(p, "clr", "current") /\ UNCHANGED leftover
       \/ /\ Fault /\ UNCHANGED <<tombstone, storeLock, cleared>>
          /\ Set(p, "clr", IF page[p].retained THEN "switch" ELSE "failed")
          /\ leftover' = (leftover \/ page[p].retained)
    /\ UNCHANGED <<setting, snapshot, checkpoint, sources, autoExtract, durable,
                   sessionGate, memEpoch>>

StoreCurrent(p) ==
    /\ page[p].clr = "current"
    /\ \/ /\ Works /\ snapshot' = (IF snapshot = Old THEN Nobody ELSE snapshot)
          /\ UNCHANGED leftover
       \/ Fault /\ leftover' = TRUE /\ UNCHANGED snapshot
    /\ Set(p, "clr", "artifacts")
    /\ UNCHANGED <<setting, tombstone, checkpoint, sources, autoExtract, durable,
                   sessionGate, storeLock, memEpoch, cleared>>

StoreArtifacts(p) ==
    /\ page[p].clr = "artifacts" /\ ReleaseStore
    /\ \/ Works /\ checkpoint' = FALSE /\ UNCHANGED leftover
       \/ Fault /\ leftover' = TRUE /\ UNCHANGED checkpoint
    /\ Set(p, "clr", "switch")
    /\ UNCHANGED <<setting, tombstone, snapshot, sources, autoExtract, durable,
                   sessionGate, memEpoch, cleared>>

\* The page goes on with a new session, and so does its memory service, whose
\* extraction state is then that of the new session.
ClearSwitch(p) ==
    /\ page[p].clr = "switch"
    /\ page' = [page EXCEPT ![p] =
                  [page[p] EXCEPT !.clr = "idle", !.session = New, !.pump = "idle",
                            !.force = FALSE, !.existed = FALSE, !.retained = FALSE]]
    /\ memEpoch' = [memEpoch EXCEPT ![p] = 0]
    /\ UNCHANGED <<setting, disk, durable, sessionGate, storeLock, faults, history>>

\* After a failed clear the user may try again.
ClearAgain(p) ==
    /\ page[p].clr = "failed"
    /\ page' = [page EXCEPT ![p] = [page[p] EXCEPT !.clr = "idle", !.force = FALSE,
                                            !.existed = FALSE, !.retained = FALSE]]
    /\ UNCHANGED <<setting, disk, durable, sessionGate, storeLock, memEpoch, faults, history>>

\* The tombstone is set and the removals are still to come.
Removing == {"forget", "provenance", "rollback", "store", "current", "artifacts"}

\* The page is closed: its locks are released, its tasks end where they are.
Close(p) ==
    /\ page[p].session # Nobody
    /\ page' = [page EXCEPT ![p] =
                  [page[p] EXCEPT !.session = Nobody, !.pump = "idle", !.ext = "idle",
                            !.token = NoToken, !.tool = "idle", !.clr = "idle",
                            !.force = FALSE, !.existed = FALSE, !.retained = FALSE]]
    /\ leftover' = (leftover \/ page[p].pump \in {"recheck", "verify"}
                             \/ page[p].clr \in Removing)
    /\ durable' = IF durable = p THEN Nobody ELSE durable
    /\ sessionGate' = IF sessionGate = p THEN Nobody ELSE sessionGate
    /\ storeLock' = IF storeLock = p THEN Nobody ELSE storeLock
    /\ UNCHANGED <<setting, disk, memEpoch, faults, cleared>>

PageStep(p) ==
    \/ TurnEnds(p) \/ SaveCheck(p) \/ SaveWrite(p) \/ reject_and_cleanup_cleared_snapshot(p)
    \/ CheckpointCheck(p) \/ CheckpointWrite(p) \/ CheckpointVerify(p)
    \/ ExtractBegins(p) \/ ExtractWrites(p) \/ ExtractEnds(p)
    \/ ToolBegins(p) \/ ToolWrites(p)
    \/ \E force \in BOOLEAN : ClearBegins(p, force)
    \/ ClearScan(p) \/ ClearMark(p) \/ ClearForgets(p) \/ ClearProvenance(p)
    \/ ClearRollback(p) \/ StoreMark(p) \/ StoreCurrent(p) \/ StoreArtifacts(p)
    \/ ClearSwitch(p) \/ ClearAgain(p) \/ Close(p)

MemoryNext ==
    \/ \E p \in Pages : PageStep(p)
    \/ set_auto_extract_enabled
    \/ \E m \in MemoryIds : delete_library_memory(m)

MemorySpec == MemoryInit /\ [][MemoryNext]_memoryVars

-----------------------------------------------------------------------------
\* No page is between a write and its second look, or clearing.
Settled == \A p \in Pages : /\ page[p].pump \notin {"recheck", "verify"}
                            /\ page[p].clr \notin Removing

\* A cleared session does not come back.  While its tombstone stands, no turn,
\* extraction or tool of any page leaves its snapshot or checkpoint behind, and
\* a clear that forgot its memories is not followed by one of them; a removal
\* that failed is the only excuse.  And no extraction runs once the user has
\* switched extraction off.
ClearedStaysGone ==
    /\ cleared.committed /\ tombstone /\ ~leftover /\ Settled =>
         snapshot # Old /\ ~checkpoint
    /\ cleared.forgot /\ tombstone => \A m \in MemoryIds : Old \notin sources[m]
    /\ (\E p \in Pages : page[p].ext = "model") => autoExtract

\* clear_current_session must never take back a clear that was committed.
CommittedClearStays == cleared.committed => tombstone
=============================================================================
