----------------------------- MODULE ToolStates -----------------------------
(***************************************************************************)
(* Which tools the user has switched off, in the web client: the process-  *)
(* wide set the tools page and the kernel share, its copy in IndexedDB     *)
(* under a key of the account, and the banner that says a switch was not   *)
(* saved (app/web/src/agent/service.rs, views/tools.rs,                    *)
(* app/ui/src/tool_panel.rs).                                              *)
(*                                                                         *)
(* The browser runs one task at a time, so a step is what a task does from *)
(* one await to the next.  Mounting the page loads the set and then reads  *)
(* the failure marker; leaving it drops that task at whatever await it is. *)
(* Saving is a task of its own that outlives the page; switches made while *)
(* it runs are folded into its next round.                                 *)
(***************************************************************************)
EXTENDS Naturals, FiniteSets

CONSTANTS
    Accounts,     \* accounts of the browser profile
    NoAccount,    \* no scope is active
    SwitchTools,  \* tools with a card on the page
    StaleTools,   \* names still stored that no tool has any more
    MaxSwitches   \* bound on how often the user flips a card

ASSUME ToolStatesAssumption == NoAccount \notin Accounts /\ SwitchTools \cap StaleTools = {}

Names == SwitchTools \cup StaleTools

VARIABLES
    account,      \* who is signed in
    switchedOff,  \* ToolStateService.disabled
    dirty,        \* ToolStateService.dirty
    scope,        \* ToolStateService.scope
    persistState, \* PERSIST_STATE
    persistError, \* PERSIST_ERROR: is the banner up
    kvLock,       \* PERSIST_LOCK: who holds it
    kvSet,        \* account -> the stored set
    kvMarker,     \* account -> is a failure marker stored
    page,         \* the mounted page: where its task is and what it holds
    saver,        \* the saving task
    chosen,       \* history: tool -> the user's last choice since the scope became active
    offBy,        \* history: account -> the names its user, or its first record, switched off
    reported,     \* history: has a round failed since the last switch
    switches      \* how many switches so far

toolStateVars == <<account, switchedOff, dirty, scope, persistState, persistError, kvLock,
                   kvSet, kvMarker, page, saver, chosen, offBy, reported, switches>>

service == <<switchedOff, dirty, scope, chosen>>
stored == <<kvSet, kvMarker>>
history == <<account, offBy, reported, switches>>

NoPage == [at |-> "away", owner |-> NoAccount, value |-> {}, inFlight |-> FALSE, marked |-> FALSE]
NoChoice == [t \in SwitchTools |-> "none"]

----------------------------------------------------------------------------
(* ToolStateService                                                        *)

clear_active_scope ==
    switchedOff' = {} /\ dirty' = 0 /\ scope' = NoAccount /\ chosen' = NoChoice

\* Another owner starts from nothing, before anything of it is read.
activate_scope(s) ==
    IF s = scope THEN UNCHANGED service
    ELSE switchedOff' = {} /\ dirty' = 0 /\ scope' = s /\ chosen' = NoChoice

\* apply_from_store_for_scope: unsaved switches of the same owner win.
apply_from_store_for_scope(s, value) ==
    IF s = scope
    THEN /\ switchedOff' = IF dirty # 0 THEN switchedOff ELSE value
         /\ UNCHANGED <<dirty, scope, chosen>>
    ELSE switchedOff' = value /\ dirty' = 0 /\ scope' = s /\ chosen' = NoChoice

----------------------------------------------------------------------------
(* The page: load_tool_states, then sync_persist_error_on_mount            *)

GoTo(at) == page' = [page EXCEPT !.at = at]
PageHolds == kvLock = "page"

Mount ==
    /\ page.at = "away"
    /\ page' = [NoPage EXCEPT !.at = "owner"]
    /\ UNCHANGED <<service, stored, history, persistState, persistError, kvLock, saver>>

\* Leaving the page, or signing in as someone else, drops its task and with
\* it the guard it may hold.
Unmount ==
    /\ page.at # "away"
    /\ page' = NoPage
    /\ kvLock' = IF PageHolds THEN "free" ELSE kvLock
    /\ account' \in Accounts
    /\ UNCHANGED <<service, stored, offBy, reported, switches, persistState, persistError, saver>>

\* get_me answers, or the owner cannot be told and the state is reset, or the
\* store, never opened so far, cannot be.
ResolveOwner ==
    /\ page.at = "owner"
    /\ \/ /\ page' = [page EXCEPT !.at = "lock", !.owner = account]
          /\ UNCHANGED service
       \/ clear_active_scope /\ GoTo("sync")
       \/ scope = NoAccount /\ GoTo("sync") /\ UNCHANGED service
    /\ UNCHANGED <<stored, history, persistState, persistError, kvLock, saver>>

\* Mutation: a load does not wait for the save that is running.
AnyTime == TRUE

MayLoad == kvLock = "free"

LoadBegins ==
    /\ page.at = "lock" /\ MayLoad
    /\ kvLock' = "page"
    /\ activate_scope(page.owner)
    /\ GoTo("read")
    /\ UNCHANGED <<stored, history, persistState, persistError, saver>>

\* The record, an empty one if there is none; or it cannot be read or parsed.
LoadReads ==
    /\ page.at = "read"
    /\ \/ page' = [page EXCEPT !.at = "apply", !.value = kvSet[page.owner]] /\ UNCHANGED kvLock
       \/ GoTo("sync") /\ kvLock' = IF PageHolds THEN "free" ELSE kvLock
    /\ UNCHANGED <<service, stored, history, persistState, persistError, saver>>

LoadApplies ==
    /\ page.at = "apply"
    /\ apply_from_store_for_scope(page.owner, page.value)
    /\ kvLock' = IF PageHolds THEN "free" ELSE kvLock
    /\ GoTo("sync")
    /\ UNCHANGED <<stored, history, persistState, persistError, saver>>

\* Without an owner no marker may be read, and no banner is left standing.
SyncBegins ==
    /\ page.at = "sync"
    /\ IF scope = NoAccount
       THEN GoTo("ready") /\ persistError' = FALSE
       ELSE /\ page' = [page EXCEPT !.at = "marker", !.owner = scope,
                                    !.inFlight = (persistState # "idle")]
            /\ UNCHANGED persistError
    /\ UNCHANGED <<service, stored, history, persistState, kvLock, saver>>

\* The marker is read once, and again if no save was running.
ReadMarker ==
    /\ page.at \in {"marker", "again"}
    /\ page' = [page EXCEPT !.marked = kvMarker[page.owner],
                            !.at = IF page.at = "marker" /\ ~page.inFlight
                                   THEN "again" ELSE "show"]
    /\ UNCHANGED <<service, stored, history, persistState, persistError, kvLock, saver>>

\* should_sync_persist_error, sync_persist_error; then the cards appear.
ShowMarker ==
    /\ page.at = "show"
    /\ persistError' = IF ~page.inFlight \/ page.marked THEN page.marked ELSE persistError
    /\ GoTo("ready")
    /\ UNCHANGED <<service, stored, history, persistState, kvLock, saver>>

----------------------------------------------------------------------------
(* A switch and the saving task                                            *)

persist_on_toggle == IF persistState = "idle" THEN "running" ELSE "pending"

\* Mutation: the end of a round forgets the switch that came during it.
DropsPending == "idle"

persist_on_round_done == IF persistState = "pending" THEN "running" ELSE "idle"

Toggle(t) ==
    LET off == t \notin switchedOff
    IN  /\ page.at = "ready" /\ switches < MaxSwitches
        /\ switches' = switches + 1
        /\ switchedOff' = IF off THEN switchedOff \cup {t} ELSE switchedOff \ {t}
        /\ dirty' = dirty + 1
        /\ chosen' = [chosen EXCEPT ![t] = IF off THEN "off" ELSE "on"]
        /\ offBy' = [offBy EXCEPT ![account] = @ \cup {t}]
        /\ reported' = FALSE
        /\ persistState' = persist_on_toggle
        /\ saver' = IF persistState = "idle" THEN [saver EXCEPT !.at = "begin"] ELSE saver
        /\ UNCHANGED <<scope, stored, account, persistError, kvLock, page>>

\* A round ends: the guard goes, the banner shows its outcome, and a switch
\* made meanwhile starts another.
RoundEnds(failed) ==
    /\ persistError' = failed
    /\ reported' = (reported \/ failed)
    /\ persistState' = persist_on_round_done
    /\ saver' = [saver EXCEPT !.at = IF persist_on_round_done = "running" THEN "begin" ELSE "none"]

\* persist_tool_states reads the scope before it waits for the lock.
SaveBegins ==
    /\ saver.at = "begin"
    /\ IF scope = NoAccount THEN RoundEnds(TRUE)
       ELSE /\ saver' = [saver EXCEPT !.at = "lock", !.scope = scope]
            /\ UNCHANGED <<persistState, persistError, reported>>
    /\ UNCHANGED <<service, stored, account, offBy, switches, kvLock, page>>

\* snapshot_with_version_for_scope: set and version together, unless the
\* owner changed, which counts as success.
SaveSnapshots ==
    /\ saver.at = "lock" /\ kvLock = "free"
    /\ IF scope # saver.scope
       THEN RoundEnds(FALSE) /\ UNCHANGED kvLock
       ELSE /\ saver' = [saver EXCEPT !.at = "write", !.version = dirty,
                                      !.value = switchedOff \cap SwitchTools]
            /\ kvLock' = "saver"
            /\ UNCHANGED <<persistState, persistError, reported>>
    /\ UNCHANGED <<service, stored, account, offBy, switches, page>>

SaveWrites ==
    /\ saver.at = "write"
    /\ \/ /\ kvSet' = [kvSet EXCEPT ![saver.scope] = saver.value]
          /\ saver' = [saver EXCEPT !.at = "unmark"]
       \/ saver' = [saver EXCEPT !.at = "mark"] /\ UNCHANGED kvSet
    /\ UNCHANGED <<service, kvMarker, history, persistState, persistError, kvLock, page>>

\* The marker is written after a failure, as well as it can be.
SaveMarks ==
    /\ saver.at = "mark"
    /\ kvMarker' \in {kvMarker, [kvMarker EXCEPT ![saver.scope] = TRUE]}
    /\ kvLock' = "free"
    /\ RoundEnds(TRUE)
    /\ UNCHANGED <<service, kvSet, account, offBy, switches, page>>

SaveUnmarks ==
    /\ saver.at = "unmark"
    /\ kvMarker' \in {kvMarker, [kvMarker EXCEPT ![saver.scope] = FALSE]}
    /\ saver' = [saver EXCEPT !.at = "clean"]
    /\ UNCHANGED <<service, kvSet, history, persistState, persistError, kvLock, page>>

\* mark_clean_for_scope: only for the owner, and only if nothing changed since.
SaveCleans ==
    /\ saver.at = "clean"
    /\ dirty' = IF scope = saver.scope /\ dirty = saver.version THEN 0 ELSE dirty
    /\ kvLock' = "free"
    /\ RoundEnds(FALSE)
    /\ UNCHANGED <<switchedOff, scope, chosen, stored, account, offBy, switches, page>>

----------------------------------------------------------------------------

ToolStatesInit ==
    /\ account \in Accounts
    /\ switchedOff = {} /\ dirty = 0 /\ scope = NoAccount
    /\ persistState = "idle" /\ persistError = FALSE
    /\ kvLock = "free"
    /\ kvSet = [s \in Accounts |-> StaleTools]
    /\ kvMarker = [s \in Accounts |-> FALSE]
    /\ page = NoPage
    /\ saver = [at |-> "none", scope |-> NoAccount, value |-> {}, version |-> 0]
    /\ chosen = NoChoice
    /\ offBy = kvSet
    /\ reported = FALSE
    /\ switches = 0

PageStep ==
    ResolveOwner \/ LoadBegins \/ LoadReads \/ LoadApplies \/ SyncBegins \/ ReadMarker \/ ShowMarker

SaverStep ==
    SaveBegins \/ SaveSnapshots \/ SaveWrites \/ SaveMarks \/ SaveUnmarks \/ SaveCleans

ToolStatesNext ==
    \/ Mount \/ Unmount \/ PageStep \/ SaverStep
    \/ \E t \in SwitchTools : Toggle(t)

ToolStatesSpec == ToolStatesInit /\ [][ToolStatesNext]_toolStateVars

\* IndexedDB and get_me answer every request.  A page may load again and again,
\* but each time it lets go of PERSIST_LOCK the waiting task is woken, long
\* before a new load has its owner: the saver is not passed over for ever.
ToolStatesFairness ==
    WF_toolStateVars(PageStep) /\ SF_toolStateVars(SaverStep)

ToolStatesTypeOK ==
    /\ switchedOff \subseteq Names /\ dirty \in 0..MaxSwitches
    /\ scope \in Accounts \cup {NoAccount}
    /\ persistState \in {"idle", "running", "pending"} /\ persistError \in BOOLEAN
    /\ kvLock \in {"free", "page", "saver"}
    /\ kvSet \in [Accounts -> SUBSET Names] /\ kvMarker \in [Accounts -> BOOLEAN]
    /\ persistState = "idle" <=> saver.at = "none"

\* What the user last chose for a tool is what the kernel sees, until another
\* choice or another owner: no load puts an older record over it, not even
\* one read while a save of the newer set was being finished.  And while an
\* owner is active, the set in force, like the set stored under its key, never
\* holds what another account switched off.
SwitchesHold ==
    /\ \A t \in SwitchTools :
          (chosen[t] = "off" => t \in switchedOff) /\ (chosen[t] = "on" => t \notin switchedOff)
    /\ \A s \in Accounts : kvSet[s] \subseteq offBy[s]
    /\ page.at = "ready" /\ scope # NoAccount => switchedOff \subseteq offBy[account]

\* activate_scope says that the memory must be cleared before any I/O, or the
\* list of the previous account stays in force for the next.  The store is
\* opened first: where it cannot be, what one account switched off without an
\* owner is still off for the next one.
OwnersKeptApart == page.at = "ready" => switchedOff \subseteq offBy[account]

\* A switch is saved in the end, or a banner has said since that it was not,
\* unless the owner changes: one made while a round runs is not forgotten.
SavedOrReported ==
    \A s \in Accounts :
        (scope = s /\ dirty # 0) ~> (dirty = 0 \/ reported \/ scope # s)

=============================================================================
