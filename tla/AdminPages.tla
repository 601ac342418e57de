----------------------------- MODULE AdminPages -----------------------------
(***************************************************************************)
(* A page of the administration: a paged list with dialogs that create,    *)
(* edit and delete its rows, and the tenant selector of those dialogs      *)
(* (app/web/src/views/users.rs, channels.rs, plans.rs, orders.rs,          *)
(* tenants.rs, tenant_select.rs).  The pages are written alike; what only  *)
(* users.rs has is the adjustment of a balance, which leaves the dialog    *)
(* open.                                                                   *)
(*                                                                         *)
(* The browser runs one task at a time: a step is an event handler, an     *)
(* effect, or what a task does from one await to the next.  A listing is   *)
(* reduced to how many of its own changes the page knew of when it asked.  *)
(***************************************************************************)
EXTENDS Integers, Sequences, FiniteSets, SequencesExt

CONSTANTS
    AdminRows,      \* the rows a dialog may be about
    ListPages,      \* page numbers, 1 among them
    Fetches,        \* bound of the model: listings asked for at a time
    MaxSaves,       \* bound of the model: changes that succeed
    TenantPages     \* for each page of tenants, whether one of them is active

ASSUME AdminAssumption ==
    /\ 1 \in ListPages /\ MaxSaves \in Nat
    /\ TenantPages \in Seq(BOOLEAN) /\ TenantPages # <<>>

NoTarget == "none"

VARIABLES
    listing,        \* the signal list: its state, and what it is as of
    listKey,        \* the signals list_version and page
    refetch,        \* the effect that reads them has to run
    fetch,          \* the tasks that ask for a listing
    modal,          \* modal_kind, editing or deleting, submitting
    shownBalance,   \* whose balance the edit dialog shows
    jobs,           \* submissions under way
    known,          \* history: changes whose success the page has seen
    selector,       \* available_tenants and its paging
    gone            \* the page was left for another

listVars == <<listing, listKey, refetch, fetch>>
dialogVars == <<modal, shownBalance, jobs>>
adminVars == <<listVars, dialogVars, known, selector, gone>>

FreeFetch == [at |-> "free", page |-> 0, version |-> 0, asOf |-> 0]
NoDialog == [kind |-> "none", row |-> NoTarget, submitting |-> FALSE]

AdminInit ==
    /\ listing = [state |-> "loading", asOf |-> 0]
    /\ listKey = [version |-> 0, page |-> 1]
    /\ refetch = TRUE
    /\ fetch = [f \in Fetches |-> FreeFetch]
    /\ modal = NoDialog /\ shownBalance = NoTarget /\ jobs = {}
    /\ known = 0
    /\ selector = [pages |-> <<>>, next |-> 1, more |-> FALSE, loading |-> TRUE, failed |-> FALSE]
    /\ gone = FALSE

-----------------------------------------------------------------------------
(* The list.                                                               *)

(* The pager is drawn below a list that is loaded.                         *)
ChangePage(p) ==
    /\ listing.state = "loaded" /\ modal.kind = "none"
    /\ listKey' = [listKey EXCEPT !.page = p] /\ refetch' = TRUE
    /\ UNCHANGED <<listing, fetch, dialogVars, known, selector, gone>>

(* Another search text: back to the first page.                            *)
SearchChanges ==
    /\ modal.kind = "none"
    /\ listKey' = [listKey EXCEPT !.page = 1] /\ refetch' = TRUE
    /\ UNCHANGED <<listing, fetch, dialogVars, known, selector, gone>>

(* The effect notes the page and spawns a task, which is polled before the *)
(* effect runs again.                                                      *)
RunListEffect(f) ==
    /\ refetch /\ fetch[f].at = "free"
    /\ \A g \in Fetches : fetch[g].at # "spawned"
    /\ refetch' = FALSE
    /\ fetch' = [fetch EXCEPT ![f] = [FreeFetch EXCEPT !.at = "spawned", !.page = listKey.page]]
    /\ UNCHANGED <<listing, listKey, dialogVars, known, selector, gone>>

(* The task notes the version when it is first polled.                     *)
StartFetch(f) ==
    /\ fetch[f].at = "spawned"
    /\ fetch' = [fetch EXCEPT ![f].at = "sent", ![f].version = listKey.version, ![f].asOf = known]
    /\ listing' = [listing EXCEPT !.state = "loading"]
    /\ UNCHANGED <<listKey, refetch, dialogVars, known, selector, gone>>

(* Mutant: only a change of page makes an answer stale.                    *)
StaleByPage(f) == fetch[f].page # listKey.page

(* page stands for the page and the number of rows on it together.         *)
Stale(f) == fetch[f].version # listKey.version \/ fetch[f].page # listKey.page

(* An answer that is stale is dropped, whatever it says.                   *)
FetchEnds(f, ok) ==
    /\ fetch[f].at = "sent"
    /\ fetch' = [fetch EXCEPT ![f] = FreeFetch]
    /\ listing' = IF Stale(f) THEN listing
                  ELSE IF ok THEN [state |-> "loaded", asOf |-> fetch[f].asOf]
                  ELSE [listing EXCEPT !.state = "error"]
    /\ UNCHANGED <<listKey, refetch, dialogVars, known, selector, gone>>

(* handle_unauth: the session has ended, or the role is not enough; the    *)
(* task logs out before it leads away.                                     *)
FetchRefused(f) ==
    /\ fetch[f].at = "sent" /\ ~Stale(f)
    /\ fetch' = [fetch EXCEPT ![f].at = "refused"]
    /\ UNCHANGED <<listing, listKey, refetch, dialogVars, known, selector, gone>>

(* For that reason or another the page is left, and its tasks with it.     *)
LeavePage ==
    /\ gone' = TRUE
    /\ UNCHANGED <<listVars, dialogVars, known, selector>>

-----------------------------------------------------------------------------
(* The dialogs.  A dialog covers the page.                                 *)

Open(kind, row) ==
    /\ modal.kind = "none"
    /\ modal' = [kind |-> kind, row |-> row, submitting |-> FALSE]
    /\ UNCHANGED <<listVars, jobs, known, selector, gone>>

OpenCreate == Open("create", NoTarget) /\ UNCHANGED shownBalance

OpenEdit(r) ==
    /\ listing.state = "loaded"
    /\ Open("edit", r) /\ shownBalance' = r

OpenDelete(r) ==
    /\ listing.state = "loaded"
    /\ Open("delete", r) /\ UNCHANGED shownBalance

(* close_all, from the buttons, the backdrop and the keyboard.             *)
CloseDialog ==
    /\ modal.kind # "none" /\ ~modal.submitting
    /\ modal' = NoDialog
    /\ UNCHANGED <<listVars, shownBalance, jobs, known, selector, gone>>

(* A form that is complete is sent once.                                   *)
SendForm(act) ==
    /\ ~modal.submitting
    /\ known + Cardinality(jobs) < MaxSaves
    /\ modal' = [modal EXCEPT !.submitting = TRUE]
    /\ jobs' = jobs \cup {[act |-> act, row |-> modal.row]}
    /\ UNCHANGED <<listVars, shownBalance, known, selector, gone>>

SubmitCreate == modal.kind = "create" /\ SendForm("create")
SubmitEdit == modal.kind = "edit" /\ SendForm("edit")
ConfirmDelete == modal.kind = "delete" /\ SendForm("delete")
AdjustBalance == modal.kind = "edit" /\ SendForm("adjust")

(* The list is asked for again.                                            *)
Reload ==
    /\ known' = known + 1
    /\ listKey' = [listKey EXCEPT !.version = @ + 1] /\ refetch' = TRUE
    /\ UNCHANGED <<listing, fetch>>

(* A success closes the dialog if it is still of that kind.                *)
ClosesOn(kind) ==
    modal' = IF modal.kind = kind THEN NoDialog ELSE [modal EXCEPT !.submitting = FALSE]

FormSaved(j) ==
    /\ j.act \in {"create", "edit"}
    /\ ClosesOn(j.act) /\ Reload
    /\ jobs' = jobs \ {j}
    /\ UNCHANGED <<shownBalance, selector, gone>>

RowDeleted(j) ==
    /\ j.act = "delete"
    /\ ClosesOn("delete") /\ Reload
    /\ jobs' = jobs \ {j}
    /\ UNCHANGED <<shownBalance, selector, gone>>

(* The new balance is written into the row that is being edited.           *)
BalanceAdjusted(j) ==
    /\ j.act = "adjust"
    /\ shownBalance' = IF modal.kind = "edit" THEN j.row ELSE shownBalance
    /\ modal' = [modal EXCEPT !.submitting = FALSE]
    /\ Reload
    /\ jobs' = jobs \ {j}
    /\ UNCHANGED <<selector, gone>>

(* The dialog stays, with a message.  The server may have done it.         *)
JobFails(j) ==
    /\ modal' = [modal EXCEPT !.submitting = FALSE]
    /\ jobs' = jobs \ {j}
    /\ UNCHANGED <<listVars, shownBalance, known, selector, gone>>

-----------------------------------------------------------------------------
(* The tenant selector.  The first page is asked for when the page opens.  *)

(* load_tenant_page: one request at a time.                                *)
LoadTenantPage ==
    /\ ~selector.loading
    /\ selector' = [selector EXCEPT !.loading = TRUE, !.failed = FALSE]
    /\ UNCHANGED <<listVars, dialogVars, known, gone>>

(* Opening it asks again for a first page that could not be had.           *)
OpenSelector == modal.kind # "none" /\ selector.next = 1 /\ selector.pages = <<>> /\ LoadTenantPage

ScrollSelector == modal.kind # "none" /\ selector.more /\ LoadTenantPage

(* A page without an active tenant shows nothing: the next one follows.    *)
TenantPageArrives ==
    LET page == selector.next
        more == page < Len(TenantPages)
    IN  /\ selector.loading
        /\ selector' = [selector EXCEPT
                !.pages = Append(@, page), !.next = page + 1, !.more = more,
                !.loading = more /\ ~TenantPages[page]]
        /\ UNCHANGED <<listVars, dialogVars, known, gone>>

TenantPageFails ==
    /\ selector.loading
    /\ selector' = [selector EXCEPT !.loading = FALSE, !.failed = TRUE]
    /\ UNCHANGED <<listVars, dialogVars, known, gone>>

-----------------------------------------------------------------------------

ListStep ==
    \/ \E p \in ListPages : ChangePage(p)
    \/ SearchChanges \/ LeavePage
    \/ \E f \in Fetches :
        \/ RunListEffect(f) \/ StartFetch(f) \/ FetchRefused(f)
        \/ \E ok \in BOOLEAN : FetchEnds(f, ok)

DialogStep ==
    \/ OpenCreate \/ CloseDialog
    \/ \E r \in AdminRows : OpenEdit(r) \/ OpenDelete(r)
    \/ SubmitCreate \/ SubmitEdit \/ ConfirmDelete \/ AdjustBalance
    \/ \E j \in jobs : FormSaved(j) \/ RowDeleted(j) \/ BalanceAdjusted(j) \/ JobFails(j)

SelectorStep == OpenSelector \/ ScrollSelector \/ TenantPageArrives \/ TenantPageFails

AdminNext == ~gone /\ (ListStep \/ DialogStep \/ SelectorStep)

-----------------------------------------------------------------------------

(* However slowly listings are answered, and in whatever order: once the   *)
(* page has seen a change succeed and has drawn the list again, the list   *)
(* was asked for after that change, and it never waits for an answer that  *)
(* will be dropped (the version that every success advances, and the test  *)
(* after the await).  The answer to a submission comes to the dialog that  *)
(* sent it, so that no dialog shows another row's balance or is closed by  *)
(* another's success (every way out is barred while submitting).  The      *)
(* selector has each page of tenants once and in order, and rests only     *)
(* where something new can be seen, nothing is left, or a request failed.  *)
AdminPageHolds ==
    /\ listing.state = "loaded" /\ ~refetch /\ (\A f \in Fetches : fetch[f].at # "spawned")
        => listing.asOf = known
    /\ listing.state = "loading"
        => refetch \/ \E f \in Fetches :
                fetch[f].at \in {"spawned", "refused"} \/ (fetch[f].at = "sent" /\ ~Stale(f))
    /\ \A j \in jobs :
        /\ modal.submitting /\ modal.row = j.row
        /\ modal.kind = IF j.act = "adjust" THEN "edit" ELSE j.act
    /\ Cardinality(jobs) <= 1
    /\ modal.kind = "edit" => shownBalance = modal.row
    /\ selector.pages = [i \in 1 .. selector.next - 1 |-> i]
    /\ ~selector.loading /\ selector.more /\ ~selector.failed
        => TenantPages[Last(selector.pages)]

=============================================================================
