---------------------------- MODULE PurchasePage ----------------------------
(***************************************************************************)
(* Buying a plan from the personal centre: the page with its confirmation  *)
(* dialog and the balance it shows (app/web/src/views/personal_center.rs), *)
(* the client library that repeats requests which got no answer            *)
(* (app/client-api/src/client.rs), the endpoint with its per-user lock     *)
(* (server/src/handlers/plan.rs), and the cached profile from which the    *)
(* balance is answered (UserService::get_user).  The transaction of a      *)
(* purchase is one step here; its statements are those of PlanBilling.     *)
(* The plan has a price and no limit on how often it is bought.            *)
(***************************************************************************)
EXTENDS Integers, FiniteSets

CONSTANTS
    Deposit,        \* the largest balance the user starts with
    Price,          \* of the plan on offer
    SendRetries,    \* max_retries of ClientConfig
    RedisFaults,    \* whether calls to Redis may fail and the purchase lock may lapse
    Loads,          \* names of the balance requests the page may make
    MaxConfirms,    \* bound of the model: confirmations by the user
    MaxToggles      \* bound of the model: changes of the language

Unknown == -1       \* a balance not loaded yet
NoJob == 0         \* the purchase lock is free

\* Every confirmation sends one request and at most SendRetries more.
Jobs == 1 .. MaxConfirms * (SendRetries + 1)
Languages == {"en", "zh"}

ASSUME PurchaseAssumption ==
    /\ Deposit \in Nat /\ Price \in Nat \ {0}
    /\ RedisFaults \in BOOLEAN
    /\ SendRetries \in Nat /\ MaxConfirms \in Nat /\ MaxToggles \in Nat

VARIABLES
    buyer,      \* the balance in the users row
    buyLock,    \* the request that holds plan:purchase:{user}
    profile,    \* the balance in the cached profile, and whether it is an old one
    otherRead,  \* what another get_user, of an answer given up or of another
                \* page, has read and not yet cached
    job,        \* each request at the server
    shop,       \* the signals of the page
    load,       \* the page's balance requests
    confirms,   \* history: confirmations so far
    charged,    \* history: purchases committed so far
    toggles     \* history: changes of the language so far

purchaseVars == <<buyer, buyLock, profile, otherRead, job, shop, load, confirms, charged, toggles>>

NotCached == [balance |-> Unknown, old |-> FALSE]

\* From "settled", "short" and "broken", with a result and still the lock, a
\* response is made; the later states are what it says.
Unanswered == {"sent", "locked", "open", "paid", "settled", "short", "broken"}
Asking == {"sent", "missed", "read", "served"}
PurchaseAnswers == {"ok", "insufficient", "failed", "in_progress", "refused"}

PurchaseTypeOK ==
    /\ buyer \in 0 .. Deposit
    /\ buyLock \in Jobs \cup {NoJob}
    /\ profile \in [balance : Unknown .. Deposit, old : BOOLEAN]
    /\ otherRead \in Unknown .. Deposit
    /\ job \in [Jobs -> [at : {"unsent"} \cup Unanswered \cup PurchaseAnswers,
                         balance : Unknown .. Deposit]]
    /\ shop \in [dialog : BOOLEAN, submitting : BOOLEAN, inline : BOOLEAN,
                 attempt : 0 .. SendRetries, current : Jobs \cup {NoJob},
                 balance : Unknown .. Deposit, old : BOOLEAN, bought : Unknown .. Deposit,
                 epoch : 0 .. MaxConfirms, version : Nat, failed : BOOLEAN, lang : Languages]
    /\ load \in [Loads -> [at : {"unused", "spawned", "ended"} \cup Asking,
                           version : Nat, epoch : Nat, lang : Languages,
                           balance : Unknown .. Deposit, old : BOOLEAN]]
    /\ confirms \in 0 .. MaxConfirms
    /\ charged \in 0 .. Cardinality(Jobs)
    /\ toggles \in 0 .. MaxToggles

NewLoad == [at |-> "spawned", version |-> 0, epoch |-> 0, lang |-> "en", balance |-> Unknown,
            old |-> FALSE]

\* The page has just been mounted: its effect has spawned the first load.
PurchaseInit ==
    /\ buyer \in 0 .. Deposit /\ buyLock = NoJob /\ profile = NotCached /\ otherRead = Unknown
    /\ job = [j \in Jobs |-> [at |-> "unsent", balance |-> Unknown]]
    /\ shop = [dialog |-> FALSE, submitting |-> FALSE, inline |-> FALSE, attempt |-> 0,
               current |-> NoJob, balance |-> Unknown, old |-> FALSE, bought |-> Unknown,
               epoch |-> 0, version |-> 0, failed |-> FALSE, lang |-> "en"]
    /\ \E first \in Loads :
         load = [l \in Loads |-> IF l = first THEN NewLoad ELSE [NewLoad EXCEPT !.at = "unused"]]
    /\ confirms = 0 /\ charged = 0 /\ toggles = 0

cacheOfUser == <<profile, otherRead>>
serverVars == <<buyer, buyLock, cacheOfUser, job, charged>>

-----------------------------------------------------------------------------
(* The balance: an effect that runs on mount, on retry and on a change of   *)
(* language, and spawns a request.                                          *)

\* The effect's synchronous part, which subscribes to version and language.
SpawnLoad(s) ==
    \E l \in Loads :
        /\ load[l].at = "unused"
        /\ load' = [load EXCEPT ![l] = [NewLoad EXCEPT !.version = s.version, !.lang = s.lang]]

ToggleLanguage ==
    /\ toggles < MaxToggles
    /\ toggles' = toggles + 1
    /\ \E l \in Languages : l # shop.lang /\ shop' = [shop EXCEPT !.lang = l]
    /\ SpawnLoad(shop')
    /\ UNCHANGED <<serverVars, confirms>>

\* The button beside the error, which clears it and asks again.
RetryBalance ==
    /\ shop.failed
    /\ shop' = [shop EXCEPT !.failed = FALSE, !.version = @ + 1]
    /\ SpawnLoad(shop')
    /\ UNCHANGED <<serverVars, confirms, toggles>>

\* The task's first poll: the epoch is read here, without a subscription.
SendLoad(l) ==
    /\ load[l].at = "spawned"
    /\ load' = [load EXCEPT ![l].at = "sent", ![l].epoch = shop.epoch]
    /\ UNCHANGED <<serverVars, shop, confirms, toggles>>

\* get_me at the server.  get_user looks into the cache first, and goes
\* on to the row where that fails.
LookUpProfile(l) ==
    /\ load[l].at = "sent"
    /\ \/ /\ profile # NotCached
          /\ load' = [load EXCEPT ![l] = [@ EXCEPT !.at = "served", !.balance = profile.balance,
                                                   !.old = profile.old]]
       \/ /\ profile = NotCached \/ RedisFaults
          /\ load' = [load EXCEPT ![l].at = "missed"]
    /\ UNCHANGED <<serverVars, shop, confirms, toggles>>

ReadProfile(l) ==
    /\ load[l].at = "missed"
    /\ load' = [load EXCEPT ![l].at = "read", ![l].balance = buyer]
    /\ UNCHANGED <<serverVars, shop, confirms, toggles>>

\* What is cached was read earlier: old, where the row has changed since.
Filled(b) == [balance |-> b, old |-> b # buyer]

\* The profile is cached, best effort, and answered.
FillProfile(l) ==
    /\ load[l].at = "read"
    /\ load' = [load EXCEPT ![l].at = "served"]
    /\ \/ profile' = Filled(load[l].balance)
       \/ RedisFaults /\ UNCHANGED profile
    /\ UNCHANGED <<buyer, buyLock, otherRead, job, charged, shop, confirms, toggles>>

\* Another reader, which looked into the cache when nothing was there.
OtherReads ==
    /\ otherRead = Unknown
    /\ otherRead' = buyer
    /\ UNCHANGED <<buyer, buyLock, profile, job, charged, load, shop, confirms, toggles>>

OtherFills ==
    /\ otherRead # Unknown
    /\ otherRead' = Unknown
    /\ \/ profile' = Filled(otherRead)
       \/ RedisFaults /\ UNCHANGED profile
    /\ UNCHANGED <<buyer, buyLock, job, charged, load, shop, confirms, toggles>>

balance_response_is_stale(l) ==
    load[l].version # shop.version \/ load[l].epoch # shop.epoch

\* The answer, or an error once the client library has given up.
LoadAnswered(l) ==
    /\ load[l].at \in Asking
    /\ load' = [load EXCEPT ![l].at = "ended"]
    /\ \E ok \in BOOLEAN :
         /\ ok => load[l].at = "served"
         /\ shop' = IF balance_response_is_stale(l) \/ shop.lang # load[l].lang
                    THEN shop
                    ELSE IF ok
                    THEN [shop EXCEPT !.failed = FALSE, !.balance = load[l].balance,
                                      !.old = load[l].old]
                    ELSE [shop EXCEPT !.failed = TRUE]
    /\ UNCHANGED <<serverVars, confirms, toggles>>

-----------------------------------------------------------------------------
(* The dialog. *)

buy_button_enabled == shop.balance # Unknown /\ shop.balance >= Price

OpenDialog ==
    /\ ~shop.dialog /\ ~shop.submitting
    /\ buy_button_enabled
    /\ shop' = [shop EXCEPT !.dialog = TRUE, !.inline = FALSE]
    /\ UNCHANGED <<serverVars, load, confirms, toggles>>

CancelDialog ==
    /\ shop.dialog /\ ~shop.submitting
    /\ shop' = [shop EXCEPT !.dialog = FALSE]
    /\ UNCHANGED <<serverVars, load, confirms, toggles>>

NextJob(j) == job[j].at = "unsent" /\ \A i \in Jobs : i < j => job[i].at # "unsent"

\* One HTTP request of send_and_parse.
Send(s, attempt) ==
    \E j \in Jobs :
        /\ NextJob(j)
        /\ job' = [job EXCEPT ![j].at = "sent"]
        /\ shop' = [s EXCEPT !.attempt = attempt, !.current = j]

Confirm ==
    /\ shop.dialog /\ ~shop.submitting
    /\ confirms < MaxConfirms
    /\ confirms' = confirms + 1
    /\ Send([shop EXCEPT !.submitting = TRUE, !.inline = FALSE], 0)
    /\ UNCHANGED <<buyer, buyLock, cacheOfUser, load, charged, toggles>>

apply_purchase_success(balance) ==
    [shop EXCEPT !.submitting = FALSE, !.dialog = FALSE, !.inline = FALSE,
                 !.balance = balance, !.old = FALSE, !.bought = balance, !.epoch = @ + 1,
                 !.current = NoJob]

apply_purchase_failure(keepOpen) ==
    [shop EXCEPT !.submitting = FALSE, !.dialog = keepOpen, !.inline = keepOpen,
                 !.current = NoJob]

\* A network error, a 5xx or a 429 is repeated after a pause until the
\* retries are used up, whatever the method of the request.
RetryOrGiveUp ==
    \/ /\ shop.attempt < SendRetries
       /\ Send(shop, shop.attempt + 1)
    \/ /\ shop.attempt = SendRetries
       /\ shop' = apply_purchase_failure(FALSE)
       /\ UNCHANGED job

Receive ==
    /\ shop.submitting
    /\ LET j == job[shop.current]
       IN  \/ /\ j.at = "ok"
              /\ shop' = apply_purchase_success(j.balance)
              /\ UNCHANGED job
           \/ /\ j.at \in {"insufficient", "in_progress"}
              /\ shop' = apply_purchase_failure(j.at = "in_progress")
              /\ UNCHANGED job
           \/ j.at \in {"failed", "refused"} /\ RetryOrGiveUp
    /\ UNCHANGED <<buyer, buyLock, cacheOfUser, load, confirms, charged, toggles>>

\* The connection fails or the time is up, with the request not delivered, in
\* progress or answered: the server goes on with what it has.
LoseAnswer ==
    /\ shop.submitting
    /\ RetryOrGiveUp
    /\ UNCHANGED <<buyer, buyLock, cacheOfUser, load, confirms, charged, toggles>>

-----------------------------------------------------------------------------
(* The endpoint. *)

JobStep(j, state) ==
    /\ job' = [job EXCEPT ![j].at = state]
    /\ UNCHANGED <<shop, load, otherRead, confirms, toggles>>

\* Something in front of the handler answers for it.
RefuseJob(j) ==
    /\ job[j].at = "sent"
    /\ JobStep(j, "refused")
    /\ UNCHANGED <<buyer, buyLock, profile, charged>>

\* One attempt for the lock; without Redis the purchase goes on unprotected.
AcquirePurchaseLock(j) ==
    /\ job[j].at = "sent"
    /\ \/ /\ buyLock = NoJob
          /\ buyLock' = j
          /\ job' = [job EXCEPT ![j].at = "locked"]
       \/ /\ buyLock # NoJob
          /\ job' = [job EXCEPT ![j].at = "in_progress"]
          /\ UNCHANGED buyLock
       \/ /\ RedisFaults
          /\ job' = [job EXCEPT ![j].at = "open"]
          /\ UNCHANGED buyLock
    /\ UNCHANGED <<buyer, charged, shop, load, cacheOfUser, confirms, toggles>>

\* PlanService::purchase, whose row lock makes it one step for the balance,
\* up to the commit.
RunPurchase(j) ==
    /\ job[j].at \in {"locked", "open"}
    /\ \/ /\ buyer >= Price
          /\ buyer' = buyer - Price
          /\ charged' = charged + 1
          /\ job' = [job EXCEPT ![j].at = "paid", ![j].balance = buyer - Price]
       \/ /\ buyer < Price
          /\ job' = [job EXCEPT ![j].at = "short"]
          /\ UNCHANGED <<buyer, charged>>
       \/ /\ job' = [job EXCEPT ![j].at = "broken"]
          /\ UNCHANGED <<buyer, charged>>
    /\ UNCHANGED <<buyLock, shop, load, cacheOfUser, confirms, toggles>>

\* Then the cached profile is deleted, best effort.
InvalidateProfile(j) ==
    /\ job[j].at = "paid"
    /\ JobStep(j, "settled")
    /\ \/ profile' = NotCached
       \/ RedisFaults /\ profile' = [profile EXCEPT !.old = profile # NotCached]
    /\ UNCHANGED <<buyer, buyLock, charged>>

\* release, before the response; a release that fails leaves the key to its TTL.
RespondJob(j) ==
    /\ job[j].at \in {"settled", "short", "broken"}
    /\ JobStep(j, IF job[j].at = "settled" THEN "ok"
                  ELSE IF job[j].at = "short" THEN "insufficient" ELSE "failed")
    /\ \/ buyLock' = IF buyLock = j THEN NoJob ELSE buyLock
       \/ RedisFaults /\ UNCHANGED buyLock
    /\ UNCHANGED <<buyer, profile, charged>>

\* The lock's ten seconds are over.
ExpirePurchaseLock ==
    /\ RedisFaults /\ buyLock # NoJob
    /\ buyLock' = NoJob
    /\ UNCHANGED <<buyer, cacheOfUser, job, shop, load, confirms, charged, toggles>>

\* USER_CACHE_TTL_SECS are over.
ExpireProfile ==
    /\ profile # NotCached
    /\ profile' = NotCached
    /\ UNCHANGED <<buyer, buyLock, otherRead, job, shop, load, confirms, charged, toggles>>

PurchaseNext ==
    \/ ToggleLanguage \/ RetryBalance
    \/ \E l \in Loads : SendLoad(l) \/ LookUpProfile(l) \/ ReadProfile(l) \/ FillProfile(l)
                             \/ LoadAnswered(l)
    \/ OtherReads \/ OtherFills
    \/ OpenDialog \/ CancelDialog \/ Confirm \/ Receive \/ LoseAnswer
    \/ \E j \in Jobs : RefuseJob(j) \/ AcquirePurchaseLock(j) \/ RunPurchase(j)
                            \/ InvalidateProfile(j) \/ RespondJob(j)
    \/ ExpirePurchaseLock \/ ExpireProfile

PurchaseSpec == PurchaseInit /\ [][PurchaseNext]_purchaseVars

-----------------------------------------------------------------------------
(* Properties. *)

\* Once the page has shown the balance that a purchase left, no answer to a
\* request made earlier, for whatever language or after whatever retry, puts
\* a higher balance back (and with it a button for what cannot be paid).  A
\* request made later can do so only from a profile that a reader overtaken
\* by the purchase has cached, or whose deletion was lost: deletion before
\* the response is early enough for every other.
ShownKeepsPurchase ==
    shop.bought # Unknown /\ shop.balance > shop.bought => shop.old

\* The purchase lock "suppresses accidental double submits (double click /
\* client retry) that would otherwise deduct twice" (handlers/plan.rs:311), and
\* the page does not repeat a purchase by itself: one confirmation, one charge.
OneChargePerConfirm == charged <= confirms

=============================================================================
