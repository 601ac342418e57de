---------------------------- MODULE OneTimeCodes ----------------------------
(***************************************************************************)
(* The two codes the server mails to an account: the one that verifies the *)
(* address (server/src/services/verification.rs and register of            *)
(* handlers/auth.rs) and the one that resets the password                  *)
(* (services/password_reset.rs).  Each is a hash, an expiry, a time of     *)
(* sending and a count of failed attempts in the users row.                *)
(*                                                                         *)
(* Requests read the row, work on the copy (an Argon2 check takes a        *)
(* while) and update the row in a later statement.  The two codes share no *)
(* column, so a behaviour is about one of them.                            *)
(***************************************************************************)
EXTENDS Integers

CONSTANTS
    CodeProcs,      \* requests being served at one time
    MaxTries,       \* MAX_FAILED_ATTEMPTS (5 in the code)
    MaxCodes,       \* bound: codes mailed for one purpose
    MaxGuesses      \* bound: requests that present a code

Kinds == {"verify", "reset"}
NoCode == 0
Codes == 1 .. MaxCodes

ASSUME CodesAssumption ==
    /\ MaxTries \in Nat \ {0} /\ MaxCodes \in Nat /\ MaxGuesses \in Nat

VARIABLES
    kind,       \* the code this behaviour is about
    verified,   \* users.email_verified
    slot,       \* the columns of the code
    creq,       \* what each request is doing
    issued,     \* history: codes stored
    redeemed,   \* history: requests that succeeded with a code
    compared,   \* history: how often a presented code was compared
    window      \* history: codes stored by a resend in this cooldown window

codeVars == <<kind, verified, slot, creq, issued, redeemed, compared, window>>

\* sent_at is abstracted to whether it lies within RESEND_COOLDOWN_SECONDS,
\* expires_at to whether it lies in the future.
Slot == [hash : Codes \cup {NoCode}, fresh : BOOLEAN, cooling : BOOLEAN,
         tries : Nat]
EmptySlot == [hash |-> NoCode, fresh |-> FALSE, cooling |-> FALSE, tries |-> 0]

CodePcs == {"idle", "created", "send", "auto", "ask", "read", "charged",
            "matched"}
CodeRequest == [pc : CodePcs, code : Codes \cup {NoCode},
                seen : Slot, register : BOOLEAN]
IdleCode == [pc |-> "idle", code |-> NoCode, seen |-> EmptySlot,
             register |-> FALSE]

\* The request that registers the account has just inserted the row.
CodesInit ==
    /\ kind \in Kinds
    /\ verified = FALSE
    /\ slot = EmptySlot
    /\ IF kind = "verify"
       THEN \E p \in CodeProcs :
              creq = [q \in CodeProcs |->
                        IF q = p THEN [IdleCode EXCEPT !.pc = "created",
                                                       !.register = TRUE]
                        ELSE IdleCode]
       ELSE creq = [q \in CodeProcs |-> IdleCode]
    /\ issued = 0 /\ redeemed = 0 /\ compared = 0 /\ window = 0

At(p, pc) == creq[p].pc = pc
Answer(p) == creq' = [creq EXCEPT ![p] = IdleCode]
NewCode == [hash |-> issued + 1, fresh |-> TRUE, cooling |-> TRUE, tries |-> 0]

-----------------------------------------------------------------------------
(* Issuing *)

\* store_verification_code, called by register: no condition on the row.
RegisterStore(p) ==
    /\ At(p, "created") /\ ~verified
    /\ issued < MaxCodes
    /\ slot' = NewCode
    /\ issued' = issued + 1
    /\ creq' = [creq EXCEPT ![p].pc = "send"]
    /\ UNCHANGED <<verified, redeemed, compared, window>>

\* No mail server is configured; an address verified already needs no code.
RegisterSkip(p) ==
    /\ At(p, "created")
    /\ IF verified THEN Answer(p) ELSE creq' = [creq EXCEPT ![p].pc = "auto"]
    /\ UNCHANGED <<verified, slot, issued, redeemed, compared, window>>

\* The mail leaves, or fails: register then falls back to auto_verify, the
\* other requests answer with an error and the code stays in the row.
Send(p) ==
    /\ At(p, "send")
    /\ \/ Answer(p)
       \/ creq[p].register /\ creq' = [creq EXCEPT ![p].pc = "auto"]
    /\ UNCHANGED <<verified, slot, issued, redeemed, compared, window>>

\* auto_verify; the code, if any, is left in the row.
AutoVerify(p) ==
    /\ At(p, "auto")
    /\ verified' = TRUE
    /\ Answer(p)
    /\ UNCHANGED <<slot, issued, redeemed, compared, window>>

\* resend_code and request_reset read the user first.
Ask(p) ==
    /\ At(p, "idle")
    /\ issued < MaxCodes
    /\ kind = "verify" => ~verified
    /\ creq' = [creq EXCEPT ![p] = [IdleCode EXCEPT !.pc = "ask",
                                                   !.seen = slot]]
    /\ UNCHANGED <<verified, slot, issued, redeemed, compared, window>>

\* The cooldown is a condition of the UPDATE, so it looks at the row as it is.
MayIssue(p) == ~slot.cooling

StoreCode(p) ==
    /\ At(p, "ask")
    /\ IF MayIssue(p) /\ issued < MaxCodes
       THEN /\ slot' = NewCode
            /\ issued' = issued + 1
            /\ window' = window + 1
            /\ creq' = [creq EXCEPT ![p].pc = "send"]
       ELSE Answer(p) /\ UNCHANGED <<slot, issued, window>>
    /\ UNCHANGED <<verified, redeemed, compared>>

-----------------------------------------------------------------------------
(* Presenting a code *)

\* verify_email and reset_password read the row and leave at once when there is
\* no code, it has expired, or the address is verified already.
Present(p, c) ==
    /\ At(p, "idle")
    /\ slot.hash # NoCode /\ slot.fresh
    /\ kind = "verify" => ~verified
    /\ compared < MaxGuesses
    /\ creq' = [creq EXCEPT ![p] = [IdleCode EXCEPT !.pc = "read",
                                            !.code = c, !.seen = slot]]
    /\ UNCHANGED <<verified, slot, issued, redeemed, compared, window>>

\* Mutant: the count is looked up on the row the request read.
MayGuessAsRead(p) == creq[p].seen.tries < MaxTries

\* increment_failed_attempts: UPDATE ... WHERE failed_attempts < MAX.
MayGuess(p) == slot.tries < MaxTries

Charge(p) ==
    /\ At(p, "read")
    /\ IF MayGuess(p)
       THEN /\ slot' = [slot EXCEPT !.tries = @ + 1]
            /\ compared' = compared + 1
            /\ creq' = [creq EXCEPT ![p].pc =
                          IF creq[p].code = creq[p].seen.hash THEN "matched"
                          ELSE "charged"]
       ELSE Answer(p) /\ UNCHANGED <<slot, compared>>
    /\ UNCHANGED <<verified, issued, redeemed, window>>

\* The code did not match the hash read earlier.
Refuse(p) ==
    /\ At(p, "charged")
    /\ Answer(p)
    /\ UNCHANGED <<verified, slot, issued, redeemed, compared, window>>

Redeemed ==
    /\ slot' = EmptySlot
    /\ redeemed' = redeemed + 1
    /\ window' = 0

\* verify_email writes whatever the row holds by now.
VerifyEmail(p) ==
    /\ At(p, "matched") /\ kind = "verify"
    /\ verified' = TRUE
    /\ Redeemed
    /\ Answer(p)
    /\ UNCHANGED <<issued, compared>>

\* Mutant: the update has no condition on the code.
AlwaysOpen == TRUE

\* reset_password claims the row WHERE password_reset_token_hash IS NOT NULL:
\* a code is there, if not necessarily the one that was compared.
StillOpen == slot.hash # NoCode

ResetPassword(p) ==
    /\ At(p, "matched") /\ kind = "reset"
    /\ IF StillOpen THEN Redeemed
       ELSE UNCHANGED <<slot, redeemed, window>>
    /\ Answer(p)
    /\ UNCHANGED <<verified, issued, compared>>

-----------------------------------------------------------------------------
(* Time *)

CooldownEnds ==
    /\ slot.cooling
    /\ slot' = [slot EXCEPT !.cooling = FALSE]
    /\ window' = 0
    /\ UNCHANGED <<verified, creq, issued, redeemed, compared>>

CodeExpires ==
    /\ slot.fresh
    /\ slot' = [slot EXCEPT !.fresh = FALSE]
    /\ UNCHANGED <<verified, creq, issued, redeemed, compared, window>>

\* A statement fails, and the request with it.
CodeRequestFails(p) ==
    /\ creq[p].pc # "idle"
    /\ Answer(p)
    /\ UNCHANGED <<verified, slot, issued, redeemed, compared, window>>

CodesNext ==
    /\ UNCHANGED kind
    /\ \/ \E p \in CodeProcs :
            \/ RegisterStore(p) \/ RegisterSkip(p) \/ Send(p) \/ AutoVerify(p)
            \/ StoreCode(p) \/ Charge(p) \/ Refuse(p)
            \/ VerifyEmail(p) \/ ResetPassword(p)
            \/ Ask(p) \/ CodeRequestFails(p)
            \/ \E c \in Codes \cup {NoCode} : Present(p, c)
       \/ CooldownEnds \/ CodeExpires

CodesSpec == CodesInit /\ [][CodesNext]_codeVars

-----------------------------------------------------------------------------
CodesTypeOK ==
    /\ kind \in Kinds
    /\ verified \in BOOLEAN
    /\ slot \in Slot
    /\ creq \in [CodeProcs -> CodeRequest]
    /\ issued \in 0 .. MaxCodes
    /\ redeemed \in Nat /\ compared \in Nat /\ window \in Nat

ResetGrant == INSTANCE OneTimeGrant WITH
    Holders <- {"reset"},
    open <- IF slot.hash # NoCode THEN {kind} \cap {"reset"} ELSE {},
    issued <- [h \in {"reset"} |-> IF h = kind THEN issued ELSE 0],
    redeemed <- [h \in {"reset"} |-> IF h = kind THEN redeemed ELSE 0]

\* Two requests may present the same reset code at once, and a new code may be
\* mailed between the check of the old one and the update: still, every reset
\* uses up a code that was open, so there are never more resets than codes.
ResetIsOneTime == ResetGrant!Spec

\* However many requests run at once, at most MaxTries comparisons are made for
\* each code stored and for each time a success cleared the count.
GuessesAreBounded ==
    compared <= MaxTries * (issued + redeemed)

\* Two requests that both read a row out of its cooldown do not both mail a
\* code: one per window (register's own code is not asked for).
OneCodePerWindow == window <= 1

\* Neither guesses nor mails exceed their limits, though both limits are first
\* checked on a row that was read earlier.
CodesAreBounded == GuessesAreBounded /\ OneCodePerWindow

=============================================================================
