---------------------------- MODULE WechatCaptcha ----------------------------
(***************************************************************************)
(* The second factor of the login page: a follower of the WeChat account   *)
(* asks for a code, and any login presents it once                         *)
(* (crates/wechat-api/src/captcha.rs, RedisCaptchaStore of                 *)
(* server/src/services/wechat.rs and the first half of login_inner in      *)
(* handlers/auth.rs).                                                      *)
(*                                                                         *)
(* Redis keeps three keys with lives of their own: the captcha of a        *)
(* follower, the reverse index from a code to the follower, and the count  *)
(* of failed attempts.  Only the Lua script touches several at once.       *)
(* Codes are random, so two followers may be given the same one.           *)
(***************************************************************************)
EXTENDS Integers, FiniteSetsExt

CONSTANTS
    Followers,      \* openids
    CaptchaCodes,   \* what generate_code may return
    CaptchaProcs,   \* requests being served at one time
    MaxAttempts,    \* max_failed_attempts
    MaxGrants       \* bound: captchas given out

Nobody == "nobody"
NoCaptcha == "nocaptcha"

ASSUME CaptchaAssumption ==
    /\ Nobody \notin Followers /\ NoCaptcha \notin CaptchaCodes
    /\ MaxAttempts \in Nat \ {0} /\ MaxGrants \in Nat

VARIABLES
    captcha,    \* wechat:{account}:captcha:{openid}
    codeIndex,  \* wechat:{account}:code:{code}
    attempts,   \* wechat:{account}:captcha:{openid}:attempts
    wreq,       \* what each request is doing
    given,      \* history: captchas stored for a follower
    accepted    \* history: logins that passed with a follower's captcha

captchaVars == <<captcha, codeIndex, attempts, wreq, given, accepted>>

WechatPcs == {"idle", "stored", "indexed", "peek", "match", "wrong",
              "drop", "dropIndex", "dropMain", "dropCount", "passed"}
WechatRequest == [pc : WechatPcs, who : Followers \cup {Nobody},
                  code : CaptchaCodes \cup {NoCaptcha}]
IdleWechat == [pc |-> "idle", who |-> Nobody, code |-> NoCaptcha]

CaptchaInit ==
    /\ captcha = [f \in Followers |-> NoCaptcha]
    /\ codeIndex = [c \in CaptchaCodes |-> Nobody]
    /\ attempts = [f \in Followers |-> 0]
    /\ wreq = [p \in CaptchaProcs |-> IdleWechat]
    /\ given = [f \in Followers |-> 0]
    /\ accepted = [f \in Followers |-> 0]

InState(p, pc) == wreq[p].pc = pc
GoOn(p, pc) == wreq' = [wreq EXCEPT ![p].pc = pc]
Done(p) == wreq' = [wreq EXCEPT ![p] = IdleWechat]

-----------------------------------------------------------------------------
(* CaptchaService::generate, on a message from a follower *)

\* SET NX EX: a follower who has a captcha gets no other.
GenerateStore(p, f, c) ==
    /\ InState(p, "idle")
    /\ captcha[f] = NoCaptcha /\ MapThenSumSet(LAMBDA g : given[g], Followers) < MaxGrants
    /\ captcha' = [captcha EXCEPT ![f] = c]
    /\ given' = [given EXCEPT ![f] = @ + 1]
    /\ wreq' = [wreq EXCEPT ![p] = [pc |-> "stored", who |-> f, code |-> c]]
    /\ UNCHANGED <<codeIndex, attempts, accepted>>

\* The reverse index, best effort.
GenerateIndex(p) ==
    /\ InState(p, "stored")
    /\ codeIndex' \in {codeIndex, [codeIndex EXCEPT ![wreq[p].code] = wreq[p].who]}
    /\ GoOn(p, "indexed")
    /\ UNCHANGED <<captcha, attempts, given, accepted>>

GenerateReset(p) ==
    /\ InState(p, "indexed")
    /\ attempts' = [attempts EXCEPT ![wreq[p].who] = 0]
    /\ Done(p)
    /\ UNCHANGED <<captcha, codeIndex, given, accepted>>

-----------------------------------------------------------------------------
(* login_inner and CaptchaService::verify_for_openid *)

\* The code in the request tells whose captcha to look at.
LookUp(p, c) ==
    /\ InState(p, "idle")
    /\ codeIndex[c] # Nobody
    /\ wreq' = [wreq EXCEPT ![p] = [pc |-> "peek", who |-> codeIndex[c],
                                    code |-> c]]
    /\ UNCHANGED <<captcha, codeIndex, attempts, given, accepted>>

Peek(p) ==
    /\ InState(p, "peek")
    /\ LET found == captcha[wreq[p].who] IN
       CASE found = NoCaptcha    -> Done(p)
         [] found = wreq[p].code -> GoOn(p, "match")
         [] OTHER                -> GoOn(p, "wrong")
    /\ UNCHANGED <<captcha, codeIndex, attempts, given, accepted>>

\* Counts from MaxAttempts on are alike.
CountAttempt(p) ==
    /\ InState(p, "wrong")
    /\ attempts' = [attempts EXCEPT ![wreq[p].who] = IF @ < MaxAttempts THEN @ + 1 ELSE @]
    /\ IF attempts[wreq[p].who] + 1 >= MaxAttempts THEN GoOn(p, "drop")
       ELSE Done(p)
    /\ UNCHANGED <<captcha, codeIndex, given, accepted>>

\* Mutant: the second look is trusted, whoever consumed the captcha meanwhile.
ClaimedAnyway(f) == TRUE

\* consume_captcha, one Lua script: the captcha of the follower, whatever its
\* code is by now, its count and its index entry go together.
Claimed(f) == captcha[f] # NoCaptcha

Consume(p) ==
    /\ InState(p, "match")
    /\ LET f == wreq[p].who
           c == captcha[f] IN
       IF Claimed(f)
       THEN /\ captcha' = [captcha EXCEPT ![f] = NoCaptcha]
            /\ attempts' = [attempts EXCEPT ![f] = 0]
            /\ codeIndex' = [d \in CaptchaCodes |->
                               IF d = c THEN Nobody ELSE codeIndex[d]]
            /\ accepted' = [accepted EXCEPT ![f] = @ + 1]
            /\ GoOn(p, "passed")
       ELSE /\ Done(p)
            /\ UNCHANGED <<captcha, attempts, codeIndex, accepted>>
    /\ UNCHANGED given

\* reset_failed_attempts, and on to the password.
Pass(p) ==
    /\ InState(p, "passed")
    /\ attempts' = [attempts EXCEPT ![wreq[p].who] = 0]
    /\ Done(p)
    /\ UNCHANGED <<captcha, codeIndex, given, accepted>>

\* delete_captcha after too many attempts: a peek and three DELs.
DropPeek(p) ==
    /\ InState(p, "drop")
    /\ LET c == captcha[wreq[p].who] IN
       wreq' = [wreq EXCEPT ![p] = [@ EXCEPT !.code = c,
                  !.pc = IF c = NoCaptcha THEN "dropMain" ELSE "dropIndex"]]
    /\ UNCHANGED <<captcha, codeIndex, attempts, given, accepted>>

DropIndex(p) ==
    /\ InState(p, "dropIndex")
    /\ codeIndex' = [codeIndex EXCEPT ![wreq[p].code] = Nobody]
    /\ GoOn(p, "dropMain")
    /\ UNCHANGED <<captcha, attempts, given, accepted>>

DropMain(p) ==
    /\ InState(p, "dropMain")
    /\ captcha' = [captcha EXCEPT ![wreq[p].who] = NoCaptcha]
    /\ GoOn(p, "dropCount")
    /\ UNCHANGED <<codeIndex, attempts, given, accepted>>

DropCount(p) ==
    /\ InState(p, "dropCount")
    /\ attempts' = [attempts EXCEPT ![wreq[p].who] = 0]
    /\ Done(p)
    /\ UNCHANGED <<captcha, codeIndex, given, accepted>>

-----------------------------------------------------------------------------
\* The TTLs end on their own.
CaptchaExpires(f) ==
    /\ captcha[f] # NoCaptcha
    /\ captcha' = [captcha EXCEPT ![f] = NoCaptcha]
    /\ UNCHANGED <<codeIndex, attempts, wreq, given, accepted>>

IndexExpires(c) ==
    /\ codeIndex[c] # Nobody
    /\ codeIndex' = [codeIndex EXCEPT ![c] = Nobody]
    /\ UNCHANGED <<captcha, attempts, wreq, given, accepted>>

CountExpires(f) ==
    /\ attempts[f] # 0
    /\ attempts' = [attempts EXCEPT ![f] = 0]
    /\ UNCHANGED <<captcha, codeIndex, wreq, given, accepted>>

\* An error of Redis ends the request where it is.
RedisFails(p) ==
    /\ wreq[p].pc # "idle"
    /\ Done(p)
    /\ UNCHANGED <<captcha, codeIndex, attempts, given, accepted>>

CaptchaNext ==
    \/ \E p \in CaptchaProcs :
         \/ \E f \in Followers, c \in CaptchaCodes : GenerateStore(p, f, c)
         \/ GenerateIndex(p) \/ GenerateReset(p)
         \/ \E c \in CaptchaCodes : LookUp(p, c)
         \/ Peek(p) \/ CountAttempt(p) \/ Consume(p) \/ Pass(p)
         \/ DropPeek(p) \/ DropIndex(p) \/ DropMain(p) \/ DropCount(p)
         \/ RedisFails(p)
    \/ \E f \in Followers : CaptchaExpires(f) \/ CountExpires(f)
    \/ \E c \in CaptchaCodes : IndexExpires(c)

CaptchaSpec == CaptchaInit /\ [][CaptchaNext]_captchaVars

-----------------------------------------------------------------------------
CaptchaTypeOK ==
    /\ captcha \in [Followers -> CaptchaCodes \cup {NoCaptcha}]
    /\ codeIndex \in [CaptchaCodes -> Followers \cup {Nobody}]
    /\ attempts \in [Followers -> 0 .. MaxAttempts]
    /\ wreq \in [CaptchaProcs -> WechatRequest]
    /\ given \in [Followers -> 0 .. MaxGrants]
    /\ accepted \in [Followers -> Nat]

CaptchaGrant == INSTANCE OneTimeGrant WITH
    Holders <- Followers,
    open <- {f \in Followers : captcha[f] # NoCaptcha},
    issued <- given, redeemed <- accepted

\* Every login that passes the second factor uses up a captcha of its own, even
\* when several present one code at once, two followers hold the same code or a
\* captcha is replaced between the look and the claim.
CaptchaIsOneTime == CaptchaGrant!Spec

=============================================================================
