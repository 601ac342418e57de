---------------------------- MODULE OneTimeGrant ----------------------------
(***************************************************************************)
(* What a one-time code promises, whatever it is stored in: at most one    *)
(* grant is open at a time, a grant that is redeemed or lapses is closed,  *)
(* and nothing is redeemed while no grant is open.  Password-reset codes   *)
(* (OneTimeCodes) and WeChat captchas (WechatCaptcha) implement it.        *)
(***************************************************************************)
EXTENDS Naturals

CONSTANT Holders    \* the accounts or followers codes are given to

VARIABLES
    open,       \* holders with a grant that can be redeemed
    issued,     \* grants given to each holder
    redeemed    \* grants redeemed by each holder

grantVars == <<open, issued, redeemed>>

Init ==
    /\ open = {}
    /\ issued = [h \in Holders |-> 0]
    /\ redeemed = [h \in Holders |-> 0]

\* A new code replaces an open one.
Issue(h) ==
    /\ open' = open \cup {h}
    /\ issued' = [issued EXCEPT ![h] = @ + 1]
    /\ UNCHANGED redeemed

Redeem(h) ==
    /\ h \in open
    /\ open' = open \ {h}
    /\ redeemed' = [redeemed EXCEPT ![h] = @ + 1]
    /\ UNCHANGED issued

Lapse(h) ==
    /\ h \in open
    /\ open' = open \ {h}
    /\ UNCHANGED <<issued, redeemed>>

Next == \E h \in Holders : Issue(h) \/ Redeem(h) \/ Lapse(h)

Spec == Init /\ [][Next]_grantVars

\* No grant is redeemed twice.
RedeemedAtMostOnce == \A h \in Holders : redeemed[h] <= issued[h]

=============================================================================
