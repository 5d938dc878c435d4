--------------------------- MODULE ConfigDelivery ---------------------------
(***************************************************************************)
(* What reloadCaddy() promises to those who call it, without a loop, a     *)
(* build or a push.  The active configuration moves towards the desired    *)
(* one and never back; a call that succeeds finds the configuration at     *)
(* least as new as it was when the call was made; a call that fails        *)
(* promises nothing.  All calls that wait are answered together.           *)
(***************************************************************************)
EXTENDS Integers

CONSTANTS Part, Caller, MaxVersion

VARIABLES
    desired,  \* committed version of each part
    active,   \* version of each part that is served
    caller,   \* idle, changed, waiting, ok or failed
    need      \* desired when the caller called

vars == <<desired, active, caller, need>>

Config == [Part -> 0..MaxVersion]
Blank == [p \in Part |-> 0]
AtMost(a, b) == \A p \in Part : a[p] <= b[p]
Waiting == {c \in Caller : caller[c] = "waiting"}

Init ==
    /\ desired = Blank
    /\ active = Blank
    /\ caller = [c \in Caller |-> "idle"]
    /\ need = [c \in Caller |-> Blank]

Commit(c, p) ==
    /\ caller[c] = "idle"
    /\ desired[p] < MaxVersion
    /\ desired' = [desired EXCEPT ![p] = @ + 1]
    /\ caller' = [caller EXCEPT ![c] = "changed"]
    /\ UNCHANGED <<active, need>>

Request(c) ==
    /\ caller[c] \in {"idle", "changed"}
    /\ caller' = [caller EXCEPT ![c] = "waiting"]
    /\ need' = [need EXCEPT ![c] = desired]
    /\ UNCHANGED <<desired, active>>

Deliver ==
    /\ active' \in Config
    /\ AtMost(active, active')
    /\ AtMost(active', desired)
    /\ UNCHANGED <<desired, caller, need>>

Answer(how) ==
    /\ caller' = [c \in Caller |-> IF c \in Waiting THEN how ELSE caller[c]]
    /\ UNCHANGED <<desired, active, need>>

Succeed == (\A c \in Waiting : AtMost(need[c], active)) /\ Answer("ok")

Fail == Answer("failed")

Return(c) ==
    /\ caller[c] \in {"ok", "failed"}
    /\ caller' = [caller EXCEPT ![c] = "idle"]
    /\ UNCHANGED <<desired, active, need>>

\* The callers are forgotten when the process restarts.
Forget ==
    /\ caller' = [c \in Caller |-> "idle"]
    /\ UNCHANGED <<desired, active, need>>

Next ==
    \/ \E c \in Caller : (\E p \in Part : Commit(c, p)) \/ Request(c) \/ Return(c)
    \/ Deliver
    \/ Succeed
    \/ Fail
    \/ Forget

Spec == Init /\ [][Next]_vars
=============================================================================
