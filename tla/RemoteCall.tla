------------------------------ MODULE RemoteCall ------------------------------
(***************************************************************************)
(* What a remote command promises its caller, whatever happens to the      *)
(* tunnel: a success is reported only for a command the host carried out,  *)
(* and every answer is the last word.  A failure or a timeout says nothing *)
(* of the host: the command may have been carried out, or still be.        *)
(***************************************************************************)
CONSTANT Requests

VARIABLES
    call,     \* what the caller of each request knows
    effect    \* the requests the host has carried out

callVars == <<call, effect>>

Init ==
    /\ call = [r \in Requests |-> "idle"]
    /\ effect = {}

Ask(r) ==
    /\ call[r] = "idle"
    /\ call' = [call EXCEPT ![r] = "open"]
    /\ UNCHANGED effect

\* The host may be late: the caller can have given up by then.
CarryOut(r) ==
    /\ call[r] # "idle" /\ r \notin effect
    /\ effect' = effect \cup {r}
    /\ UNCHANGED call

Succeed(r) ==
    /\ call[r] = "open" /\ r \in effect
    /\ call' = [call EXCEPT ![r] = "ok"]
    /\ UNCHANGED effect

Fail(r) ==
    /\ call[r] = "open"
    /\ call' = [call EXCEPT ![r] = "failed"]
    /\ UNCHANGED effect

Next == \E r \in Requests : Ask(r) \/ CarryOut(r) \/ Succeed(r) \/ Fail(r)

Spec == Init /\ [][Next]_callVars
=============================================================================
