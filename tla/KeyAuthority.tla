---------------------------- MODULE KeyAuthority ----------------------------
(***************************************************************************)
(* What a caller may rely on when an API key is checked, with no cache and *)
(* no clock: a valid key that covers the scope is never refused; a key     *)
(* that was never issued, or was revoked and forgotten, is never accepted; *)
(* between its revocation and its being forgotten either answer may come.  *)
(***************************************************************************)
CONSTANTS Keys, Requests

VARIABLES status,   \* status[k]: "unknown", "valid", "fading" or "dead"
          scope,    \* scope[k]: the scope k was issued with
          asked,    \* asked[q]: the request's key and wanted scope
          verdict   \* verdict[q]: "none", "ok", "no" or "error"

vars == <<status, scope, asked, verdict>>

\* What a key issued with scope s may be used for.
Grants(s, want) == s \in {want, "both"}

\* The last copy of a revoked key may disappear at any moment.
MayForget == \A k \in Keys :
                \/ status'[k] = status[k]
                \/ status[k] = "fading" /\ status'[k] = "dead"

Issue(k) == /\ status[k] = "unknown"
            /\ status' = [status EXCEPT ![k] = "valid"]
            /\ \A j \in Keys \ {k} : scope'[j] = scope[j]
            /\ UNCHANGED <<asked, verdict>>

Revoke(k) == /\ status[k] = "valid"
             /\ status'[k] \in {"fading", "dead"}
             /\ \A j \in Keys \ {k} : status'[j] = status[j]
             /\ UNCHANGED <<scope, asked, verdict>>

Ask(q) == /\ verdict' = [verdict EXCEPT ![q] = "none"]
          /\ \A p \in Requests \ {q} : asked'[p] = asked[p]
          /\ MayForget
          /\ UNCHANGED scope

\* The answer is judged by the status before the step.
Answer(q, v) ==
    LET k == asked[q].key
        covers == Grants(scope[k], asked[q].want)
    IN  /\ verdict[q] = "none"
        /\ verdict' = [verdict EXCEPT ![q] = v]
        /\ \/ v = "ok" /\ status[k] \in {"valid", "fading"} /\ covers
           \/ v = "no" /\ ~(status[k] = "valid" /\ covers)
           \/ v = "error"
        /\ MayForget
        /\ UNCHANGED <<scope, asked>>

\* Every request is lost with the process.
Crash == /\ verdict' = [q \in Requests |-> "none"]
         /\ MayForget
         /\ UNCHANGED <<scope, asked>>

Forget == MayForget /\ UNCHANGED <<scope, asked, verdict>>

Next == \/ \E k \in Keys : Issue(k) \/ Revoke(k)
        \/ \E q \in Requests : Ask(q) \/ \E v \in {"ok", "no", "error"} : Answer(q, v)
        \/ Crash
        \/ Forget

Init == /\ status = [k \in Keys |-> "unknown"]
        /\ scope = [k \in Keys |-> "none"]
        /\ verdict = [q \in Requests |-> "none"]

Spec == Init /\ [][Next]_vars
=============================================================================
