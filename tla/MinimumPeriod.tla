--------------------------- MODULE MinimumPeriod ----------------------------
(***************************************************************************)
(* A rate limiter that never forgets: a request is let through exactly     *)
(* when no limit applies to it, when its caller was never let through      *)
(* under a limit before, or when the last time lies at least the request's *)
(* period back.  It may answer a request as it likes whose period it was   *)
(* never meant to keep.                                                    *)
(***************************************************************************)
EXTENDS Integers

CONSTANTS Callers, Requests

VARIABLES now,       \* the clock, from 1
          granted,   \* granted[c]: when c was last let through, 0 for never
          asked,     \* asked[p]: the request's caller and period, and whether the
                     \* period is to be kept
          verdict    \* verdict[p]: "none", "waiting", "pass" or "limited"

vars == <<now, granted, asked, verdict>>

Init == /\ now = 1
        /\ granted = [c \in Callers |-> 0]
        /\ verdict = [p \in Requests |-> "none"]

Clock == now' > now /\ UNCHANGED <<granted, asked, verdict>>

Ask(p) == /\ verdict[p] # "waiting"
          /\ verdict' = [verdict EXCEPT ![p] = "waiting"]
          /\ \A q \in Requests \ {p} : asked'[q] = asked[q]
          /\ UNCHANGED <<now, granted>>

Due(c, period) == granted[c] = 0 \/ now - granted[c] >= period

Answer(p, v) == /\ verdict[p] = "waiting"
                /\ verdict' = [verdict EXCEPT ![p] = v]
                /\ \A q \in Requests \ {p} : asked'[q] = asked[q]
                /\ UNCHANGED now

PassFree(p) == /\ Answer(p, "pass")
               /\ asked[p].period = 0
               /\ UNCHANGED granted

Pass(p) == /\ Answer(p, "pass")
           /\ asked[p].period # 0
           /\ asked[p].kept => Due(asked[p].caller, asked[p].period)
           /\ granted' = [granted EXCEPT ![asked[p].caller] = now]

Limit(p) == /\ Answer(p, "limited")
            /\ asked[p].period # 0
            /\ asked[p].kept => ~Due(asked[p].caller, asked[p].period)
            /\ UNCHANGED granted

Next == \/ Clock
        \/ \E p \in Requests : Ask(p) \/ PassFree(p) \/ Pass(p) \/ Limit(p)

Spec == Init /\ [][Next]_vars
=============================================================================
