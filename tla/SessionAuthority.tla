-------------------------- MODULE SessionAuthority --------------------------
(***************************************************************************)
(* What the sessions of the administration promise: a token is good from   *)
(* its login for the time to live, unless its session is ended before, by  *)
(* a logout or by the end of the process; and every question about a token *)
(* is answered so.                                                         *)
(***************************************************************************)
EXTENDS Integers

CONSTANTS Tokens, TTL, None

VARIABLES issued,   \* the tokens given to administrators so far
          inForce,  \* inForce[t]: how long t is still good, None when it is not
          answer    \* the last question and its answer

vars == <<issued, inForce, answer>>

Init == issued = {} /\ inForce = [t \in Tokens |-> None] /\ answer = None

Login(t) == /\ t \notin issued
            /\ issued' = issued \cup {t}
            /\ inForce' = [inForce EXCEPT ![t] = TTL]
            /\ UNCHANGED answer

Ask(t) == /\ answer' = <<t, inForce[t] # None>>
          /\ UNCHANGED <<issued, inForce>>

Logout(t) == /\ inForce' = [inForce EXCEPT ![t] = None]
             /\ UNCHANGED <<issued, answer>>

Restart == /\ inForce' = [t \in Tokens |-> None]
           /\ UNCHANGED <<issued, answer>>

\* A token is good up to and including the moment it expires.
Tick == /\ inForce' = [t \in Tokens |-> IF inForce[t] \in {None, 0} THEN None
                                                             ELSE inForce[t] - 1]
        /\ UNCHANGED <<issued, answer>>

Next == (\E t \in Tokens : Login(t) \/ Ask(t) \/ Logout(t)) \/ Restart \/ Tick

Spec == Init /\ [][Next]_vars
=============================================================================
