--------------------------- MODULE AdminSessions ----------------------------
(***************************************************************************)
(* The sessions of the administration (service/admin.go): a map from       *)
(* tokens to expiry times behind a mutex.  An expired entry stays in the   *)
(* map until somebody asks about its token or the hourly cleanup, which    *)
(* reads the clock before it takes the mutex, comes by.                    *)
(*                                                                         *)
(* An expiry is kept as the time left, which is below 0 once it has        *)
(* passed and is counted down to -Interval.                                *)
(***************************************************************************)
EXTENDS Integers

CONSTANTS Tokens,    \* tokens; bound: logins in a behaviour.  Never drawn twice
          TTL,       \* sessionTTL
          Interval,  \* time between two cleanups
          None

ASSUME SessionAssumption ==
    /\ TTL \in Nat \ {0} /\ Interval \in Nat \ {0}
    /\ None \notin Int /\ \A gone \in SUBSET Tokens : gone # None

VARIABLES
    issued,     \* the tokens given to administrators so far
    sessions,   \* sessions[t]: the time left of t's entry, None without one
    answer,     \* the last token asked about, and what ValidateSession said
    tickIn,     \* time until the cleanup's ticker sends
    due,        \* the channel of the ticker holds a tick
    late        \* the entries that had expired when the cleanup under way
                \* read the clock; None without one

cleaner == <<tickIn, due, late>>
vars    == <<issued, sessions, answer, cleaner>>

Present == {t \in Tokens : sessions[t] # None}

\* Mutation variant: a session ends at the moment it expires.
NotBefore(left) == left <= 0

\* now.After(expiresAt)
Expired(left) == left < 0

Good(t) == sessions[t] # None /\ ~Expired(sessions[t])

Without(tokens) == [t \in Tokens |-> IF t \in tokens THEN None ELSE sessions[t]]

\* Mutation variant: a lifetime of another unit.
LongTTL == 2 * TTL

Lifetime == TTL

Init == /\ issued = {}
        /\ sessions = [t \in Tokens |-> None]
        /\ answer = None
        /\ tickIn = Interval /\ due = FALSE /\ late = None

\* With other credentials nothing changes.
Login(t) == /\ t \notin issued
            /\ issued' = issued \cup {t}
            /\ sessions' = [sessions EXCEPT ![t] = Lifetime]
            /\ UNCHANGED <<answer, cleaner>>

\* AdminAuth, AdminAPIAuth and the login page: what is not good is deleted.
ValidateSession(t) == /\ answer' = <<t, Good(t)>>
                      /\ sessions' = IF Good(t) THEN sessions ELSE Without({t})
                      /\ UNCHANGED <<issued, cleaner>>

Logout(t) == /\ sessions' = Without({t})
             /\ UNCHANGED <<issued, answer, cleaner>>

-----------------------------------------------------------------------------
(* cleanupSessions                                                         *)

\* A tick is taken and the clock is read.
ReadClock == /\ due /\ late = None
             /\ due' = FALSE
             /\ late' = {t \in Present : Expired(sessions[t])}
             /\ UNCHANGED <<issued, sessions, answer, tickIn>>

\* Mutation variant: what is deleted is what has not expired.
Opposite == Present \ late

Swept == Present \cap late

\* The pass over the map under the mutex, with the clock read before.
Sweep == /\ late # None
         /\ sessions' = Without(Swept)
         /\ late' = None
         /\ UNCHANGED <<issued, answer, tickIn, due>>

-----------------------------------------------------------------------------

Sooner(left) == IF left \in {None, -Interval} THEN left ELSE left - 1

Tick == /\ sessions' = [t \in Tokens |-> Sooner(sessions[t])]
        /\ tickIn' = IF tickIn = 1 THEN Interval ELSE tickIn - 1
        /\ due' = (due \/ tickIn = 1)
        /\ UNCHANGED <<issued, answer, late>>

\* The map is not kept anywhere else.
Restart == /\ sessions' = [t \in Tokens |-> None]
           /\ tickIn' = Interval /\ due' = FALSE /\ late' = None
           /\ UNCHANGED <<issued, answer>>

Ask == \E t \in Tokens : Login(t) \/ ValidateSession(t) \/ Logout(t)

Next == Ask \/ ReadClock \/ Sweep \/ Tick \/ Restart

Spec == Init /\ [][Next]_vars

\* Time passes, and the cleanup takes its ticks and gets the mutex.
FairSpec == Spec /\ WF_vars(Tick) /\ WF_vars(ReadClock) /\ WF_vars(Sweep)

-----------------------------------------------------------------------------
(* Properties                                                              *)

TypeOK == /\ issued \subseteq Tokens
          /\ sessions \in [Tokens -> (-Interval)..TTL \cup {None}]
          /\ answer \in (Tokens \X BOOLEAN) \cup {None}
          /\ tickIn \in 1..Interval /\ due \in BOOLEAN
          /\ late \in (SUBSET Tokens) \cup {None}

InForce == [t \in Tokens |-> IF Good(t) THEN sessions[t] ELSE None]

Authority == INSTANCE SessionAuthority WITH inForce <- InForce

\* Entries that outlive their sessions, questions that delete them and a
\* cleanup with an old clock are not to be seen from outside: every answer is
\* the one SessionAuthority gives.
AnswersAsPromised == Authority!Spec

\* The cleanup keeps the map tidy whether or not anybody asks: when it has
\* finished its pass and no tick waits for it, no entry expired longer ago
\* than its interval, though the clock it went by was read before the pass
\* and logins, questions and the passing of time came between the two.
SessionsTidy ==
    ~due /\ late = None => \A t \in Present : sessions[t] > -Interval

\* The map does not grow with sessions nobody asks about any more.
ExpiredGoes ==
    \A t \in Tokens : (sessions[t] # None /\ Expired(sessions[t])) ~> sessions[t] = None
=============================================================================
