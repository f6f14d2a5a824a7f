------------------------ MODULE AdminSessionsProofs -------------------------
(***************************************************************************)
(* Proofs about AdminSessions for every set of tokens, lifetime and        *)
(* interval between cleanups.                                              *)
(***************************************************************************)
EXTENDS AdminSessions, TLAPS

\* What the cleanup is about to delete is expired or gone: a token is never
\* drawn twice, so no entry of a new session can have taken its place.
LateExpired ==
    late # None => \A t \in late : t \in issued /\ ~Good(t)

\* Only tokens that were given out have entries.
EntriesIssued == \A t \in Tokens : sessions[t] # None => t \in issued

IInv == TypeOK /\ EntriesIssued /\ LateExpired

\* The time left of an entry.
LEMMA LeftType ==
    ASSUME TypeOK, NEW t \in Tokens, sessions[t] # None
    PROVE  sessions[t] \in Int /\ -Interval <= sessions[t] /\ sessions[t] <= TTL
BY SessionAssumption DEF TypeOK

LEMMA WithoutType ==
    ASSUME TypeOK, NEW gone
    PROVE  /\ Without(gone) \in [Tokens -> (-Interval)..TTL \cup {None}]
           /\ \A t \in Tokens : Without(gone)[t] # None => Without(gone)[t] = sessions[t]
BY DEF TypeOK, Without

LEMMA InitIInv == Init => IInv
<1> SUFFICES ASSUME Init PROVE IInv
  OBVIOUS
<1>1. Interval \in 1..Interval
  BY SessionAssumption
<1>2. TypeOK
  BY <1>1 DEF Init, TypeOK
<1> QED
  BY <1>2 DEF Init, IInv, EntriesIssued, LateExpired

\* Entries that only go cannot break the invariant.
LEMMA FewerEntries ==
    ASSUME IInv, NEW gone, sessions' = Without(gone), UNCHANGED issued,
           late' = late \/ late' = None
    PROVE  EntriesIssued' /\ LateExpired'
<1>1. \A t \in Tokens : sessions'[t] # None => sessions'[t] = sessions[t]
  BY WithoutType DEF IInv
<1>2. EntriesIssued'
  BY <1>1 DEF IInv, EntriesIssued
<1>3. LateExpired'
  <2> SUFFICES ASSUME late' # None, NEW t \in late' PROVE t \in issued /\ ~Good(t)'
    BY DEF LateExpired
  <2>1. late' = late /\ t \in Tokens /\ t \in issued /\ ~Good(t)
    BY DEF IInv, LateExpired, TypeOK
  <2> QED  BY <1>1, <2>1 DEF Good
<1> QED
  BY <1>2, <1>3

LEMMA LoginStep == ASSUME IInv, NEW t \in Tokens, Login(t) PROVE IInv'
<1>1. /\ TypeOK /\ t \notin issued /\ issued' = issued \cup {t}
      /\ sessions' = [sessions EXCEPT ![t] = TTL]
      /\ UNCHANGED <<answer, tickIn, due, late>>
  BY DEF IInv, Login, Lifetime, cleaner
<1>2. TypeOK'
  <2>1. sessions' \in [Tokens -> (-Interval)..TTL \cup {None}]
    BY <1>1, SessionAssumption DEF TypeOK
  <2> QED  BY <1>1, <2>1 DEF TypeOK
<1>3. \A u \in Tokens \ {t} : sessions'[u] = sessions[u]
  BY <1>1 DEF TypeOK
<1>4. EntriesIssued'
  BY <1>1, <1>3 DEF IInv, EntriesIssued
<1>5. LateExpired'
  <2> SUFFICES ASSUME late' # None, NEW u \in late' PROVE u \in issued' /\ ~Good(u)'
    BY DEF LateExpired
  <2>1. u \in issued /\ ~Good(u) /\ u \in Tokens /\ u # t
    BY <1>1 DEF IInv, LateExpired, TypeOK
  <2> QED  BY <1>1, <1>3, <2>1 DEF Good
<1> QED
  BY <1>2, <1>4, <1>5 DEF IInv

LEMMA ValidateStep == ASSUME IInv, NEW t \in Tokens, ValidateSession(t) PROVE IInv'
<1>1. /\ TypeOK /\ answer' = <<t, Good(t)>>
      /\ UNCHANGED <<issued, tickIn, due, late>>
  BY DEF IInv, ValidateSession, cleaner
<1>2. Good(t) \in BOOLEAN
  BY DEF Good, Expired
<1>3. CASE Good(t)
  <2>1. sessions' = sessions
    BY <1>3 DEF ValidateSession
  <2>2. TypeOK'
    BY <1>1, <1>2, <2>1 DEF TypeOK
  <2> QED  BY <1>1, <2>1, <2>2 DEF IInv, EntriesIssued, LateExpired, Good
<1>4. CASE ~Good(t)
  <2>1. sessions' = Without({t})
    BY <1>4 DEF ValidateSession
  <2>2. sessions' \in [Tokens -> (-Interval)..TTL \cup {None}]
    BY <1>1, <2>1, WithoutType
  <2>3. TypeOK'
    BY <1>1, <1>2, <2>2 DEF TypeOK
  <2> QED  BY <1>1, <2>1, <2>3, FewerEntries DEF IInv
<1> QED
  BY <1>3, <1>4

LEMMA LogoutStep == ASSUME IInv, NEW t \in Tokens, Logout(t) PROVE IInv'
<1>1. /\ TypeOK /\ sessions' = Without({t})
      /\ UNCHANGED <<issued, answer, tickIn, due, late>>
  BY DEF IInv, Logout, cleaner
<1>2. TypeOK'
  BY <1>1, WithoutType DEF TypeOK
<1> QED
  BY <1>1, <1>2, FewerEntries DEF IInv

LEMMA ReadClockStep == ASSUME IInv, ReadClock PROVE IInv'
<1>1. TypeOK'
  BY DEF IInv, ReadClock, TypeOK, Present
<1>2. EntriesIssued'
  BY DEF IInv, ReadClock, EntriesIssued
<1>3. LateExpired'
  BY DEF IInv, ReadClock, EntriesIssued, LateExpired, Present, Good
<1> QED
  BY <1>1, <1>2, <1>3 DEF IInv

LEMMA SweepStep == ASSUME IInv, Sweep PROVE IInv'
<1>1. /\ TypeOK /\ sessions' = Without(Swept) /\ late' = None
      /\ UNCHANGED <<issued, answer, tickIn, due>>
  BY DEF IInv, Sweep
<1>2. TypeOK'
  BY <1>1, WithoutType DEF TypeOK
<1> QED
  BY <1>1, <1>2, FewerEntries DEF IInv

\* Time makes no entry and revives none.
LEMMA SoonerFact ==
    ASSUME TypeOK, NEW t \in Tokens
    PROVE  /\ Sooner(sessions[t]) \in (-Interval)..TTL \cup {None}
           /\ Sooner(sessions[t]) = None <=> sessions[t] = None
           /\ sessions[t] # None => Sooner(sessions[t]) <= sessions[t]
           /\ sessions[t] # None /\ sessions[t] > 0 => Sooner(sessions[t]) = sessions[t] - 1
           /\ sessions[t] # None /\ sessions[t] <= 0 => Sooner(sessions[t]) < 0
           /\ sessions[t] # None => Sooner(sessions[t]) >= sessions[t] - 1
<1>1. CASE sessions[t] = None
  BY <1>1, SessionAssumption DEF Sooner
<1>2. CASE sessions[t] # None
  <2>1. sessions[t] \in Int /\ -Interval <= sessions[t] /\ sessions[t] <= TTL
    BY <1>2, LeftType
  <2>2. CASE sessions[t] = -Interval
    <3>1. Sooner(sessions[t]) = sessions[t] /\ sessions[t] < 0
      BY <2>2, SessionAssumption DEF Sooner
    <3> QED  BY <1>2, <2>1, <3>1, SessionAssumption
  <2>3. CASE sessions[t] # -Interval
    <3>1. Sooner(sessions[t]) = sessions[t] - 1
      BY <1>2, <2>3 DEF Sooner
    <3>2. Sooner(sessions[t]) \in (-Interval)..TTL
      BY <2>1, <2>3, <3>1, SessionAssumption
    <3> QED  BY <1>2, <2>1, <3>1, <3>2, SessionAssumption
  <2> QED  BY <2>2, <2>3
<1> QED
  BY <1>1, <1>2

LEMMA TickStep == ASSUME IInv, Tick PROVE IInv'
<1>1. /\ TypeOK /\ sessions' = [t \in Tokens |-> Sooner(sessions[t])]
      /\ UNCHANGED <<issued, answer, late>>
  BY DEF IInv, Tick
<1>2. TypeOK'
  <2>1. sessions' \in [Tokens -> (-Interval)..TTL \cup {None}]
    BY <1>1, SoonerFact
  <2>2. tickIn' \in 1..Interval /\ due' \in BOOLEAN
    BY <1>1, SessionAssumption DEF Tick, TypeOK
  <2> QED  BY <1>1, <2>1, <2>2 DEF TypeOK
<1>3. EntriesIssued'
  BY <1>1, SoonerFact DEF IInv, EntriesIssued
<1>4. LateExpired'
  <2> SUFFICES ASSUME late' # None, NEW t \in late' PROVE t \in issued' /\ ~Good(t)'
    BY DEF LateExpired
  <2>1. t \in Tokens /\ t \in issued /\ ~Good(t)
    BY <1>1 DEF IInv, LateExpired, TypeOK
  <2>2. sessions'[t] = Sooner(sessions[t])
    BY <1>1, <2>1
  <2>3. CASE sessions[t] = None
    BY <1>1, <2>1, <2>2, <2>3, SoonerFact DEF Good
  <2>4. CASE sessions[t] # None
    <3>1. sessions[t] \in Int /\ sessions[t] < 0
      BY <1>1, <2>1, <2>4, LeftType DEF Good, Expired
    <3>2. Sooner(sessions[t]) < 0
      BY <1>1, <2>1, <2>4, <3>1, SoonerFact
    <3> QED  BY <1>1, <2>1, <2>2, <3>2 DEF Good, Expired
  <2> QED  BY <2>3, <2>4
<1> QED
  BY <1>2, <1>3, <1>4 DEF IInv

LEMMA RestartStep == ASSUME IInv, Restart PROVE IInv'
<1>1. Interval \in 1..Interval
  BY SessionAssumption
<1>2. TypeOK'
  BY <1>1 DEF IInv, Restart, TypeOK
<1> QED
  BY <1>2 DEF Restart, IInv, EntriesIssued, LateExpired

LEMMA NextPreserves == IInv /\ [Next]_vars => IInv'
<1> SUFFICES ASSUME IInv, [Next]_vars PROVE IInv'
  OBVIOUS
<1>1. CASE Ask
  BY <1>1, LoginStep, ValidateStep, LogoutStep DEF Ask
<1>2. CASE ReadClock \/ Sweep \/ Tick \/ Restart
  BY <1>2, ReadClockStep, SweepStep, TickStep, RestartStep
<1>3. CASE UNCHANGED vars
  BY <1>3 DEF vars, cleaner, IInv, TypeOK, EntriesIssued, LateExpired, Good
<1> QED
  BY <1>1, <1>2, <1>3 DEF Next

LEMMA InvariantHolds == Spec => []IInv
BY InitIInv, NextPreserves, PTL DEF Spec

\* Type correctness: an entry is never left with more than the lifetime.
THEOREM TypeCorrect == Spec => []TypeOK
<1>1. IInv => TypeOK
  BY DEF IInv
<1> QED
  BY <1>1, InvariantHolds, PTL

-----------------------------------------------------------------------------
(* What the cleanup leaves                                                 *)

\* What has expired since the last tick, or since the one the cleanup is at
\* work for: when no tick waits, every entry it has not marked expired after
\* the ticker last sent.
SinceTick ==
    ~due => \A t \in Present :
        (late # None => t \notin late) => -sessions[t] <= Interval - tickIn

\* An entry that is neither changed nor marked anew keeps its distance.
LEMMA FewerSince ==
    ASSUME TypeOK, SinceTick, NEW gone, sessions' = Without(gone),
           UNCHANGED <<tickIn, due>>,
           late' = late \/ (late' = None /\ late # None /\ late \subseteq gone)
    PROVE  SinceTick'
<1> SUFFICES ASSUME ~due', NEW t \in Tokens, sessions'[t] # None,
                    late' # None => t \notin late'
             PROVE  -(sessions'[t]) <= Interval - tickIn'
  BY DEF SinceTick, Present
<1>1. sessions'[t] = sessions[t] /\ sessions[t] # None /\ t \notin gone
  BY DEF Without
<1>2. late # None => t \notin late
  BY <1>1
<1>3. -(sessions[t]) <= Interval - tickIn
  BY <1>1, <1>2 DEF SinceTick, Present
<1> QED
  BY <1>1, <1>3

LEMMA LoginSince ==
    ASSUME IInv, SinceTick, NEW u \in Tokens, Login(u) PROVE SinceTick'
<1>1. /\ TypeOK /\ sessions' = [sessions EXCEPT ![u] = TTL]
      /\ UNCHANGED <<tickIn, due, late>>
  BY DEF IInv, Login, Lifetime, cleaner
<1> SUFFICES ASSUME ~due, NEW t \in Tokens, sessions'[t] # None,
                    late # None => t \notin late
             PROVE  -(sessions'[t]) <= Interval - tickIn
  BY <1>1 DEF SinceTick, Present
<1>2. CASE t = u
  <2>1. sessions'[t] = TTL
    BY <1>1, <1>2 DEF TypeOK
  <2> QED  BY <1>1, <2>1, SessionAssumption DEF TypeOK
<1>3. CASE t # u
  <2>1. sessions'[t] = sessions[t]
    BY <1>1, <1>3 DEF TypeOK
  <2> QED  BY <2>1 DEF SinceTick, Present
<1> QED
  BY <1>2, <1>3

LEMMA ReadClockSince ==
    ASSUME IInv, ReadClock PROVE SinceTick'
<1>1. /\ TypeOK /\ late' # None /\ UNCHANGED <<sessions, tickIn>>
      /\ late' = {t \in Present : Expired(sessions[t])}
  <2>1. late' \subseteq Tokens
    BY DEF ReadClock, Present
  <2>2. late' # None
    BY <2>1, SessionAssumption
  <2> QED  BY <2>2 DEF IInv, ReadClock
<1> SUFFICES ASSUME NEW t \in Present, t \notin late'
             PROVE  -(sessions[t]) <= Interval - tickIn
  BY <1>1 DEF SinceTick, Present
<1>2. sessions[t] \in Int /\ ~(sessions[t] < 0)
  BY <1>1, LeftType DEF Present, Expired
<1> QED
  BY <1>1, <1>2, SessionAssumption DEF TypeOK

LEMMA TickSince ==
    ASSUME IInv, SinceTick, Tick PROVE SinceTick'
<1>1. /\ TypeOK /\ sessions' = [t \in Tokens |-> Sooner(sessions[t])]
      /\ late' = late
  BY DEF IInv, Tick
<1> SUFFICES ASSUME ~due', NEW t \in Tokens, sessions'[t] # None,
                    late # None => t \notin late
             PROVE  -(sessions'[t]) <= Interval - tickIn'
  BY <1>1 DEF SinceTick, Present
<1>2. ~due /\ tickIn # 1 /\ tickIn' = tickIn - 1 /\ tickIn \in Int
  <2>1. ~due /\ ~(tickIn = 1)
    BY DEF Tick
  <2>2. tickIn' = tickIn - 1
    BY <2>1 DEF Tick
  <2>3. tickIn \in Int
    BY <1>1, SessionAssumption DEF TypeOK
  <2> QED  BY <2>1, <2>2, <2>3
<1>3. sessions'[t] = Sooner(sessions[t]) /\ sessions[t] # None
  BY <1>1, SoonerFact
<1>4. sessions[t] \in Int /\ sessions'[t] \in Int /\ sessions'[t] >= sessions[t] - 1
  BY <1>1, <1>3, LeftType, SoonerFact, SessionAssumption
<1>5. -(sessions[t]) <= Interval - tickIn
  BY <1>2, <1>3 DEF SinceTick, Present
<1> QED
  BY <1>2, <1>4, <1>5, SessionAssumption

LEMMA SinceStep == IInv /\ SinceTick /\ [Next]_vars => SinceTick'
<1> SUFFICES ASSUME IInv, SinceTick, [Next]_vars PROVE SinceTick'
  OBVIOUS
<1> USE DEF IInv
<1>1. ASSUME NEW t \in Tokens, ValidateSession(t) PROVE SinceTick'
  <2>1. CASE Good(t)
    BY <1>1, <2>1 DEF ValidateSession, cleaner, SinceTick, Present
  <2>2. CASE ~Good(t)
    BY <1>1, <2>2, FewerSince DEF ValidateSession, cleaner
  <2> QED  BY <2>1, <2>2
<1>2. ASSUME NEW t \in Tokens, Logout(t) PROVE SinceTick'
  BY <1>2, FewerSince DEF Logout, cleaner
<1>3. CASE Ask
  BY <1>1, <1>2, <1>3, LoginSince DEF Ask
<1>4. CASE Sweep
  <2>1. \A t \in Tokens : Without(Swept)[t] = Without(late)[t]
    BY <1>4 DEF Sweep, Without, Swept, Present
  <2>2. Without(Swept) = Without(late)
    BY <2>1 DEF Without
  <2> QED  BY <1>4, <2>2, FewerSince DEF Sweep
<1>5. CASE ReadClock
  BY <1>5, ReadClockSince
<1>6. CASE Tick
  BY <1>6, TickSince
<1>7. CASE Restart
  BY <1>7 DEF Restart, SinceTick, Present
<1>8. CASE UNCHANGED vars
  BY <1>8 DEF vars, cleaner, SinceTick, Present
<1> QED
  BY <1>3, <1>4, <1>5, <1>6, <1>7, <1>8 DEF Next

\* When the cleanup is through and no tick waits for it, nothing is left in
\* the map that expired longer ago than its interval.
THEOREM CleanupKeepsUp == Spec => []SessionsTidy
<1>1. Init => SinceTick
  BY DEF Init, SinceTick, Present
<1>2. TypeOK /\ SinceTick => SessionsTidy
  <2> SUFFICES ASSUME TypeOK, SinceTick, ~due, late = None, NEW t \in Present
               PROVE  sessions[t] > -Interval
    BY DEF SessionsTidy
  <2>1. sessions[t] \in Int /\ tickIn \in 1..Interval
    BY LeftType DEF Present, TypeOK
  <2>2. -(sessions[t]) <= Interval - tickIn
    BY DEF SinceTick
  <2> QED  BY <2>1, <2>2, SessionAssumption
<1> QED
  BY <1>1, <1>2, SinceStep, InvariantHolds, TypeCorrect, PTL DEF Spec

-----------------------------------------------------------------------------
(* Refinement                                                              *)

\* The promise at a token depends on its entry only.
LEMMA ForceAt ==
    \A t \in Tokens : InForce[t] = IF Good(t) THEN sessions[t] ELSE None
BY DEF InForce

\* Removing entries that are not good is not to be seen.
LEMMA Unseen ==
    ASSUME NEW gone, sessions' = Without(gone), \A t \in Tokens : t \in gone => ~Good(t)
    PROVE  InForce' = InForce
<1>1. ASSUME NEW t \in Tokens
      PROVE  (IF Good(t)' THEN sessions'[t] ELSE None) = (IF Good(t) THEN sessions[t] ELSE None)
  BY <1>1 DEF Without, Good
<1> QED
  BY <1>1 DEF InForce

LEMMA LoginRefines ==
    ASSUME IInv, NEW t \in Tokens, Login(t)
    PROVE  Authority!Login(t)
<1>1. /\ sessions \in [Tokens -> (-Interval)..TTL \cup {None}]
      /\ sessions' = [sessions EXCEPT ![t] = TTL]
  BY DEF IInv, TypeOK, Login, Lifetime
<1>2. Good(t)' /\ sessions'[t] = TTL
  BY <1>1, SessionAssumption DEF Good, Expired
<1>3. \A u \in Tokens \ {t} : sessions'[u] = sessions[u] /\ (Good(u)' <=> Good(u))
  BY <1>1 DEF Good
<1>4. InForce' = [InForce EXCEPT ![t] = TTL]
  BY <1>2, <1>3 DEF InForce
<1> QED
  BY <1>4 DEF Login, Authority!Login

LEMMA ValidateRefines ==
    ASSUME IInv, NEW t \in Tokens, ValidateSession(t)
    PROVE  Authority!Ask(t)
<1>1. Good(t) <=> InForce[t] # None
  BY SessionAssumption, ForceAt DEF Good
<1>2. answer' = <<t, InForce[t] # None>>
  BY <1>1 DEF ValidateSession, Good
<1>3. InForce' = InForce
  <2>1. CASE Good(t)
    BY <2>1 DEF ValidateSession, InForce, Good
  <2>2. CASE ~Good(t)
    BY <2>2, Unseen DEF ValidateSession
  <2> QED  BY <2>1, <2>2
<1> QED
  BY <1>2, <1>3 DEF ValidateSession, Authority!Ask

LEMMA LogoutRefines ==
    ASSUME NEW t \in Tokens, Logout(t)
    PROVE  Authority!Logout(t)
<1>1. \A u \in Tokens \ {t} : sessions'[u] = sessions[u] /\ (Good(u)' <=> Good(u))
  BY DEF Logout, Without, Good
<1>2. ~Good(t)'
  BY DEF Logout, Without, Good
<1>3. InForce' = [InForce EXCEPT ![t] = None]
  BY <1>1, <1>2 DEF InForce
<1> QED
  BY <1>3 DEF Logout, Authority!Logout

LEMMA TickRefines ==
    ASSUME IInv, Tick
    PROVE  Authority!Tick
<1>1. TypeOK /\ sessions' = [t \in Tokens |-> Sooner(sessions[t])]
  BY DEF IInv, Tick
<1>2. ASSUME NEW t \in Tokens
      PROVE  InForce'[t] = IF InForce[t] \in {None, 0} THEN None ELSE InForce[t] - 1
  <2>1. sessions'[t] = Sooner(sessions[t])
    BY <1>1
  <2>2. InForce'[t] = IF Good(t)' THEN sessions'[t] ELSE None
    BY DEF InForce
  <2>3. CASE ~Good(t)
    <3>1. InForce[t] = None
      BY <2>3, ForceAt
    <3>2. ~Good(t)'
      <4>1. CASE sessions[t] = None
        BY <1>1, <2>1, <4>1, SoonerFact DEF Good
      <4>2. CASE sessions[t] # None
        <5>1. sessions[t] \in Int /\ sessions[t] < 0
          BY <1>1, <2>3, <4>2, LeftType DEF Good, Expired
        <5>2. sessions'[t] < 0
          BY <1>1, <2>1, <4>2, <5>1, SoonerFact
        <5> QED  BY <5>2 DEF Good, Expired
      <4> QED  BY <4>1, <4>2
    <3> QED  BY <2>2, <3>1, <3>2
  <2>4. CASE Good(t)
    <3>1. sessions[t] \in Int /\ sessions[t] >= 0 /\ sessions[t] # None /\ InForce[t] = sessions[t]
      BY <1>1, <2>4, LeftType, ForceAt DEF Good, Expired
    <3>2. CASE sessions[t] = 0
      <4>1. sessions'[t] < 0
        BY <1>1, <2>1, <3>1, <3>2, SoonerFact
      <4>2. ~Good(t)'
        BY <4>1 DEF Good, Expired
      <4> QED  BY <2>2, <3>1, <3>2, <4>2
    <3>3. CASE sessions[t] > 0
      <4>1. sessions'[t] = sessions[t] - 1
        BY <1>1, <2>1, <3>1, <3>3, SoonerFact
      <4>2. sessions'[t] \in Int /\ sessions'[t] >= 0
        BY <3>1, <3>3, <4>1
      <4>3. Good(t)'
        BY <4>2, SessionAssumption DEF Good, Expired
      <4> QED  BY <2>2, <3>1, <3>3, <4>1, <4>3
    <3> QED  BY <3>1, <3>2, <3>3
  <2> QED  BY <2>3, <2>4
<1>3. InForce' = [t \in Tokens |-> IF InForce[t] \in {None, 0} THEN None ELSE InForce[t] - 1]
  BY <1>2 DEF InForce
<1> QED
  BY <1>3 DEF Tick, Authority!Tick

LEMMA RestartRefines == Restart => Authority!Restart
<1> SUFFICES ASSUME Restart PROVE Authority!Restart
  OBVIOUS
<1>1. \A t \in Tokens : ~Good(t)'
  BY DEF Restart, Good
<1> QED
  BY <1>1 DEF Restart, Authority!Restart, InForce

\* The cleanup and what it reads stutter.
LEMMA CleanupStutters ==
    ASSUME IInv, ReadClock \/ Sweep \/ UNCHANGED vars
    PROVE  UNCHANGED Authority!vars
<1>1. issued' = issued /\ answer' = answer
  BY DEF ReadClock, Sweep, vars
<1>2. InForce' = InForce
  <2>1. CASE Sweep
    BY <2>1, Unseen DEF Sweep, Swept, IInv, LateExpired
  <2>2. CASE sessions' = sessions
    BY <2>2 DEF InForce, Good
  <2> QED  BY <2>1, <2>2 DEF ReadClock, vars
<1> QED
  BY <1>1, <1>2 DEF Authority!vars

\* Every answer is the one SessionAuthority gives.
THEOREM ImplementsAuthority == Spec => AnswersAsPromised
<1>1. Init => Authority!Init
  BY DEF Init, Authority!Init, InForce, Good
<1>2. IInv /\ [Next]_vars => [Authority!Next]_(Authority!vars)
  <2> SUFFICES ASSUME IInv, [Next]_vars PROVE [Authority!Next]_(Authority!vars)
    OBVIOUS
  <2>1. CASE Ask
    BY <2>1, LoginRefines, ValidateRefines, LogoutRefines DEF Ask, Authority!Next
  <2>2. CASE Tick
    BY <2>2, TickRefines DEF Authority!Next
  <2>3. CASE Restart
    BY <2>3, RestartRefines DEF Authority!Next
  <2>4. CASE ReadClock \/ Sweep \/ UNCHANGED vars
    BY <2>4, CleanupStutters
  <2> QED  BY <2>1, <2>2, <2>3, <2>4 DEF Next
<1> QED
  BY <1>1, <1>2, InvariantHolds, PTL DEF Spec, AnswersAsPromised, Authority!Spec
=============================================================================
