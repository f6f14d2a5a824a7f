------------------------- MODULE RateLimiterProofs --------------------------
(***************************************************************************)
(* Proofs about RateLimiter for any periods, any width of time.Duration,   *)
(* any EntryTTL and cleanup interval and any number of requests at a time. *)
(***************************************************************************)
EXTENDS RateLimiter, TLAPS

\* An entry, or a cutoff that is about to be used, is no older than the last
\* firing of the ticker allows, unless a tick waits to be taken.
Tidy == ~ticked =>
    /\ sweeper = "select" =>
          \A id \in Identifiers :
             lastSeen[id] # 0 => lastSeen[id] >= nextTick - CleanupInterval - EntryTTL
    /\ sweeper = "lock" => cutoff >= nextTick - CleanupInterval - EntryTTL

\* The map knows when caller c last passed, or has forgotten it and that is
\* longer ago than EntryTTL.
Remembers(c) ==
    \/ lastSeen[c] = granted[c]
    \/ lastSeen[c] = 0 /\ now - granted[c] > EntryTTL

\* A sweep that waits for the mutex has only got more lenient.
CutoffOld == sweeper = "lock" => cutoff <= now - EntryTTL

IInv == TypeOK /\ Tidy /\ CutoffOld /\ \A c \in Callers : Remembers(c)

-----------------------------------------------------------------------------
(* Identifiers                                                             *)

\* The identifier the code builds is the caller the comment names.
LEMMA IdentifierIsCaller ==
    ASSUME TypeOK, NEW p \in Requests, verdict[p] = "waiting"
    PROVE  IdOf(p) = CallerOf(p) /\ CallerOf(p) \in Callers
<1>1. PICK e \in Endpoints, k \in ApiKeys \cup {None}, u \in Sessions \cup {None},
           i \in Addresses, period \in Periods :
        asked[p] = [endpoint |-> e, sender |-> [key |-> k, uuid |-> u, ip |-> i],
                    period |-> period]
  BY DEF TypeOK, Asked, Senders
<1>2. CASE k # None
  <2>1. IdOf(p) = <<e, "key", k>> /\ CallerOf(p) = <<e, "key", k>>
    BY <1>1, <1>2 DEF IdOf, Identifier, CallerOf, KindOf, Party
  <2> QED  BY <2>1, <1>2 DEF Callers, Identifiers, Kinds, Parties
<1>3. CASE k = None /\ u # None
  <2>1. IdOf(p) = <<e, "anon", u>> /\ CallerOf(p) = <<e, "anon", u>>
    BY <1>1, <1>3 DEF IdOf, Identifier, CallerOf, KindOf, Party
  <2> QED  BY <2>1, <1>3 DEF Callers, Identifiers, Kinds, Parties
<1>4. CASE k = None /\ u = None
  <2>1. IdOf(p) = <<e, "anon", i>> /\ CallerOf(p) = <<e, "anon", i>>
    BY <1>1, <1>4 DEF IdOf, Identifier, CallerOf, KindOf, Party
  <2> QED  BY <2>1 DEF Callers, Identifiers, Kinds, Parties
<1> QED  BY <1>2, <1>3, <1>4

-----------------------------------------------------------------------------
(* The inductive invariant                                                 *)

LEMMA InitEstablishes == Init => IInv
<1> SUFFICES ASSUME Init PROVE IInv
  OBVIOUS
<1>0. /\ now = 1 /\ 1 \in 1..MaxTime /\ 0 \in 0..now
      /\ nextTick \in now + 1 .. now + CleanupInterval
      /\ cutoff \in Int /\ cutoff <= now
  BY LimiterAssumption DEF Init
<1>1. TypeOK
  <2>1. lastSeen \in [Identifiers -> 0..now] /\ granted \in [Callers -> 0..now]
    BY <1>0 DEF Init, Callers
  <2>2. /\ asked \in [Requests -> Asked \cup {None}]
        /\ verdict \in [Requests -> {"none", "waiting", "pass", "limited"}]
        /\ \A p \in Requests : verdict[p] = "waiting" => asked[p] \in Asked
    BY DEF Init
  <2>3. settings \in [Endpoints -> [Kinds -> Periods]]
    BY LimiterAssumption DEF Init
  <2> QED  BY <1>0, <2>1, <2>2, <2>3 DEF Init, TypeOK
<1>2. Tidy /\ CutoffOld /\ \A c \in Callers : Remembers(c)
  BY DEF Init, Tidy, CutoffOld, Remembers, Callers
<1> QED  BY <1>1, <1>2 DEF IInv

\* A request that changes nothing but itself.
LEMMA AskingPreserves ==
    ASSUME IInv,
           settings' \in [Endpoints -> [Kinds -> Periods]],
           asked' \in [Requests -> Asked \cup {None}],
           verdict' \in [Requests -> {"none", "waiting", "pass", "limited"}],
           \A p \in Requests : verdict'[p] = "waiting" => asked'[p] \in Asked,
           UNCHANGED <<now, lastSeen, ticker, sweep, done, granted>>
    PROVE  IInv'
<1>1. TypeOK'
  BY DEF IInv, TypeOK, ticker, sweep
<1>2. Tidy' /\ CutoffOld' /\ \A c \in Callers : Remembers(c)'
  BY DEF IInv, Tidy, CutoffOld, Remembers, ticker, sweep
<1> QED  BY <1>1, <1>2 DEF IInv

LEMMA AnswerTyped ==
    ASSUME TypeOK, NEW p \in Requests,
           NEW v \in {"none", "pass", "limited"}, Answer(p, v)
    PROVE  /\ asked' \in [Requests -> Asked \cup {None}]
           /\ verdict' \in [Requests -> {"none", "waiting", "pass", "limited"}]
           /\ \A q \in Requests : verdict'[q] = "waiting" => asked'[q] \in Asked
BY DEF TypeOK, Answer

LEMMA ArrivePreserves ==
    ASSUME IInv, NEW p \in Requests, NEW e \in Endpoints, NEW sender \in Senders,
           Arrive(p, e, sender)
    PROVE  IInv'
<1>1. settings[e][KindOf(sender)] \in Periods
  BY DEF IInv, TypeOK, KindOf, Kinds
<1> DEFINE new == [endpoint |-> e, sender |-> sender,
                   period |-> settings[e][KindOf(sender)]]
<1>2. new \in Asked
  BY <1>1 DEF Asked
<1>3. asked' = [asked EXCEPT ![p] = new] /\ verdict' = [verdict EXCEPT ![p] = "waiting"]
  BY DEF Arrive
<1> HIDE DEF new
<1>4. /\ asked' \in [Requests -> Asked \cup {None}]
      /\ verdict' \in [Requests -> {"none", "waiting", "pass", "limited"}]
      /\ \A q \in Requests : verdict'[q] = "waiting" => asked'[q] \in Asked
  BY <1>2, <1>3 DEF IInv, TypeOK
<1>5. settings' \in [Endpoints -> [Kinds -> Periods]]
  BY DEF IInv, TypeOK, Arrive
<1> QED  BY <1>4, <1>5, AskingPreserves DEF Arrive

LEMMA ChangePreserves ==
    ASSUME IInv, NEW new \in Settings, ChangeSettings(new)
    PROVE  IInv'
<1>1. settings' \in [Endpoints -> [Kinds -> Periods]]
  BY LimiterAssumption DEF ChangeSettings
<1>2. /\ asked' \in [Requests -> Asked \cup {None}]
      /\ verdict' \in [Requests -> {"none", "waiting", "pass", "limited"}]
      /\ \A p \in Requests : verdict'[p] = "waiting" => asked'[p] \in Asked
  BY DEF IInv, TypeOK, ChangeSettings
<1> QED  BY <1>1, <1>2, AskingPreserves DEF ChangeSettings

\* A request that leaves the map alone.
LEMMA QuietAnswerPreserves ==
    ASSUME IInv, NEW p \in Requests, NEW v \in {"pass", "limited"}, Answer(p, v),
           UNCHANGED <<lastSeen, granted>>
    PROVE  IInv'
<1>1. /\ asked' \in [Requests -> Asked \cup {None}]
      /\ verdict' \in [Requests -> {"none", "waiting", "pass", "limited"}]
      /\ \A q \in Requests : verdict'[q] = "waiting" => asked'[q] \in Asked
  BY AnswerTyped DEF IInv
<1>2. settings' \in [Endpoints -> [Kinds -> Periods]]
  BY DEF IInv, TypeOK, Answer
<1> QED  BY <1>1, <1>2, AskingPreserves DEF Answer

LEMMA AdmitPreserves ==
    ASSUME IInv, NEW p \in Requests, Admit(p)
    PROVE  IInv'
<1>0. TypeOK /\ Tidy /\ CutoffOld /\ \A c \in Callers : Remembers(c)
  BY DEF IInv
<1>a. Answer(p, "pass") /\ verdict[p] = "waiting"
  BY DEF Admit, Answer
<1> DEFINE c == CallerOf(p)
<1>1. c \in Callers /\ IdOf(p) = c
  BY <1>0, <1>a, IdentifierIsCaller
<1> HIDE DEF c
<1>2. /\ lastSeen' = [lastSeen EXCEPT ![c] = now]
      /\ granted' = [granted EXCEPT ![c] = now]
  BY <1>1 DEF Admit, c
<1>3. UNCHANGED <<now, settings, ticker, sweep, done>>
  BY <1>a DEF Answer
<1>4. now \in 1..MaxTime /\ nextTick \in now + 1 .. now + CleanupInterval /\ MaxTime \in Nat
      /\ CleanupInterval \in Nat /\ EntryTTL \in Nat /\ cutoff \in Int
  BY <1>0, LimiterAssumption DEF TypeOK
<1>5. lastSeen' \in [Identifiers -> 0..now] /\ granted' \in [Callers -> 0..now]
  <2>1. now \in 0..now
    BY <1>4
  <2>2. lastSeen \in [Identifiers -> 0..now] /\ granted \in [Callers -> 0..now]
    BY <1>0 DEF TypeOK
  <2> QED  BY ONLY <1>2, <2>1, <2>2
<1>6. TypeOK'
  <2>1. /\ asked' \in [Requests -> Asked \cup {None}]
        /\ verdict' \in [Requests -> {"none", "waiting", "pass", "limited"}]
        /\ \A q \in Requests : verdict'[q] = "waiting" => asked'[q] \in Asked
    BY <1>0, <1>a, AnswerTyped
  <2> QED  BY <1>0, <1>3, <1>5, <2>1 DEF TypeOK, ticker, sweep
<1>7. Tidy'
  <2>1. now >= nextTick - CleanupInterval - EntryTTL
    BY <1>4
  <2> QED  BY <1>0, <1>1, <1>2, <1>3, <2>1 DEF Tidy, ticker, sweep, Callers, TypeOK
<1>8. CutoffOld'
  BY <1>0, <1>3 DEF CutoffOld, sweep
<1>9. \A d \in Callers : Remembers(d)'
  BY <1>0, <1>1, <1>2, <1>3 DEF Remembers, Callers, TypeOK
<1> QED  BY <1>6, <1>7, <1>8, <1>9 DEF IInv

\* Steps of the clock and the sweeper leave settings and requests alone.
LEMMA TickPreserves ==
    ASSUME IInv, Tick
    PROVE  IInv'
<1>0. TypeOK /\ Tidy /\ CutoffOld /\ \A c \in Callers : Remembers(c)
  BY DEF IInv
<1>1. /\ now \in 1..MaxTime /\ now' = now + 1 /\ now < MaxTime
      /\ nextTick \in now + 1 .. now + CleanupInterval /\ MaxTime \in Nat
      /\ CleanupInterval \in Nat \ {0} /\ EntryTTL \in Nat
      /\ cutoff \in Int /\ cutoff <= now
      /\ UNCHANGED <<settings, asked, verdict, lastSeen, sweep, done, granted>>
  BY <1>0, LimiterAssumption DEF TypeOK, Tick
<1>2. /\ nextTick' \in now' + 1 .. now' + CleanupInterval
      /\ ticked' \in BOOLEAN
      /\ ~ticked' => ~ticked /\ nextTick' = nextTick
  <2>1. CASE now' = nextTick
    <3>1. ticked' = TRUE /\ nextTick' = nextTick + CleanupInterval
      BY <2>1 DEF Tick, FollowingTick
    <3> QED  BY <1>1, <2>1, <3>1
  <2>2. CASE now' # nextTick
    <3>1. ticked' = ticked /\ nextTick' = nextTick
      BY <2>2 DEF Tick, ticker
    <3>2. ticked \in BOOLEAN
      BY <1>0 DEF TypeOK
    <3>3. nextTick' \in now' + 1 .. now' + CleanupInterval
      BY <1>1, <2>2, <3>1
    <3> QED  BY <3>1, <3>2, <3>3
  <2> QED  BY <2>1, <2>2
<1>3. lastSeen' \in [Identifiers -> 0..now'] /\ granted' \in [Callers -> 0..now']
  <2>1. 0..now \subseteq 0..now'
    BY <1>1
  <2> QED  BY <1>0, <1>1, <2>1 DEF TypeOK
<1>4. TypeOK'
  <2>1. now' \in 1..MaxTime /\ cutoff' \in Int /\ cutoff' <= now'
    BY <1>1 DEF sweep
  <2> QED  BY <1>0, <1>1, <1>2, <1>3, <2>1 DEF TypeOK, sweep
<1>5. Tidy'
  BY <1>0, <1>1, <1>2 DEF Tidy, sweep
<1>6. CutoffOld'
  BY <1>0, <1>1 DEF CutoffOld, sweep
<1>7. ASSUME NEW c \in Callers PROVE Remembers(c)'
  <2>1. granted[c] \in Nat
    BY <1>0, <1>1 DEF TypeOK
  <2> QED  BY <1>0, <1>1, <2>1 DEF Remembers
<1> QED  BY <1>4, <1>5, <1>6, <1>7 DEF IInv

LEMMA BeginSweepPreserves ==
    ASSUME IInv, BeginSweep
    PROVE  IInv'
<1>0. TypeOK /\ Tidy /\ CutoffOld /\ \A c \in Callers : Remembers(c)
  BY DEF IInv
<1>1. /\ now \in 1..MaxTime /\ nextTick \in now + 1 .. now + CleanupInterval
      /\ CleanupInterval \in Nat \ {0} /\ EntryTTL \in Nat /\ MaxTime \in Nat
      /\ cutoff' = now - EntryTTL /\ sweeper' = "lock" /\ ticked' = FALSE
      /\ UNCHANGED <<now, settings, asked, verdict, lastSeen, nextTick, done, granted>>
  BY <1>0, LimiterAssumption DEF TypeOK, BeginSweep, NewCutoff
<1>2. /\ cutoff' \in Int /\ cutoff' <= now
      /\ cutoff' >= nextTick - CleanupInterval - EntryTTL
  BY <1>1
<1>3. TypeOK'
  BY <1>0, <1>1, <1>2 DEF TypeOK
<1>4. Tidy' /\ CutoffOld'
  BY <1>1, <1>2 DEF Tidy, CutoffOld
<1>5. \A c \in Callers : Remembers(c)'
  BY <1>0, <1>1 DEF Remembers
<1> QED  BY <1>3, <1>4, <1>5 DEF IInv

LEMMA SweepPreserves ==
    ASSUME IInv, Sweep
    PROVE  IInv'
<1>0. TypeOK /\ Tidy /\ CutoffOld /\ \A c \in Callers : Remembers(c)
  BY DEF IInv
<1>1. /\ now \in 1..MaxTime /\ nextTick \in now + 1 .. now + CleanupInterval
      /\ CleanupInterval \in Nat \ {0} /\ EntryTTL \in Nat /\ MaxTime \in Nat
      /\ cutoff \in Int /\ cutoff <= now - EntryTTL
      /\ sweeper = "lock" /\ sweeper' = "select"
      /\ UNCHANGED <<now, settings, asked, verdict, ticker, cutoff, done, granted>>
  BY <1>0, LimiterAssumption DEF TypeOK, CutoffOld, Sweep
<1>2. /\ lastSeen \in [Identifiers -> 0..now] /\ granted \in [Identifiers -> 0..now]
      /\ lastSeen' = [id \in Identifiers |->
                         IF lastSeen[id] < cutoff THEN 0 ELSE lastSeen[id]]
  BY <1>0 DEF TypeOK, Sweep, Callers
<1>3. ASSUME NEW id \in Identifiers
      PROVE  /\ lastSeen'[id] \in 0..now
             /\ lastSeen'[id] # 0 => lastSeen'[id] >= cutoff
             /\ \/ lastSeen'[id] = lastSeen[id]
                \/ lastSeen'[id] = 0 /\ lastSeen[id] < cutoff
  <2>1. /\ lastSeen'[id] = IF lastSeen[id] < cutoff THEN 0 ELSE lastSeen[id]
        /\ lastSeen[id] \in 0..now
    BY <1>2
  <2> QED  BY <1>1, <2>1
<1>4. lastSeen' \in [Identifiers -> 0..now]
  BY <1>2, <1>3
<1>5. TypeOK'
  BY <1>0, <1>1, <1>4 DEF TypeOK, ticker
<1>6. Tidy'
  <2>1. ~ticked => cutoff >= nextTick - CleanupInterval - EntryTTL
    BY <1>0, <1>1 DEF Tidy
  <2>2. ASSUME ~ticked, NEW id \in Identifiers, lastSeen'[id] # 0
        PROVE  lastSeen'[id] >= nextTick - CleanupInterval - EntryTTL
    BY <1>1, <1>3, <2>1, <2>2
  <2> QED  BY <1>1, <2>2 DEF Tidy, ticker
<1>7. CutoffOld'
  BY <1>1 DEF CutoffOld
<1>8. ASSUME NEW c \in Callers PROVE Remembers(c)'
  <2>1. c \in Identifiers
    BY DEF Callers
  <2>2. granted[c] \in 0..now /\ lastSeen[c] \in 0..now /\ Remembers(c)
    BY <1>0, <1>2, <2>1
  <2> QED  BY <1>1, <1>3, <2>1, <2>2 DEF Remembers
<1> QED  BY <1>5, <1>6, <1>7, <1>8 DEF IInv

LEMMA StopPreserves ==
    ASSUME IInv, Stop \/ ExitSweeper
    PROVE  IInv'
<1>1. TypeOK'
  BY DEF IInv, TypeOK, Stop, ExitSweeper, ticker, sweep
<1>2. Tidy' /\ CutoffOld' /\ \A c \in Callers : Remembers(c)'
  BY DEF IInv, Tidy, CutoffOld, Remembers, Stop, ExitSweeper, ticker, sweep
<1> QED  BY <1>1, <1>2 DEF IInv

LEMMA NextPreserves == IInv /\ [Next]_vars => IInv'
<1> SUFFICES ASSUME IInv, [Next]_vars PROVE IInv'
  OBVIOUS
<1>1. ASSUME NEW p \in Requests, NEW e \in Endpoints, NEW sender \in Senders,
             Arrive(p, e, sender)
      PROVE  IInv'
  BY <1>1, ArrivePreserves
<1>2. ASSUME NEW p \in Requests, AllowFree(p) PROVE IInv'
  BY <1>2, QuietAnswerPreserves DEF AllowFree
<1>3. ASSUME NEW p \in Requests, Refuse(p) PROVE IInv'
  BY <1>3, QuietAnswerPreserves DEF Refuse
<1>4. ASSUME NEW p \in Requests, Admit(p) PROVE IInv'
  BY <1>4, AdmitPreserves
<1>5. ASSUME NEW new \in Settings, ChangeSettings(new)
      PROVE  IInv'
  BY <1>5, ChangePreserves
<1>6. CASE UNCHANGED vars
  <2>1. TypeOK'
    BY <1>6 DEF IInv, TypeOK, vars, ticker, sweep
  <2>2. Tidy' /\ CutoffOld' /\ \A c \in Callers : Remembers(c)'
    BY <1>6 DEF IInv, Tidy, CutoffOld, Remembers, vars, ticker, sweep
  <2> QED  BY <2>1, <2>2 DEF IInv
<1> QED
  BY <1>1, <1>2, <1>3, <1>4, <1>5, <1>6, TickPreserves, BeginSweepPreserves,
     SweepPreserves, StopPreserves DEF Next

\* IInv holds in every reachable state.
THEOREM LimiterInvariant == Spec => []IInv
BY InitEstablishes, NextPreserves, PTL DEF Spec

\* No entry, cutoff or grant ever lies in the future, and the ticker is never
\* overdue, for any periods, intervals and concurrency.
THEOREM LimiterTypeCorrect == Spec => []TypeOK
<1>1. IInv => TypeOK
  BY DEF IInv
<1> QED  BY <1>1, LimiterInvariant, PTL

\* The map is swept in time: with no tick left to take, every entry is younger
\* than EntryTTL + CleanupInterval.
THEOREM MapStaysTidy == Spec => []MapTidy
<1>1. IInv => MapTidy
  <2> SUFFICES ASSUME IInv, sweeper = "select", ~ticked,
                      NEW id \in Identifiers, lastSeen[id] # 0
               PROVE  now - lastSeen[id] < EntryTTL + CleanupInterval
    BY DEF MapTidy
  <2>1. lastSeen[id] >= nextTick - CleanupInterval - EntryTTL
    BY DEF IInv, Tidy
  <2>2. /\ now \in 1..MaxTime /\ nextTick \in now + 1 .. now + CleanupInterval
        /\ lastSeen[id] \in 0..now
        /\ CleanupInterval \in Nat /\ EntryTTL \in Nat /\ MaxTime \in Nat
    BY LimiterAssumption DEF IInv, TypeOK
  <2> QED  BY <2>1, <2>2
<1> QED  BY <1>1, LimiterInvariant, PTL

-----------------------------------------------------------------------------
(* Periods that fit time.Duration                                          *)

\* The product does not wrap around when it fits.
LEMMA DurationFits ==
    ASSUME NEW period \in Periods, Ticks(period) \in -Half .. Half - 1
    PROVE  Ticks(period) \in Int /\ Duration(period) = Ticks(period)
<1> DEFINE x == Ticks(period)
<1>1. Half \in Nat \ {0} /\ x \in -Half .. Half - 1
  BY LimiterAssumption
<1>2. Duration(period) = ((x + Half) % (2 * Half)) - Half
  BY DEF Duration, Ticks
<1> HIDE DEF x
<1>3. x \in Int /\ x + Half \in 0 .. 2 * Half - 1 /\ 2 * Half \in Nat \ {0}
  BY <1>1
<1>4. (x + Half) % (2 * Half) = x + Half
  BY <1>3
<1> QED  BY <1>1, <1>2, <1>3, <1>4 DEF x

\* What the map says of a caller, for any period that fits.
LEMMA MapRemembers ==
    ASSUME IInv, NEW c \in Callers, NEW period \in Periods,
           Ticks(period) \in -Half .. Half - 1
    PROVE  /\ TooSoon(lastSeen[c], period) =>
                 granted[c] # 0 /\ now - granted[c] < Ticks(period)
           /\ ~TooSoon(lastSeen[c], period) =>
                 \/ granted[c] = 0 \/ ~(now - granted[c] < Ticks(period))
                 \/ ~(now - granted[c] < EntryTTL + 1)
<1>1. /\ lastSeen[c] \in 0..now /\ granted[c] \in 0..now /\ now \in 1..MaxTime
      /\ MaxTime \in Nat /\ EntryTTL \in Nat
      /\ Ticks(period) \in Int /\ Duration(period) = Ticks(period)
  BY LimiterAssumption, DurationFits DEF IInv, TypeOK, Callers
<1>2. Remembers(c)
  BY DEF IInv
<1> QED  BY <1>1, <1>2 DEF Remembers, TooSoon

\* Whatever period of time.Duration's range a request asks for, longer than
\* EntryTTL too, and whatever others ask for: nobody is refused who has not passed
\* within the period, and nobody passes twice within both the period and EntryTTL.
THEOREM LimitHoldsForTTL == Spec => PeriodUpToTTL
<1> DEFINE Fits(p) ==
      /\ Answered(p, "limited") => PassedWithin(p, Ticks(asked[p].period))
      /\ Answered(p, "pass") => \/ ~PassedWithin(p, Ticks(asked[p].period))
                                \/ ~PassedWithin(p, EntryTTL + 1)
<1>1. ASSUME IInv, NEW p \in Requests, Refuse(p) PROVE Fits(p)
  <2>1. TypeOK /\ verdict[p] = "waiting" /\ verdict'[p] = "limited"
    BY <1>1 DEF IInv, TypeOK, Refuse, Answer
  <2>2. CallerOf(p) \in Callers /\ IdOf(p) = CallerOf(p) /\ asked[p].period \in Periods
    BY <2>1, IdentifierIsCaller DEF TypeOK, Asked
  <2>3. Answered(p, "limited") => PassedWithin(p, Ticks(asked[p].period))
    BY <1>1, <2>2, MapRemembers DEF Refuse, PassedWithin, Answered
  <2> QED  BY <2>1, <2>3 DEF Answered
<1>2. ASSUME IInv, NEW p \in Requests, Admit(p) PROVE Fits(p)
  <2>1. TypeOK /\ verdict[p] = "waiting" /\ verdict'[p] = "pass"
    BY <1>2 DEF IInv, TypeOK, Admit, Answer
  <2>2. CallerOf(p) \in Callers /\ IdOf(p) = CallerOf(p) /\ asked[p].period \in Periods
    BY <2>1, IdentifierIsCaller DEF TypeOK, Asked
  <2>3. Answered(p, "pass") => \/ ~PassedWithin(p, Ticks(asked[p].period))
                               \/ ~PassedWithin(p, EntryTTL + 1)
    BY <1>2, <2>2, MapRemembers DEF Admit, PassedWithin, Answered
  <2> QED  BY <2>1, <2>3 DEF Answered
<1>3. ASSUME IInv, [Next]_vars, NEW p \in Requests PROVE Fits(p)
  <2>1. SUFFICES ASSUME verdict[p] = "waiting", asked[p].period # 0,
                        verdict'[p] \in {"limited", "pass"}
                 PROVE  Refuse(p) \/ Admit(p)
    BY <1>1, <1>2, <1>3 DEF Answered
  <2>2. verdict'[p] # verdict[p]
    BY <2>1
  <2>3. verdict \in [Requests -> {"none", "waiting", "pass", "limited"}]
    BY <1>3 DEF IInv, TypeOK
  <2>4. CASE \/ Tick \/ BeginSweep \/ Sweep \/ Stop \/ ExitSweeper
             \/ \E new \in Settings : ChangeSettings(new)
             \/ UNCHANGED vars
    BY <2>2, <2>4 DEF Tick, BeginSweep, Sweep, Stop, ExitSweeper, ChangeSettings, vars
  <2>5. ASSUME NEW q \in Requests, NEW e \in Endpoints, NEW sender \in Senders,
               Arrive(q, e, sender)
        PROVE  FALSE
    BY <2>1, <2>3, <2>5 DEF Arrive
  <2>6. ASSUME NEW q \in Requests, AllowFree(q) \/ Refuse(q) \/ Admit(q)
        PROVE  Refuse(p) \/ Admit(p)
    <3>1. q = p
      BY <2>2, <2>3, <2>6 DEF AllowFree, Refuse, Admit, Answer
    <3> QED  BY <2>1, <2>6, <3>1 DEF AllowFree
  <2> QED  BY <1>3, <2>4, <2>5, <2>6 DEF Next
<1>4. IInv /\ [Next]_vars => [\A p \in Requests : Fits(p)]_vars
  BY <1>3
<1> QED
  BY <1>4, LimiterInvariant, PTL DEF Spec, PeriodUpToTTL

-----------------------------------------------------------------------------
(* RateLimiter implements MinimumPeriod                                    *)

\* The request MinimumPeriod sees for p.
Seen(p) == IF asked[p] = None THEN None
           ELSE [caller |-> CallerOf(p), period |-> Ticks(asked[p].period),
                 kept |-> Kept(asked[p].period)]

\* A waiting request was read in full.
LEMMA WaitingSeen ==
    ASSUME TypeOK, NEW p \in Requests, verdict[p] = "waiting"
    PROVE  /\ asked[p] # None
           /\ [q \in Requests |-> Seen(q)][p].caller = CallerOf(p)
           /\ [q \in Requests |-> Seen(q)][p].period = Ticks(asked[p].period)
           /\ [q \in Requests |-> Seen(q)][p].kept = Kept(asked[p].period)
<1>1. asked[p] \in Asked
  BY DEF TypeOK
<1>2. asked[p] # None
  BY <1>1, NoneAssumption
<1> QED  BY <1>2 DEF Seen

\* For a period that is kept, the map and the abstract limiter agree on who is due.
LEMMA MapDecides ==
    ASSUME IInv, NEW c \in Callers, NEW period \in Periods, Kept(period)
    PROVE  TooSoon(lastSeen[c], period) <=> ~Limiter!Due(c, Ticks(period))
<1>0. EntryTTL \in Nat /\ Half \in Nat /\ EntryTTL < Half /\ Ticks(period) \in -Half .. EntryTTL
  BY LimiterAssumption DEF Kept
<1>1. Ticks(period) \in -Half .. Half - 1 /\ Ticks(period) <= EntryTTL
  BY <1>0
<1>2. /\ lastSeen[c] \in 0..now /\ granted[c] \in 0..now /\ now \in 1..MaxTime
      /\ MaxTime \in Nat /\ EntryTTL \in Nat
      /\ Ticks(period) \in Int /\ Duration(period) = Ticks(period)
  BY <1>1, LimiterAssumption, DurationFits DEF IInv, TypeOK, Callers
<1>3. Remembers(c)
  BY DEF IInv
<1> QED  BY <1>1, <1>2, <1>3 DEF Remembers, TooSoon, Limiter!Due

\* No period but 0 is free.
LEMMA FreeTicks ==
    ASSUME NEW period \in Periods
    PROVE  Ticks(period) = 0 <=> period = 0
<1>1. period \in Int /\ Factor \in Nat \ {0}
  BY LimiterAssumption
<1> QED  BY <1>1 DEF Ticks

LEMMA AnswerImplements ==
    ASSUME NEW p \in Requests, NEW v, Answer(p, v)
    PROVE  Limiter!Answer(p, v)
<1>1. ASSUME NEW q \in Requests \ {p} PROVE Seen(q)' = Seen(q)
  BY <1>1 DEF Answer, Seen, CallerOf
<1>2. \A q \in Requests \ {p} :
        [r \in Requests |-> Seen(r)]'[q] = [r \in Requests |-> Seen(r)][q]
  BY <1>1
<1> QED  BY <1>2 DEF Answer, Limiter!Answer, Seen

LEMMA ArriveImplements ==
    ASSUME NEW p \in Requests, NEW e \in Endpoints, NEW sender \in Senders,
           Arrive(p, e, sender)
    PROVE  Limiter!Ask(p)
<1>1. ASSUME NEW q \in Requests \ {p} PROVE Seen(q)' = Seen(q)
  BY <1>1 DEF Arrive, Seen, CallerOf
<1>2. \A q \in Requests \ {p} :
        [r \in Requests |-> Seen(r)]'[q] = [r \in Requests |-> Seen(r)][q]
  BY <1>1
<1> QED  BY <1>2 DEF Arrive, Limiter!Ask, Seen

\* A step that neither asks nor answers changes nothing the abstract limiter sees
\* except its clock.
LEMMA OthersImplement ==
    ASSUME IInv, \/ Tick \/ BeginSweep \/ Sweep \/ Stop \/ ExitSweeper
                 \/ \E new \in Settings : ChangeSettings(new)
                 \/ UNCHANGED vars
    PROVE  Limiter!Clock \/ UNCHANGED Limiter!vars
<1>1. UNCHANGED <<granted, asked, verdict>>
  BY DEF Tick, BeginSweep, Sweep, Stop, ExitSweeper, ChangeSettings, vars
<1>2. [r \in Requests |-> Seen(r)]' = [r \in Requests |-> Seen(r)]
  BY <1>1 DEF Seen, CallerOf
<1>3. now' > now \/ now' = now
  <2>1. now \in Int
    BY DEF IInv, TypeOK
  <2> QED
    BY <2>1 DEF Tick, BeginSweep, Sweep, Stop, ExitSweeper, ChangeSettings, vars
<1> QED  BY <1>1, <1>2, <1>3 DEF Limiter!Clock, Limiter!vars, Seen

LEMMA AllowImplements ==
    ASSUME IInv, NEW p \in Requests, AllowFree(p) \/ Refuse(p) \/ Admit(p)
    PROVE  Limiter!PassFree(p) \/ Limiter!Pass(p) \/ Limiter!Limit(p)
<1> DEFINE c == CallerOf(p)
           period == asked[p].period
           seen == [q \in Requests |-> Seen(q)]
<1>1. verdict[p] = "waiting"
  BY DEF AllowFree, Refuse, Admit, Answer
<1>2. TypeOK
  BY DEF IInv
<1>3. /\ seen[p].caller = c /\ seen[p].period = Ticks(period)
      /\ seen[p].kept = Kept(period)
  BY <1>1, <1>2, WaitingSeen
<1>4. c \in Callers /\ IdOf(p) = c
  BY <1>1, <1>2, IdentifierIsCaller
<1>5. period \in Periods
  BY <1>1, <1>2 DEF TypeOK, Asked
<1>6. Kept(period) => (TooSoon(lastSeen[c], period) <=> ~Limiter!Due(c, Ticks(period)))
  BY <1>4, <1>5, MapDecides
<1>7. Ticks(period) = 0 <=> period = 0
  BY <1>5, FreeTicks
<1>8. CASE AllowFree(p)
  <2>1. Limiter!Answer(p, "pass") /\ period = 0 /\ UNCHANGED granted
    BY <1>8, AnswerImplements DEF AllowFree
  <2> QED  BY <2>1, <1>3, <1>7 DEF Limiter!PassFree, Seen
<1>9. CASE Refuse(p)
  <2>1. Limiter!Answer(p, "limited") /\ period # 0 /\ UNCHANGED granted
    BY <1>9, AnswerImplements DEF Refuse
  <2>2. Kept(period) => ~Limiter!Due(c, Ticks(period))
    BY <1>4, <1>6, <1>9 DEF Refuse
  <2> HIDE DEF c, period
  <2> QED  BY <2>1, <2>2, <1>3, <1>7 DEF Limiter!Limit, Seen
<1>10. CASE Admit(p)
  <2>1. Limiter!Answer(p, "pass") /\ period # 0
        /\ granted' = [granted EXCEPT ![c] = now]
    BY <1>10, AnswerImplements DEF Admit
  <2>2. Kept(period) => Limiter!Due(c, Ticks(period))
    BY <1>4, <1>6, <1>10 DEF Admit
  <2> HIDE DEF c, period
  <2> QED  BY <2>1, <2>2, <1>3, <1>7 DEF Limiter!Pass, Seen
<1> QED  BY <1>8, <1>9, <1>10

\* A request whose period fits time.Duration and is not longer than EntryTTL cannot
\* tell that the map is ever swept: the limiter answers it like one that remembers
\* every caller for ever, whatever periods other requests ask for.
THEOREM SweepingIsUnobservable == Spec => ForgettingUnobservable
<1>1. Init => Limiter!Init
  BY DEF Init, Limiter!Init
<1>2. IInv /\ [Next]_vars => [Limiter!Next]_(Limiter!vars)
  <2> SUFFICES ASSUME IInv, [Next]_vars
               PROVE  Limiter!Next \/ UNCHANGED Limiter!vars
    OBVIOUS
  <2>1. ASSUME NEW p \in Requests, NEW e \in Endpoints, NEW sender \in Senders,
               Arrive(p, e, sender)
        PROVE  Limiter!Next
    BY <2>1, ArriveImplements DEF Limiter!Next
  <2>2. ASSUME NEW p \in Requests, AllowFree(p) \/ Refuse(p) \/ Admit(p)
        PROVE  Limiter!Next
    BY <2>2, AllowImplements DEF Limiter!Next
  <2>3. CASE \/ Tick \/ BeginSweep \/ Sweep \/ Stop \/ ExitSweeper
             \/ \E new \in Settings : ChangeSettings(new)
             \/ UNCHANGED vars
    BY <2>3, OthersImplement DEF Limiter!Next
  <2> QED  BY <2>1, <2>2, <2>3 DEF Next
<1> QED  BY <1>1, <1>2, LimiterInvariant, PTL DEF Spec, ForgettingUnobservable, Limiter!Spec
=============================================================================
