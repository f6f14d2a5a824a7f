---------------------------- MODULE RateLimiter -----------------------------
(***************************************************************************)
(* The rate limiter (ratelimit/ratelimit.go) behind its middleware         *)
(* (api/middleware/ratelimit.go): requests to /locate and /update read the *)
(* period of their endpoint from the settings, which an administrator may  *)
(* change at any moment, and only then call Allow; a goroutine sweeps old  *)
(* entries from the map whenever its ticker fires.  One process lifetime:  *)
(* the map is lost with the process.                                       *)
(***************************************************************************)
EXTENDS Integers

CONSTANTS Endpoints,        \* one limiter prefix each: "locate", "update"
          ApiKeys,          \* X-Api-Key headers
          Sessions,         \* sessionUUIDs, as strings
          Addresses,        \* client addresses, as strings
          Periods,          \* what the *_min_period_* settings may hold, in milliseconds
          Settings,         \* the combinations of them an administrator sets
          Requests,         \* concurrent requests
          Factor,           \* units of time.Duration per millisecond; one is a tick
          Half,             \* time.Duration counts from -Half to Half - 1
          EntryTTL,         \* entryTTL in ticks
          CleanupInterval,  \* cleanupInterval in ticks
          MaxTime,          \* bound: the clock stops here
          None              \* an absent header or field

Kinds == {"key", "anon"}

ASSUME LimiterAssumption ==
    /\ Periods \subseteq Int
    /\ Settings \subseteq [Endpoints -> [Kinds -> Periods]]
    /\ Factor \in Nat \ {0} /\ Half \in Nat \ {0}
    /\ EntryTTL \in Nat
    /\ EntryTTL < Half
    /\ CleanupInterval \in Nat \ {0}
    /\ MaxTime \in Nat \ {0}
    /\ None \notin ApiKeys \cup Sessions \cup Addresses

\* What a request tells about its sender; everybody has an address.
Senders == [key : ApiKeys \cup {None}, uuid : Sessions \cup {None}, ip : Addresses]

\* What the middleware knows of a request when it calls Allow.
Asked == [endpoint : Endpoints, sender : Senders, period : Periods]

ASSUME NoneAssumption == None \notin Asked

Parties     == ApiKeys \cup Sessions \cup Addresses
Identifiers == Endpoints \X Kinds \X Parties
Callers     == Identifiers

VARIABLES
    now,        \* the clock, from 1: 0 is the zero time
    settings,   \* settings[e][kind]: the *_min_period_* settings in force
    asked,      \* asked[p]: endpoint, sender and the period p read
    verdict,    \* verdict[p]: "none", "waiting" (for Allow), "pass", "limited"
    lastSeen,   \* lastSeen[id]: the map; 0 where it has no entry
    nextTick,   \* when the ticker fires next
    ticked,     \* a tick is in the ticker's channel, which holds one
    sweeper,    \* cleanup: "select", "lock" (waiting for the mutex) or "exited"
    cutoff,     \* the sweep's cutoff
    done,       \* r.done is closed
    granted     \* history: when a caller last passed under a limit, 0 for never

ticker == <<nextTick, ticked>>
sweep  == <<sweeper, cutoff>>
vars   == <<now, settings, asked, verdict, lastSeen, ticker, sweep, done, granted>>

Init == /\ now = 1
        /\ settings \in Settings
        /\ asked = [p \in Requests |-> None]
        /\ verdict = [p \in Requests |-> "none"]
        /\ lastSeen = [id \in Identifiers |-> 0]
        /\ nextTick = 1 + CleanupInterval
        /\ ticked = FALSE
        /\ sweeper = "select"
        /\ cutoff = 0
        /\ done = FALSE
        /\ granted = [c \in Callers |-> 0]

-----------------------------------------------------------------------------
(* The middleware                                                          *)

KindOf(sender) == IF sender.key # None THEN "key" ELSE "anon"

\* prefix + ":key:" + key, or prefix + ":anon:" + the sessionUUID, or the address.
Identifier(e, sender) ==
    IF sender.key # None THEN <<e, "key", sender.key>>
    ELSE <<e, "anon", IF sender.uuid # None THEN sender.uuid ELSE sender.ip>>

\* cfgFn() reads the settings in force; Allow comes later.
Arrive(p, e, sender) ==
    /\ verdict[p] # "waiting"
    /\ verdict' = [verdict EXCEPT ![p] = "waiting"]
    /\ asked' = [asked EXCEPT ![p] = [endpoint |-> e, sender |-> sender,
                                      period |-> settings[e][KindOf(sender)]]]
    /\ UNCHANGED <<now, settings, lastSeen, ticker, sweep, done, granted>>

\* UpdateSettings, as far as the periods go: several may change at once.
ChangeSettings(new) ==
    /\ settings' = new
    /\ UNCHANGED <<now, asked, verdict, lastSeen, ticker, sweep, done, granted>>

-----------------------------------------------------------------------------
(* Allow                                                                   *)

IdOf(p) == Identifier(asked[p].endpoint, asked[p].sender)

\* The comment on RateLimit: limited by the key, else the sessionUUID, else
\* the address, separately for each endpoint.
Party(sender) == CASE sender.key # None -> sender.key
                   [] sender.key = None /\ sender.uuid # None -> sender.uuid
                   [] sender.key = None /\ sender.uuid = None -> sender.ip

CallerOf(p) ==
    <<asked[p].endpoint, KindOf(asked[p].sender), Party(asked[p].sender)>>

\* p is answered, and what it read is gone with it.
Answer(p, v) == /\ verdict[p] = "waiting"
                /\ verdict' = [verdict EXCEPT ![p] = v]
                /\ asked' = [asked EXCEPT ![p] = None]
                /\ UNCHANGED <<now, settings, ticker, sweep, done>>

\* minPeriodMs == 0: let through without a trace in the map.
AllowFree(p) == /\ Answer(p, "pass")
                /\ asked[p].period = 0
                /\ UNCHANGED <<lastSeen, granted>>

\* time.Duration(minPeriodMs) * time.Millisecond: the product wraps around.
Duration(period) == ((period * Factor + Half) % (2 * Half)) - Half

\* Mutation variant: a request exactly one period later is refused.
NotAfter(last, period) == last # 0 /\ now - last <= Duration(period)

\* last, ok := lastSeen[identifier]; ok && now.Sub(last) < minPeriod.  A period
\* that wraps around to a negative duration lets everybody pass.
TooSoon(last, period) == last # 0 /\ now - last < Duration(period)

Refuse(p) == /\ Answer(p, "limited")
             /\ asked[p].period # 0
             /\ TooSoon(lastSeen[IdOf(p)], asked[p].period)
             /\ UNCHANGED <<lastSeen, granted>>

Admit(p) == /\ Answer(p, "pass")
            /\ asked[p].period # 0
            /\ ~TooSoon(lastSeen[IdOf(p)], asked[p].period)
            /\ lastSeen' = [lastSeen EXCEPT ![IdOf(p)] = now]
            /\ granted' = [granted EXCEPT ![CallerOf(p)] = now]

-----------------------------------------------------------------------------
(* The clock and the cleanup goroutine                                     *)

\* Mutation variant: the ticker fires once.
NoNextTick == nextTick

FollowingTick == nextTick + CleanupInterval

\* A tick that finds one in the channel already is dropped.
Tick == /\ now < MaxTime
        /\ now' = now + 1
        /\ \/ /\ now' = nextTick
              /\ ticked' = TRUE
              /\ nextTick' = FollowingTick
           \/ /\ now' # nextTick
              /\ UNCHANGED ticker
        /\ UNCHANGED <<settings, asked, verdict, lastSeen, sweep, done, granted>>

\* Mutation variants: entries are kept twice as long; one tick too short.
LateCutoff == now - 2 * EntryTTL
EarlyCutoff == now - EntryTTL + 1

\* time.Now().Add(-entryTTL), read before the mutex is asked for.
NewCutoff == now - EntryTTL

BeginSweep ==
    /\ sweeper = "select"
    /\ ticked
    /\ ticked' = FALSE
    /\ cutoff' = NewCutoff
    /\ sweeper' = "lock"
    /\ UNCHANGED <<now, settings, asked, verdict, lastSeen, nextTick, done, granted>>

\* The loop over the map, under the mutex.
Sweep ==
    /\ sweeper = "lock"
    /\ lastSeen' = [id \in Identifiers |->
                       IF lastSeen[id] < cutoff THEN 0 ELSE lastSeen[id]]
    /\ sweeper' = "select"
    /\ UNCHANGED <<now, settings, asked, verdict, ticker, cutoff, done, granted>>

\* Stop, called once when main shuts down.
Stop == /\ ~done
        /\ done' = TRUE
        /\ UNCHANGED <<now, settings, asked, verdict, lastSeen, ticker, sweep, granted>>

\* <-r.done; with a tick in the channel as well, select takes either.
ExitSweeper ==
    /\ sweeper = "select"
    /\ done
    /\ sweeper' = "exited"
    /\ UNCHANGED <<now, settings, asked, verdict, lastSeen, ticker, cutoff, done, granted>>

Next == \/ \E p \in Requests :
              \/ \E e \in Endpoints, sender \in Senders : Arrive(p, e, sender)
              \/ AllowFree(p) \/ Refuse(p) \/ Admit(p)
        \/ \E new \in Settings : ChangeSettings(new)
        \/ Tick \/ BeginSweep \/ Sweep \/ Stop \/ ExitSweeper

Spec == Init /\ [][Next]_vars

-----------------------------------------------------------------------------
(* Properties                                                              *)

\* No entry or cutoff lies in the future, and the ticker is never overdue.
TypeOK ==
    /\ now \in 1..MaxTime
    /\ settings \in [Endpoints -> [Kinds -> Periods]]
    /\ asked \in [Requests -> Asked \cup {None}]
    /\ verdict \in [Requests -> {"none", "waiting", "pass", "limited"}]
    /\ \A p \in Requests : verdict[p] = "waiting" => asked[p] \in Asked
    /\ lastSeen \in [Identifiers -> 0..now]
    /\ nextTick \in now + 1 .. now + CleanupInterval
    /\ ticked \in BOOLEAN
    /\ sweeper \in {"select", "lock", "exited"}
    /\ cutoff \in Int
    /\ cutoff <= now
    /\ done \in BOOLEAN
    /\ granted \in [Callers -> 0..now]

\* No entry stays for ever: whenever the sweeper is back at its select with no
\* tick to take, the map holds nothing from before the last EntryTTL +
\* CleanupInterval ticks, dropped ticks and slow sweeps included.  How many
\* entries it gets in that time depends on the callers alone.
MapTidy ==
    sweeper = "select" /\ ~ticked =>
        \A id \in Identifiers :
            lastSeen[id] # 0 => now - lastSeen[id] < EntryTTL + CleanupInterval

\* The period that was asked for, in ticks.
Ticks(period) == period * Factor

\* p is under a limit time.Duration can hold, and this step answers it.
Answered(p, v) ==
    /\ verdict[p] = "waiting" /\ verdict'[p] = v
    /\ asked[p].period # 0
    /\ Ticks(asked[p].period) \in -Half .. Half - 1

\* The caller of p last passed less than d ago.
PassedWithin(p, d) ==
    granted[CallerOf(p)] # 0 /\ now - granted[CallerOf(p)] < d

\* What is left of the limit when a period is longer than EntryTTL: nobody is
\* refused without having passed within the period, and nobody passes twice
\* within both the period and EntryTTL, wherever a sweep with an old cutoff falls
\* between the two and whatever periods others ask for.  Nothing is said of a
\* request whose period overflows time.Duration: Allow compares with another one.
PeriodUpToTTL ==
    [][\A p \in Requests :
          /\ Answered(p, "limited") => PassedWithin(p, Ticks(asked[p].period))
          /\ Answered(p, "pass") => \/ ~PassedWithin(p, Ticks(asked[p].period))
                                    \/ ~PassedWithin(p, EntryTTL + 1)]_vars

\* A period the limiter can keep: it fits time.Duration, and the map remembers
\* entries for as long.
Kept(period) == Ticks(period) \in -Half .. EntryTTL

Limiter == INSTANCE MinimumPeriod WITH
    asked <- [p \in Requests |->
                 IF asked[p] = None THEN None
                 ELSE [caller |-> CallerOf(p), period |-> Ticks(asked[p].period),
                       kept |-> Kept(asked[p].period)]]

\* A request whose period fits and is not longer than EntryTTL cannot tell that
\* the map is ever swept: it gets the answer a limiter would give that remembers
\* each caller for ever, however sweeps, changes of the settings and requests
\* with longer or overflowing periods fall between its reading of the period and
\* its call of Allow.
ForgettingUnobservable == Limiter!Spec
=============================================================================
