---------------------------- MODULE AutoRefresh -----------------------------
(***************************************************************************)
(* The goroutine that refreshes LocateDB with the period the administrator *)
(* sets (StartAutoRefresh, service/refresh.go), in a process that can end  *)
(* and be started again (cmd/server/main.go).  It polls the settings, and  *)
(* stops and replaces its ticker when the period has changed; Refresh runs *)
(* inside the select loop, so neither channel is read meanwhile.           *)
(*                                                                         *)
(* The settings are AdminSettings with the refresh period, an integer of   *)
(* milliseconds, as the value; time.Duration counts in smaller units in a  *)
(* fixed number of bits.  A channel of a ticker holds one tick.            *)
(***************************************************************************)
EXTENDS AdminSettings

CONSTANTS Poll,      \* time between two looks at the settings
          Factor,    \* units of time.Duration per millisecond
          Half,      \* time.Duration counts from -Half to Half - 1
          MaxAge     \* bound: ages of refreshes are counted up to here

\* The milliseconds p as a time.Duration: the product wraps around.
Duration(p) == ((p * Factor + Half) % (2 * Half)) - Half

ASSUME TimeAssumption ==
    /\ Values \subseteq Int
    /\ Poll \in Nat \ {0} /\ Factor \in Nat \ {0} /\ Half \in Nat \ {0}
    /\ MaxAge \in Nat
    /\ \A p \in Values : Duration(p) <= MaxAge

\* What the columns can hold does not overflow, nor does the configured default.
ASSUME RangeAssumption ==
    /\ Defaults \in Storable
    /\ \A p \in Storable : p > 0 => Duration(p) > 0

VARIABLES
    loop,        \* "new" before the first checkPeriod, "select", "refresh", "done"
    stopping,    \* the signal context is done
    lastPeriod,  \* the period the ticker was made for
    every,       \* the duration of the ticker, 0 without one
    tickIn,      \* time until the ticker's next tick, 0 without one
    tick,        \* the channel of the ticker holds a tick
    pollIn,      \* time until the poll ticker's next tick
    poll,        \* the channel of the poll ticker holds a tick
    \* history variables, read by the properties only: ages of the last two
    \* refreshes under this ticker, or of the ticker
    older, newer

ticker    == <<lastPeriod, every, tickIn, tick, older, newer>>
poller    == <<pollIn, poll>>
loopVars  == <<loop, stopping, ticker, poller>>
vars      == <<settingsVars, loopVars>>

\* Mutation variant: the old ticker is neither stopped nor forgotten.
TickerLeft == UNCHANGED <<every, tickIn, tick, older, newer>>

NoTicker == /\ every' = 0 /\ tickIn' = 0 /\ tick' = FALSE
            /\ older' = 0 /\ newer' = 0

\* The goroutine's variables are gone or not yet used.
NoLoop == /\ NoTicker
          /\ lastPeriod' = -1
          /\ pollIn' = Poll /\ poll' = FALSE

Init == /\ SettingsInit
        /\ loop = "new"
        /\ stopping = FALSE
        /\ lastPeriod = -1
        /\ every = 0 /\ tickIn = 0 /\ tick = FALSE
        /\ pollIn = Poll /\ poll = FALSE
        /\ older = 0 /\ newer = 0

-----------------------------------------------------------------------------

\* Mutation variants: the period is read once; the old channel is kept.
ChangedOnce(p) == lastPeriod = -1 /\ p # lastPeriod
OldTick == tick

Changed(p) == p # lastPeriod
NewTick == FALSE

\* checkPeriod with an unchanged period.
KeepTicker == ~Changed(settings) /\ UNCHANGED <<ticker, up>> /\ loop' = "select"

\* A period of 0 or less turns auto-refresh off.
DropTicker == /\ Changed(settings)
              /\ settings <= 0
              /\ lastPeriod' = settings
              /\ NoTicker
              /\ loop' = "select"
              /\ UNCHANGED up

ReplaceTicker == /\ Changed(settings)
                 /\ settings > 0
                 /\ Duration(settings) > 0
                 /\ lastPeriod' = settings
                 /\ every' = Duration(settings)
                 /\ tickIn' = Duration(settings)
                 /\ tick' = NewTick
                 /\ older' = 0 /\ newer' = 0
                 /\ loop' = "select"
                 /\ UNCHANGED up

\* time.NewTicker panics when the duration is not positive: nothing recovers
\* in this goroutine, the process ends.
TickerPanics == /\ Changed(settings)
                /\ settings > 0
                /\ Duration(settings) <= 0
                /\ up' = FALSE
                /\ loop' = "done"

CheckPeriod == KeepTicker \/ DropTicker \/ ReplaceTicker

\* The first checkPeriod.
Begin == /\ loop = "new"
         /\ CheckPeriod
         /\ UNCHANGED <<settings, row, saving, history, stopping, poller>>

OnPoll == /\ loop = "select"
          /\ poll
          /\ poll' = FALSE
          /\ CheckPeriod
          /\ UNCHANGED <<settings, row, saving, history, stopping, pollIn>>

Panic == /\ loop = "new" \/ (loop = "select" /\ poll)
         /\ TickerPanics
         /\ NoLoop
         /\ stopping' = FALSE
         /\ UNCHANGED <<settings, row, saving, history>>

OnTick == /\ loop = "select"
          /\ tick
          /\ tick' = FALSE
          /\ loop' = "refresh"
          /\ older' = newer /\ newer' = 0
          /\ UNCHANGED <<settingsVars, stopping, lastPeriod, every, tickIn, poller>>

RefreshEnds == /\ loop = "refresh"
               /\ loop' = "select"
               /\ UNCHANGED <<settingsVars, stopping, ticker, poller>>

OnDone == /\ loop = "select"
          /\ stopping
          /\ loop' = "done"
          /\ NoLoop
          /\ UNCHANGED <<settingsVars, stopping>>

Older(age) == IF age < MaxAge THEN age + 1 ELSE age

\* Mutation variant: the countdown starts one late.
LateRewind(duration) == duration + 1

Rewind(duration) == duration
Countdown(left, duration) == IF left = 1 THEN Rewind(duration) ELSE left - 1

\* Time passes: a ticker that is due sends unless its channel is full.
Clock == /\ loop \in {"select", "refresh"}
         /\ pollIn' = Countdown(pollIn, Poll)
         /\ poll' = (poll \/ pollIn = 1)
         /\ tickIn' = IF every = 0 THEN 0 ELSE Countdown(tickIn, every)
         /\ tick' = (tick \/ tickIn = 1)
         /\ older' = Older(older) /\ newer' = Older(newer)
         /\ UNCHANGED <<settingsVars, loop, stopping, lastPeriod, every>>

-----------------------------------------------------------------------------
(* main: SIGINT or SIGTERM, the end of the process, the next process       *)

Signal == /\ up
          /\ ~stopping
          /\ stopping' = TRUE
          /\ UNCHANGED <<settingsVars, loop, ticker, poller>>

\* main returns without waiting for the goroutine, or the process is killed.
Die == /\ up
       /\ up' = FALSE
       /\ loop' = "done"
       /\ NoLoop
       /\ stopping' = FALSE
       /\ UNCHANGED <<settings, row, saving, history>>

Start == /\ ~up
         /\ up' = TRUE
         /\ LoadSettings
         /\ loop' = "new"
         /\ UNCHANGED <<stopping, ticker, poller>>

Loop == Begin \/ OnPoll \/ Panic \/ OnTick \/ RefreshEnds \/ OnDone

\* What administrators do is all the same to the goroutine until it looks.
Administer == Administration /\ UNCHANGED loopVars

Next == Administer \/ Loop \/ Clock \/ Signal \/ Die \/ Start

Spec == Init /\ [][Next]_vars

\* Time passes, and a select does not pass over a channel that is ready again
\* and again: it chooses among the ready ones at random.  That a Refresh returns
\* is an assumption about the tables: it does once a page comes short, and not
\* while reports fill every page (RefreshPipeline!OnlyCommitsAddWork).
Fairness == /\ WF_vars(Begin \/ Panic) /\ WF_vars(RefreshEnds) /\ WF_vars(Clock)
            /\ SF_vars(OnPoll \/ Panic) /\ SF_vars(OnTick)

FairSpec == Spec /\ Fairness

-----------------------------------------------------------------------------
(* Properties                                                              *)

\* Countdowns stay within their durations.
TypeOK ==
    /\ SettingsTypeOK
    /\ loop \in {"new", "select", "refresh", "done"}
    /\ stopping \in BOOLEAN
    /\ lastPeriod \in Values \cup {-1}
    /\ every \in 0..MaxAge
    /\ tickIn \in 0..every /\ tick \in BOOLEAN
    /\ pollIn \in 1..Poll /\ poll \in BOOLEAN
    /\ older \in 0..MaxAge /\ newer \in 0..MaxAge

\* A period the administrator sets and leaves alone takes over: the goroutine
\* adopts it, refreshes again and again when it is positive and no more when it
\* is not, however long each Refresh takes and whatever period was set before.
NewPeriodTakesOver ==
    \A p \in Values :
        <>[](up /\ ~stopping /\ settings = p) =>
            /\ <>[](lastPeriod = p)
            /\ p > 0 => []<>(loop = "refresh")
            /\ p <= 0 => <>[](loop # "refresh")

\* No burst of refreshes: the first one comes a full period after the ticker
\* was made, and of three in a row the last begins a full period after the
\* first, although ticks wait while a Refresh runs and tickers are replaced.
PeriodsKept == [][OnTick => older >= every]_vars

\* The ticker serves the period that was adopted last.  With one of 0 or less
\* there is none and no tick of an older one; with a positive one the last
\* refresh under it began, or it was made, less than a period ago, unless a tick
\* waits to be taken: a Refresh that outlasts several ticks puts off none.
NeverLate ==
    /\ lastPeriod <= 0 => every = 0 /\ ~tick
    /\ lastPeriod > 0 => every = Duration(lastPeriod) /\ (tick \/ newer < every)

\* A period that overflows time.Duration ends the process once: the row cannot
\* hold it, so no process dies of a period that nobody gave to this process.
PanicNotRepeated == [][Panic => ~untouched]_vars
=============================================================================
