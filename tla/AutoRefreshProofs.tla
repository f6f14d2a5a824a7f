------------------------- MODULE AutoRefreshProofs --------------------------
(***************************************************************************)
(* Proofs about AutoRefresh for every set of administrators and settings,  *)
(* every poll interval and every width of time.Duration.                   *)
(***************************************************************************)
EXTENDS AutoRefresh, TLAPS

\* The ages of the last two refreshes of the present ticker, or of the ticker.
\* every - tickIn is the time since the ticker was last due.
AgesInv ==
    /\ every > 0 => tickIn > 0
    /\ tick => every > 0
    /\ tick => older >= every /\ newer >= every - tickIn
    /\ ~tick => older >= every - tickIn

\* Settings that nobody touched since the process started fit the columns.
UntouchedFits == untouched => settings \in Storable

\* Without a race or a loss, what is under way and, when nothing is, the row
\* are the settings in force.
SavedInv ==
    ~raced /\ ~lost =>
        /\ \A a \in Admins : saving[a] # None => saving[a] = settings
        /\ Saving = {} => Loaded(row) = settings

IInv == TypeOK /\ AgesInv /\ UntouchedFits /\ SavedInv

-----------------------------------------------------------------------------

\* A duration that is positive fits the bound on ages.
LEMMA DurationType == \A p \in Values : Duration(p) \in Int /\ Duration(p) <= MaxAge
<1> SUFFICES ASSUME NEW p \in Values PROVE Duration(p) \in Int
  BY TimeAssumption
<1>1. p * Factor + Half \in Int /\ 2 * Half \in Nat \ {0}
  BY TimeAssumption
<1>2. (p * Factor + Half) % (2 * Half) \in Int
  BY <1>1
<1> QED
  BY <1>2, TimeAssumption DEF Duration

\* A countdown that has just been set, and ages that have.
LEMMA FullCountdown ==
    ASSUME NEW every0 \in 0..MaxAge, NEW tickIn0, NEW older0, NEW newer0,
           tickIn0 = every0, older0 = 0, newer0 = 0, MaxAge \in Nat
    PROVE  /\ tickIn0 \in 0..every0 /\ older0 \in 0..MaxAge /\ newer0 \in 0..MaxAge
           /\ every0 > 0 => tickIn0 > 0
           /\ older0 >= every0 - tickIn0
OBVIOUS

LEMMA InitIInv == Init => IInv
<1> SUFFICES ASSUME Init PROVE IInv
  OBVIOUS
<1>1. SettingsTypeOK /\ UntouchedFits
  BY SettingsAssumption, RangeAssumption DEF Init, SettingsInit, SettingsTypeOK, UntouchedFits
<1>2. /\ loop \in {"new", "select", "refresh", "done"} /\ stopping \in BOOLEAN
      /\ lastPeriod \in Values \cup {-1} /\ tick \in BOOLEAN /\ poll \in BOOLEAN
  BY DEF Init
<1>3. /\ every \in 0..MaxAge /\ tickIn \in 0..every /\ pollIn \in 1..Poll
      /\ older \in 0..MaxAge /\ newer \in 0..MaxAge
  BY TimeAssumption DEF Init
<1>4. TypeOK /\ AgesInv
  BY <1>1, <1>2, <1>3 DEF Init, TypeOK, AgesInv
<1>5. SavedInv
  BY DEF Init, SettingsInit, SavedInv, Saving, Loaded
<1> QED
  BY <1>1, <1>4, <1>5 DEF IInv

\* What the steps of the goroutine leave alone.
LEMMA SettingsFrame ==
    ASSUME IInv, UNCHANGED <<settings, row, saving, history>>
    PROVE  UntouchedFits' /\ SavedInv'
BY DEF IInv, UntouchedFits, SavedInv, Saving, Loaded, history

LEMMA CheckPeriodStep ==
    ASSUME IInv, CheckPeriod, loop' \in {"select"},
           UNCHANGED <<settings, row, saving, history, stopping>>,
           pollIn' \in 1..Poll, poll' \in BOOLEAN
    PROVE  IInv'
<1>1. /\ TypeOK /\ AgesInv /\ MaxAge \in Nat /\ up' = up /\ loop' = "select"
  BY TimeAssumption DEF IInv, CheckPeriod, KeepTicker, DropTicker, ReplaceTicker
<1>2. SettingsTypeOK'
  BY <1>1 DEF TypeOK, SettingsTypeOK, history
<1>3. CASE KeepTicker
  <2>1. UNCHANGED <<lastPeriod, every, tickIn, tick, older, newer>>
    BY <1>3 DEF KeepTicker, ticker
  <2>2. TypeOK'
    BY <1>1, <1>2, <2>1 DEF TypeOK
  <2>3. AgesInv'
    BY <1>1, <2>1 DEF AgesInv
  <2> QED  BY <2>2, <2>3, SettingsFrame DEF IInv
<1>4. CASE DropTicker \/ ReplaceTicker
  <2>1. /\ lastPeriod' \in Values /\ tick' = FALSE /\ older' = 0 /\ newer' = 0
        /\ every' \in 0..MaxAge /\ tickIn' = every'
    <3>1. settings \in Values /\ settings \in Int
      BY <1>1, TimeAssumption DEF TypeOK, SettingsTypeOK
    <3>2. CASE DropTicker
      BY <1>1, <3>1, <3>2 DEF DropTicker, NoTicker
    <3>3. CASE ReplaceTicker
      BY <1>1, <3>1, <3>3, DurationType DEF ReplaceTicker, NewTick
    <3> QED  BY <1>4, <3>2, <3>3
  <2>2. loop' \in {"new", "select", "refresh", "done"} /\ stopping' \in BOOLEAN
    BY <1>1 DEF TypeOK
  <2>3. /\ tickIn' \in 0..every' /\ older' \in 0..MaxAge /\ newer' \in 0..MaxAge
        /\ every' > 0 => tickIn' > 0
        /\ older' >= every' - tickIn'
    BY <1>1, <2>1, FullCountdown
  <2>4. TypeOK'
    BY <1>2, <2>1, <2>2, <2>3 DEF TypeOK
  <2>5. AgesInv'
    BY <2>1, <2>3 DEF AgesInv
  <2> QED  BY <2>4, <2>5, SettingsFrame DEF IInv
<1> QED
  BY <1>3, <1>4 DEF CheckPeriod

LEMMA GoneStep ==
    ASSUME IInv, NoLoop, up' = FALSE \/ up' = up, loop' = "done", stopping' \in BOOLEAN,
           UNCHANGED <<settings, row, saving, history>>
    PROVE  IInv'
<1>1. SettingsTypeOK'
  BY DEF IInv, TypeOK, SettingsTypeOK, history
<1>2. TypeOK'
  <2>1. /\ loop' \in {"new", "select", "refresh", "done"} /\ stopping' \in BOOLEAN
        /\ lastPeriod' \in Values \cup {-1} /\ tick' \in BOOLEAN /\ poll' \in BOOLEAN
    BY DEF NoLoop, NoTicker
  <2>2. /\ every' \in 0..MaxAge /\ tickIn' \in 0..every' /\ pollIn' \in 1..Poll
        /\ older' \in 0..MaxAge /\ newer' \in 0..MaxAge
    BY TimeAssumption DEF NoLoop, NoTicker
  <2> QED  BY <1>1, <2>1, <2>2 DEF TypeOK
<1>3. AgesInv'
  BY DEF NoLoop, NoTicker, AgesInv
<1> QED
  BY <1>2, <1>3, SettingsFrame DEF IInv

LEMMA AssignStep ==
    ASSUME IInv, NEW a \in Admins, NEW v \in Values, Assign(a, v), UNCHANGED loopVars
    PROVE  IInv'
<1>1. TypeOK' /\ AgesInv'
  BY DEF IInv, Assign, TypeOK, SettingsTypeOK, AgesInv, loopVars, ticker, poller
<1>2. UntouchedFits'
  BY DEF Assign, UntouchedFits
<1>3. SavedInv'
  <2>1. /\ saving \in [Admins -> Values \cup {None}] /\ settings' = v
        /\ saving' = [saving EXCEPT ![a] = v] /\ raced' = (Saving # {})
    BY DEF IInv, TypeOK, SettingsTypeOK, Assign
  <2>2. saving'[a] = v /\ v # None
    BY <2>1, SettingsAssumption
  <2>3. ~raced' => \A b \in Admins \ {a} : saving'[b] = None
    BY <2>1 DEF Saving
  <2> QED  BY <2>1, <2>2, <2>3 DEF SavedInv, Saving
<1> QED
  BY <1>1, <1>2, <1>3 DEF IInv

LEMMA SaveLandsStep ==
    ASSUME IInv, NEW a \in Admins, SaveLands(a), UNCHANGED loopVars
    PROVE  IInv'
<1>1. TypeOK' /\ AgesInv'
  BY DEF IInv, SaveLands, Fits, TypeOK, SettingsTypeOK, AgesInv, loopVars, ticker, poller,
         history
<1>2. UntouchedFits'
  BY DEF IInv, SaveLands, UntouchedFits, history
<1>3. SavedInv'
  <2>1. /\ saving \in [Admins -> Values \cup {None}] /\ settings' = settings
        /\ saving' = [saving EXCEPT ![a] = None] /\ row' = saving[a] /\ saving[a] # None
        /\ raced' = raced /\ lost' = lost
    BY DEF IInv, TypeOK, SettingsTypeOK, SaveLands, history
  <2> QED  BY <2>1 DEF IInv, SavedInv, Saving, Loaded
<1> QED
  BY <1>1, <1>2, <1>3 DEF IInv

LEMMA SaveFailsStep ==
    ASSUME IInv, NEW a \in Admins, SaveFails(a), UNCHANGED loopVars
    PROVE  IInv'
<1>1. TypeOK' /\ AgesInv'
  BY DEF IInv, SaveFails, TypeOK, SettingsTypeOK, AgesInv, loopVars, ticker, poller
<1> QED
  BY <1>1 DEF IInv, SaveFails, UntouchedFits, SavedInv

LEMMA StartStep ==
    ASSUME IInv, Start
    PROVE  IInv'
<1>0. TypeOK /\ settings' \in Storable /\ settings' \in Values
  <2>1. TypeOK
    BY DEF IInv
  <2>2. Loaded(row) \in Storable /\ Defaults \in Storable
    BY <2>1, RangeAssumption DEF TypeOK, SettingsTypeOK, Loaded
  <2> QED  BY <2>1, <2>2, SettingsAssumption DEF Start, LoadSettings
<1>1. TypeOK' /\ AgesInv'
  BY <1>0 DEF IInv, Start, LoadSettings, TypeOK, SettingsTypeOK, AgesInv, ticker, poller
<1>2. UntouchedFits'
  BY <1>0 DEF UntouchedFits
<1>3. SavedInv'
  <2>1. saving' = saving /\ row' = row
    BY DEF Start, LoadSettings
  <2>2. CASE settings' = Loaded(row) /\ lost' = (Saving # {})
    BY <2>1, <2>2 DEF SavedInv, Saving, Loaded
  <2>3. CASE lost' = TRUE
    BY <2>3 DEF SavedInv
  <2> QED  BY <2>2, <2>3 DEF Start, LoadSettings
<1> QED
  BY <1>1, <1>2, <1>3 DEF IInv

\* Time: a tick falls due a full period after the one before.
LEMMA ClockStep ==
    ASSUME IInv, Clock
    PROVE  IInv'
<1>1. /\ TypeOK /\ AgesInv
      /\ MaxAge \in Nat /\ Poll \in Nat \ {0}
  BY TimeAssumption DEF IInv
<1>2. /\ every' = every /\ older' = Older(older) /\ newer' = Older(newer)
      /\ tickIn' = IF every = 0 THEN 0 ELSE IF tickIn = 1 THEN every ELSE tickIn - 1
      /\ tick' = (tick \/ tickIn = 1)
      /\ pollIn' = IF pollIn = 1 THEN Poll ELSE pollIn - 1
      /\ poll' = (poll \/ pollIn = 1)
      /\ UNCHANGED <<settingsVars, loop, stopping, lastPeriod>>
  BY DEF Clock, Countdown, Rewind
<1>3. /\ older \in 0..MaxAge /\ newer \in 0..MaxAge /\ every \in 0..MaxAge
      /\ tickIn \in 0..every /\ pollIn \in 1..Poll /\ tick \in BOOLEAN /\ poll \in BOOLEAN
  BY <1>1 DEF TypeOK
<1>4. /\ Older(older) \in 0..MaxAge /\ Older(newer) \in 0..MaxAge
      /\ Older(older) >= older /\ (Older(older) = MaxAge \/ Older(older) = older + 1)
      /\ Older(newer) >= newer /\ (Older(newer) = MaxAge \/ Older(newer) = newer + 1)
  BY <1>1, <1>3 DEF Older
<1>5. /\ tickIn' \in 0..every /\ pollIn' \in 1..Poll
      /\ every > 0 => tickIn' > 0
  BY <1>1, <1>2, <1>3 DEF AgesInv
<1>6. TypeOK'
  <2>1. SettingsTypeOK'
    BY <1>1, <1>2 DEF TypeOK, SettingsTypeOK, settingsVars, history
  <2> QED  BY <1>1, <1>2, <1>3, <1>4, <1>5, <2>1 DEF TypeOK
<1>7. tick' => every > 0
  BY <1>1, <1>2, <1>3 DEF AgesInv
<1>8. ASSUME tick' PROVE older' >= every' /\ newer' >= every' - tickIn'
  <2>1. CASE tick
    BY <1>1, <1>2, <1>3, <1>4, <2>1 DEF AgesInv
  <2>2. CASE ~tick
    BY <1>1, <1>2, <1>3, <1>4, <1>8, <2>2 DEF AgesInv
  <2> QED  BY <2>1, <2>2
<1>9. ASSUME ~tick' PROVE older' >= every' - tickIn'
  <2>1. ~tick /\ tickIn # 1
    BY <1>2, <1>9
  <2> QED  BY <1>1, <1>2, <1>3, <1>4, <2>1 DEF AgesInv
<1>10. AgesInv'
  BY <1>2, <1>5, <1>7, <1>8, <1>9 DEF AgesInv
<1> QED
  BY <1>2, <1>6, <1>10, SettingsFrame DEF IInv, settingsVars

LEMMA OnTickStep ==
    ASSUME IInv, OnTick
    PROVE  IInv'
<1>1. /\ TypeOK /\ AgesInv /\ MaxAge \in Nat
      /\ older \in 0..MaxAge /\ newer \in 0..MaxAge /\ every \in 0..MaxAge
      /\ tickIn \in 0..every
  BY TimeAssumption DEF IInv, TypeOK
<1>2. /\ tick /\ tick' = FALSE /\ loop' = "refresh" /\ older' = newer /\ newer' = 0
      /\ UNCHANGED <<stopping, lastPeriod, every, tickIn, pollIn, poll>>
      /\ UNCHANGED <<up, settings, row, saving, raced, lost, untouched>>
  BY DEF OnTick, settingsVars, history, poller
<1>3. SettingsTypeOK'
  BY <1>1, <1>2 DEF TypeOK, SettingsTypeOK
<1>4. TypeOK'
  <2>1. /\ loop' \in {"new", "select", "refresh", "done"} /\ stopping' \in BOOLEAN
        /\ lastPeriod' \in Values \cup {-1} /\ tick' \in BOOLEAN /\ poll' \in BOOLEAN
    BY <1>1, <1>2 DEF TypeOK
  <2>2. /\ every' \in 0..MaxAge /\ tickIn' \in 0..every' /\ pollIn' \in 1..Poll
        /\ older' \in 0..MaxAge /\ newer' \in 0..MaxAge
    BY <1>1, <1>2 DEF TypeOK
  <2> QED  BY <1>3, <2>1, <2>2 DEF TypeOK
<1>5. AgesInv'
  BY <1>1, <1>2 DEF AgesInv
<1> QED
  BY <1>2, <1>4, <1>5, SettingsFrame DEF IInv, history

LEMMA RefreshEndsStep ==
    ASSUME IInv, RefreshEnds \/ Signal
    PROVE  IInv'
<1>1. /\ loop' \in {"new", "select", "refresh", "done"} /\ stopping' \in BOOLEAN
      /\ UNCHANGED <<lastPeriod, every, tickIn, tick, older, newer, pollIn, poll>>
      /\ UNCHANGED <<up, settings, row, saving, raced, lost, untouched>>
  BY DEF IInv, TypeOK, RefreshEnds, Signal, settingsVars, history, ticker, poller
<1>2. SettingsTypeOK'
  BY <1>1 DEF IInv, TypeOK, SettingsTypeOK
<1>3. TypeOK'
  BY <1>1, <1>2 DEF IInv, TypeOK
<1>4. AgesInv'
  BY <1>1 DEF IInv, AgesInv
<1> QED
  BY <1>1, <1>3, <1>4, SettingsFrame DEF IInv, history

LEMMA NextPreserves == IInv /\ [Next]_vars => IInv'
<1> SUFFICES ASSUME IInv, [Next]_vars PROVE IInv'
  OBVIOUS
<1>1. CASE Administer
  BY <1>1, AssignStep, SaveLandsStep, SaveFailsStep DEF Administer, Administration
<1>2. CASE Begin \/ OnPoll
  <2>1. /\ CheckPeriod /\ UNCHANGED <<settings, row, saving, history, stopping>>
        /\ pollIn' \in 1..Poll /\ poll' \in BOOLEAN
    BY <1>2 DEF Begin, OnPoll, poller, IInv, TypeOK
  <2>2. loop' \in {"select"}
    BY <2>1 DEF CheckPeriod, KeepTicker, DropTicker, ReplaceTicker
  <2> QED  BY <2>1, <2>2, CheckPeriodStep
<1>3. CASE Panic \/ OnDone \/ Die
  <2>1. NoLoop /\ loop' = "done" /\ UNCHANGED <<settings, row, saving, history>>
    BY <1>3 DEF Panic, TickerPanics, OnDone, Die, settingsVars
  <2>2. (up' = FALSE \/ up' = up) /\ stopping' \in BOOLEAN
    BY <1>3 DEF Panic, TickerPanics, OnDone, Die, settingsVars, IInv, TypeOK
  <2> QED  BY <2>1, <2>2, GoneStep
<1>4. CASE OnTick
  BY <1>4, OnTickStep
<1>5. CASE RefreshEnds \/ Signal
  BY <1>5, RefreshEndsStep
<1>6. CASE Clock
  BY <1>6, ClockStep
<1>7. CASE Start
  BY <1>7, StartStep
<1>8. CASE UNCHANGED vars
  <2>1. TypeOK' /\ AgesInv'
    BY <1>8 DEF IInv, TypeOK, SettingsTypeOK, AgesInv, vars, loopVars, settingsVars, ticker,
                poller, history
  <2> QED  BY <1>8, <2>1, SettingsFrame DEF IInv, vars, settingsVars
<1> QED
  BY <1>1, <1>2, <1>3, <1>4, <1>5, <1>6, <1>7, <1>8 DEF Next, Loop

THEOREM InvariantHolds == Spec => []IInv
BY InitIInv, NextPreserves, PTL DEF Spec

-----------------------------------------------------------------------------

\* Type correctness: every countdown stays within the duration it counts, and
\* the row never holds a value its columns cannot.
THEOREM TypeCorrect == Spec => []TypeOK
<1>1. IInv => TypeOK
  BY DEF IInv
<1> QED
  BY <1>1, InvariantHolds, PTL

\* No burst of refreshes, whatever the periods and however long they run.
THEOREM NoBurst == Spec => PeriodsKept
<1>1. IInv /\ [Next]_vars => [OnTick => older >= every]_vars
  BY DEF IInv, AgesInv, OnTick
<1> QED
  BY <1>1, InvariantHolds, PTL DEF Spec, PeriodsKept

\* A process dies of an overflowing period only if somebody set one since it
\* started: restarting it is always a way out.
THEOREM NoCrashLoop == Spec => PanicNotRepeated
<1>1. IInv /\ [Next]_vars => [Panic => ~untouched]_vars
  <2> SUFFICES ASSUME IInv, Panic, untouched PROVE FALSE
    OBVIOUS
  <2>1. settings \in Storable /\ settings > 0 /\ Duration(settings) <= 0
    BY DEF IInv, UntouchedFits, Panic, TickerPanics
  <2>2. settings \in Int /\ Duration(settings) \in Int
    BY TimeAssumption, DurationType DEF IInv, TypeOK, SettingsTypeOK
  <2> QED  BY <2>1, <2>2, RangeAssumption
<1> QED
  BY <1>1, InvariantHolds, PTL DEF Spec, PanicNotRepeated

\* The ticker is the one of the adopted period, and what is left until its next
\* tick and the age of the last refresh make at most a period.
ServeInv ==
    /\ lastPeriod <= 0 => every = 0
    /\ lastPeriod > 0 => every = Duration(lastPeriod) /\ every > 0
    /\ every > 0 /\ ~tick => newer + tickIn <= every

LEMMA ClockServes == ASSUME IInv, ServeInv, Clock PROVE ServeInv'
<1>1. /\ every \in 0..MaxAge /\ tickIn \in 0..every /\ newer \in 0..MaxAge /\ MaxAge \in Nat
      /\ every > 0 => tickIn > 0
  BY TimeAssumption DEF IInv, TypeOK, AgesInv
<1>2. /\ every' = every /\ lastPeriod' = lastPeriod /\ newer' = Older(newer)
      /\ tickIn' = IF every = 0 THEN 0 ELSE IF tickIn = 1 THEN every ELSE tickIn - 1
      /\ tick' = (tick \/ tickIn = 1)
  BY DEF Clock, Countdown, Rewind
<1>3. Older(newer) \in Int /\ Older(newer) <= newer + 1
  BY <1>1 DEF Older
<1>4. ASSUME every > 0, ~tick' PROVE newer' + tickIn' <= every
  <2>1. ~tick /\ tickIn # 1
    BY <1>2, <1>4
  <2>2. newer + tickIn <= every /\ tickIn' = tickIn - 1
    BY <1>1, <1>2, <1>4, <2>1 DEF ServeInv
  <2> QED  BY <1>1, <1>2, <1>3, <2>2
<1> QED
  BY <1>2, <1>4 DEF ServeInv

LEMMA ServeStep == IInv /\ ServeInv /\ [Next]_vars => ServeInv'
<1> SUFFICES ASSUME IInv, ServeInv, [Next]_vars PROVE ServeInv'
  OBVIOUS
<1>1. CASE CheckPeriod
  <2>1. settings \in Int /\ Duration(settings) \in Int
    BY TimeAssumption, DurationType DEF IInv, TypeOK, SettingsTypeOK
  <2>2. CASE KeepTicker
    BY <2>2 DEF KeepTicker, ticker, ServeInv
  <2>3. CASE DropTicker
    BY <2>1, <2>3 DEF DropTicker, NoTicker, ServeInv
  <2>4. CASE ReplaceTicker
    <3>1. /\ lastPeriod' > 0 /\ every' = Duration(lastPeriod') /\ every' > 0
          /\ newer' = 0 /\ tickIn' = every' /\ every' \in Int
      <4>1. lastPeriod' = settings /\ every' = Duration(settings) /\ tickIn' = Duration(settings)
        BY <2>4 DEF ReplaceTicker
      <4> QED  BY <2>1, <2>4, <4>1 DEF ReplaceTicker
    <3>2. newer' + tickIn' <= every' /\ ~(lastPeriod' <= 0)
      <4>1. lastPeriod' \in Int
        BY <2>1, <2>4 DEF ReplaceTicker
      <4> QED  BY <3>1, <4>1
    <3> QED  BY <3>1, <3>2 DEF ServeInv
  <2> QED  BY <1>1, <2>2, <2>3, <2>4 DEF CheckPeriod
<1>2. CASE NoLoop
  BY <1>2 DEF NoLoop, NoTicker, ServeInv
<1>3. CASE UNCHANGED ticker
  BY <1>3 DEF ticker, ServeInv
<1>4. CASE OnTick
  <2>1. newer' = 0 /\ UNCHANGED <<lastPeriod, every, tickIn>>
    BY <1>4 DEF OnTick
  <2>2. tickIn \in 0..every /\ every \in 0..MaxAge /\ MaxAge \in Nat
    BY TimeAssumption DEF IInv, TypeOK
  <2>3. newer' + tickIn' <= every'
    BY <2>1, <2>2
  <2> QED  BY <2>1, <2>3 DEF ServeInv
<1>5. CASE Clock
  BY <1>5, ClockServes
<1> QED
  BY <1>1, <1>2, <1>3, <1>4, <1>5
  DEF Next, Loop, Administer, Begin, OnPoll, Panic, RefreshEnds, OnDone, Signal, Die,
      Start, vars, loopVars

\* No refresh is late and none comes of a ticker that should be gone, for every
\* period and poll interval and however long each Refresh takes.
THEOREM RefreshesInTime == Spec => []NeverLate
<1>1. Init => ServeInv
  BY DEF Init, ServeInv
<1>2. IInv /\ ServeInv => NeverLate
  <2> SUFFICES ASSUME IInv, ServeInv PROVE NeverLate
    OBVIOUS
  <2>1. /\ lastPeriod \in Int /\ every \in 0..MaxAge /\ tickIn \in 0..every
        /\ newer \in 0..MaxAge /\ MaxAge \in Nat
    BY TimeAssumption DEF IInv, TypeOK
  <2>2. CASE lastPeriod <= 0
    BY <2>1, <2>2 DEF NeverLate, IInv, AgesInv, ServeInv
  <2>3. CASE lastPeriod > 0
    <3>1. every = Duration(lastPeriod) /\ every > 0
      BY <2>3 DEF ServeInv
    <3>3. ~tick => newer < every
      BY <2>1, <3>1 DEF IInv, AgesInv, ServeInv
    <3> QED  BY <2>1, <2>3, <3>1, <3>3 DEF NeverLate
  <2> QED  BY <2>1, <2>2, <2>3
<1> QED
  BY <1>1, <1>2, ServeStep, InvariantHolds, PTL DEF Spec

\* Without overlapping updates and failed saves a restart changes no setting.
THEOREM SettingsSurvive == Spec => RestartKeepsSettings
<1>1. IInv /\ [Next]_vars =>
         [~up /\ up' /\ Saving = {} /\ ~raced /\ ~lost /\ ~lost'
             => settings' = settings]_settingsVars
  <2> SUFFICES ASSUME IInv, [Next]_vars, ~up, up', Saving = {}, ~raced, ~lost, ~lost'
               PROVE  settings' = settings
    BY DEF settingsVars
  <2>1. Loaded(row) = settings
    BY DEF IInv, SavedInv
  <2>2. CASE Start
    BY <2>1, <2>2 DEF Start, LoadSettings
  <2>3. CASE settings' = settings
    BY <2>3
  <2> QED
    BY <2>2, <2>3 DEF Next, Loop, Administer, Administration, Assign, SaveLands, SaveFails,
       Begin, OnPoll, Panic, OnTick, RefreshEnds, OnDone, Clock, Signal, Die, vars,
       settingsVars
<1> QED
  BY <1>1, InvariantHolds, PTL DEF Spec, RestartKeepsSettings
=============================================================================
