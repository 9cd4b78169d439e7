---------------------------- MODULE MCSmcDevices ----------------------------
(* The components that share no state with the others, checked in one run:  *)
(* a behaviour is a behaviour of the one that `part` names, and the others  *)
(* stay in their initial states.  Nothing is claimed of two of them at once.*)
EXTENDS Integers, Sequences

CONSTANTS
  WatchdogDrivers, Panic, Resets, Others, DoNothing,        \* SmcWatchdog
  Second, MaxSeconds, TimersMaxTime,                        \* SmcTimerKeys
  ClockMaxTime, MaxCounter, Day,                            \* SmcClockKeys
  MaxKeys, MaxBoots,                                        \* SmcEfiBackend
  Count, Averages, QuickPollCount, Elapsed, AcpiFails,      \* SmcBattery
  Fans, DellPosters, MaxUpdates,                            \* SmcDell
  Readers                                                   \* SmcSensorPoll

VARIABLES
  part,
  wJob, wTimer, wAccept, wPoster, wAction, wReset,
  tNow, tKey, tWatchdog,
  cNow, cLastWake, cClwk, cClkt,
  uGeneration, uCallbacks, uStart, uInstance, uPending, uServicing, uMmio, uPatched,
  uTrapped, uFirst, uKext, uShould, uMonitored, uRegistrations, uPublications, uOverlap,
  eBoots, eHbkp, eRtc, eStaged, eNvram, eKeys, eSubmit, eLasting,
  bBt, bAverage, bQuick, bPoll, bLock, bCheck, bPc, bTold,
  dQueue, dFans, dManual, dTarget, dAwake, dIgnore, dWakeTimer, dPoster, dWorker,
  dPower, dWaker, dAsked, dFailed,
  sCpu, sSio, sLock, sReader

Watchdog == INSTANCE SmcWatchdog WITH
  job <- wJob, timer <- wTimer, accept <- wAccept, poster <- wPoster,
  action <- wAction, reset <- wReset, Drivers <- WatchdogDrivers
Timers == INSTANCE SmcTimerKeys WITH
  now <- tNow, key <- tKey, watchdog <- tWatchdog, MaxTime <- TimersMaxTime
Clock == INSTANCE SmcClockKeys WITH
  now <- cNow, lastWake <- cLastWake, clwk <- cClwk, clkt <- cClkt,
  MaxTime <- ClockMaxTime
Startup == INSTANCE SmcStartup WITH
  generation <- uGeneration, callbacks <- uCallbacks, start <- uStart,
  instance <- uInstance, pending <- uPending, servicingReady <- uServicing,
  mmioReady <- uMmio, patched <- uPatched, trapped <- uTrapped,
  firstGeneration <- uFirst, kext <- uKext, shouldMmioInit <- uShould,
  monitored <- uMonitored, registrations <- uRegistrations,
  publications <- uPublications, overlap <- uOverlap
Efi == INSTANCE SmcEfiBackend WITH
  boots <- eBoots, hbkp <- eHbkp, rtc <- eRtc, staged <- eStaged,
  nvram <- eNvram, keys <- eKeys, submit <- eSubmit, lasting <- eLasting
Battery == INSTANCE SmcBattery WITH
  bt <- bBt, average <- bAverage, quick <- bQuick, poll <- bPoll,
  lock <- bLock, check <- bCheck, pc <- bPc, told <- bTold
Dell == INSTANCE SmcDell WITH
  queue <- dQueue, fans <- dFans, manual <- dManual, target <- dTarget,
  awake <- dAwake, ignore <- dIgnore, wakeTimer <- dWakeTimer,
  poster <- dPoster, worker <- dWorker, power <- dPower, waker <- dWaker,
  asked <- dAsked, failed <- dFailed, Posters <- DellPosters
Sensors == INSTANCE SmcSensorPoll WITH
  cpu <- sCpu, sio <- sSio, lock <- sLock, reader <- sReader

ASSUME DevicesAssumption ==
  /\ Watchdog!WatchdogAssumption /\ Timers!TimerAssumption /\ Clock!ClockAssumption
  /\ Efi!EfiAssumption /\ Battery!BatteryAssumption
  /\ Dell!DellAssumption

wVars == <<wJob, wTimer, wAccept, wPoster, wAction, wReset>>
tVars == <<tNow, tKey, tWatchdog>>
cVars == <<cNow, cLastWake, cClwk, cClkt>>
uVars == <<uGeneration, uCallbacks, uStart, uInstance, uPending, uServicing, uMmio,
           uPatched, uTrapped, uFirst, uKext, uShould, uMonitored, uRegistrations,
           uPublications, uOverlap>>
eVars == <<eBoots, eHbkp, eRtc, eStaged, eNvram, eKeys, eSubmit, eLasting>>
bVars == <<bBt, bAverage, bQuick, bPoll, bLock, bCheck, bPc, bTold>>
dVars == <<dQueue, dFans, dManual, dTarget, dAwake, dIgnore, dWakeTimer,
           dPoster, dWorker, dPower, dWaker, dAsked, dFailed>>
sVars == <<sCpu, sSio, sLock, sReader>>
vars == <<part, wVars, tVars, cVars, uVars, eVars, bVars, dVars, sVars>>

Parts == {"watchdog", "timers", "clock", "startup", "efi", "battery", "dell", "sensors"}

Init ==
  /\ part \in Parts
  /\ Watchdog!Init /\ Timers!Init /\ Clock!Init /\ Startup!Init
  /\ Efi!Init /\ Battery!Init /\ Dell!Init /\ Sensors!Init
  /\ dManual => part = "dell"
  /\ uGeneration = "V1" \/ uCallbacks => part = "startup"

(* One part moves and the others stay.                                      *)
OnlyWatchdog ==
  /\ part = "watchdog"
  /\ UNCHANGED <<part, tVars, cVars, uVars, eVars, bVars, dVars, sVars>>

OnlyTimers ==
  /\ part = "timers"
  /\ UNCHANGED <<part, wVars, cVars, uVars, eVars, bVars, dVars, sVars>>

OnlyClock ==
  /\ part = "clock"
  /\ UNCHANGED <<part, wVars, tVars, uVars, eVars, bVars, dVars, sVars>>

OnlyStartup ==
  /\ part = "startup"
  /\ UNCHANGED <<part, wVars, tVars, cVars, eVars, bVars, dVars, sVars>>

OnlyEfi ==
  /\ part = "efi"
  /\ UNCHANGED <<part, wVars, tVars, cVars, uVars, bVars, dVars, sVars>>

OnlyBattery ==
  /\ part = "battery"
  /\ UNCHANGED <<part, wVars, tVars, cVars, uVars, eVars, dVars, sVars>>

OnlyDell ==
  /\ part = "dell"
  /\ UNCHANGED <<part, wVars, tVars, cVars, uVars, eVars, bVars, sVars>>

OnlySensors ==
  /\ part = "sensors"
  /\ UNCHANGED <<part, wVars, tVars, cVars, uVars, eVars, bVars, dVars>>

Next ==
  \/ OnlyWatchdog /\ Watchdog!Next
  \/ OnlyTimers /\ Timers!Next
  \/ OnlyClock /\ Clock!Next
  \/ OnlyStartup /\ Startup!Next
  \/ OnlyEfi /\ Efi!Next
  \/ OnlyBattery /\ Battery!Next
  \/ OnlyDell /\ Dell!Next
  \/ OnlySensors /\ Sensors!Next

(* The fairness of SmcDell and SmcStartup, for the behaviours of their own. *)
Fairness ==
  /\ WF_vars(OnlyDell /\ Dell!Worker) /\ WF_vars(OnlyDell /\ Dell!Drained)
  /\ WF_vars(OnlyStartup /\ Startup!Start) /\ WF_vars(OnlyStartup /\ Startup!PostMmioReady)

Spec == Init /\ [][Next]_vars /\ Fairness

-----------------------------------------------------------------------------
(* The types of the part that moves; the others are as they were.           *)
TypeOK ==
  /\ part \in Parts
  /\ part = "watchdog" => Watchdog!TypeOK
  /\ part = "timers" => Timers!TypeOK
  /\ part = "clock" => Clock!TypeOK
  /\ part = "startup" => Startup!TypeOK
  /\ part = "efi" => Efi!TypeOK
  /\ part = "battery" => Battery!TypeOK
  /\ part = "dell" => Dell!TypeOK
  /\ part = "sensors" => Sensors!TypeOK

(* A stored watchdog job is never without its timer (postWatchDogJob).      *)
JobHasTimer == Watchdog!JobHasTimer

(* OSWD and NATi never promise more time than the watchdog leaves.          *)
CountdownHonest == Timers!CountdownHonest

(* CLWK only starts again after a wake or when it is written.               *)
WakeCounterGrows == Clock!WakeCounterGrows

(* A first generation device is published once, by start.                   *)
FirstGenerationPrivate == Startup!FirstGenerationPrivate

(* Otherwise the second of two threads that do not overlap publishes.       *)
SecondPublishes == Startup!SecondPublishes

(* Nothing is registered before the instance and the windows are ready.     *)
RegisteredWhenReady == Startup!RegisteredWhenReady

(* What both threads announced is published in the end.                     *)
EventuallyPublished == Startup!EventuallyPublished

(* The boot loader can read what a successful submission left behind.       *)
SubmittedReadable == Efi!SubmittedReadable

(* A battery that needs a static update has its poll (checkDevices).        *)
UpdateScheduled == Battery!UpdateScheduled

(* Quick polls ended by sleep are not brought back (decrementQuickPoll).    *)
SleepStopsQuickPolls == Battery!SleepStopsQuickPolls

(* The battery handler is never called without its target (subscribe).      *)
CalledWithTarget == Battery!CalledWithTarget

(* The target speed of a fan is the last accepted one (postSmcUpdate).      *)
LastTargetApplied == Dell!LastTargetApplied

(* The machine's fan control mode is what fansStatus says.                  *)
ControlAgrees == Dell!ControlAgrees

(* handlePowerOff comes to an end.                                          *)
SleepCompletes == Dell!SleepCompletes

(* A sensor that was read gets its refresh (quickReschedule).               *)
RefreshComes == Sensors!RefreshComes
=============================================================================
