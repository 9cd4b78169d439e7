----------------------------- MODULE SmcBattery -----------------------------
(***************************************************************************)
(* The battery manager (BatteryManager.cpp, ACPIBattery.cpp): checkDevices  *)
(* asks the firmware about every battery and adapter and decides when the   *)
(* poll timer asks again.  It runs under mainLock on behalf of the timer,   *)
(* of an ACPI notification, of a change of power state and of start; each   *)
(* evaluation of a firmware method is a step that anything may happen       *)
(* around, and what the firmware answers is free.                           *)
(***************************************************************************)
EXTENDS Integers, FiniteSets

CONSTANTS
  Count,           \* batteries found, and at least one adapter
  Averages,        \* the batteries whose firmware has an average rate
  QuickPollCount,
  Elapsed,         \* seconds that may have passed since the last SMBus access
  AcpiFails        \* whether firmware methods may fail

Batteries == 1 .. Count
Threads == {"timer", "acpi", "power", "starter"}
Nobody == "nobody"

(* Assumed of the constants wherever the module is used.                    *)
BatteryAssumption ==
  /\ Count \in Nat \ {0} /\ QuickPollCount \in Nat \ {0}
  /\ Averages \subseteq Batteries /\ Elapsed \subseteq Nat /\ AcpiFails \in BOOLEAN

VARIABLES
  bt,        \* btInfo: what is known of each battery
  average,   \* averageRateAvailable: known to have an average rate
  quick,     \* quickPoll, and whether it is disabled (quickPollDisabled)
  poll,      \* the poll timer: seconds it was set to (0: off), and enabled
  lock,      \* mainLock
  check,     \* checkDevices' locals
  pc,        \* what each thread is doing
  told       \* handlerTarget and handler are set

vars == <<bt, average, quick, poll, lock, check, pc, told>>

(* BatteryInfo{}.                                                           *)
NoInfo == [connected |-> FALSE, full |-> TRUE, ac |-> FALSE,
           needUpdate |-> FALSE, remaining |-> FALSE]

NoCheck == [pc |-> "none", i |-> 1, found |-> {}, ext |-> FALSE, full |-> FALSE, load |-> 0]

Init ==
  /\ bt = [b \in Batteries |-> NoInfo]
  /\ average = {}
  /\ quick = [count |-> 0, disabled |-> TRUE]
  /\ poll = [set |-> 0, on |-> TRUE]
  /\ lock = Nobody /\ check = NoCheck
  /\ pc = [t \in Threads |-> IF t = "starter" THEN "lock" ELSE "idle"]
  /\ told = [target |-> FALSE, handler |-> FALSE]

Goto(t, label) == pc' = [pc EXCEPT ![t] = label]
CheckAt(label) == check.pc = label

-----------------------------------------------------------------------------
(* checkDevices, called with mainLock held.                                 *)
BeginCheck(t) ==
  /\ pc[t] = "lock" /\ lock = Nobody
  /\ lock' = t
  /\ check' = [NoCheck EXCEPT !.pc = "static"]
  /\ poll' = [poll EXCEPT !.set = 0]
  /\ Goto(t, "check")
  /\ UNCHANGED <<bt, average, quick, told>>

(* updateStaticStatus(b): what _STA says, and what is known of b after it.  *)
(* A battery that is there but tells nothing counts as found all the same.  *)
Static(b, present) ==
  IF present = bt[b].connected /\ ~bt[b].needUpdate THEN {bt[b]}
  ELSE IF ~present THEN {NoInfo}
  ELSE {[NoInfo EXCEPT !.connected = answers] : answers \in {TRUE, ~AcpiFails}}

UpdateStaticStatus ==
  LET b == check.i
      last == b = Count
  IN /\ CheckAt("static")
     /\ \/ \E present \in BOOLEAN : \E info \in Static(b, present) :
             /\ bt' = [bt EXCEPT ![b] = info]
             /\ average' = IF info.connected /\ info # bt[b] /\ b \in Averages
                           THEN average \cup {b} ELSE average
             /\ check' = [check EXCEPT
                  !.found = IF present THEN @ \cup {b} ELSE @,
                  !.pc = IF last THEN "adapters" ELSE @, !.i = IF last THEN 1 ELSE b + 1]
        \/ /\ AcpiFails
           /\ bt' = [bt EXCEPT ![b].connected = FALSE, ![b].ac = FALSE]
           /\ check' = [check EXCEPT
                !.pc = IF last THEN "adapters" ELSE @, !.i = IF last THEN 1 ELSE b + 1]
           /\ UNCHANGED average
     /\ quick' = [quick EXCEPT !.disabled = @ /\ b \in average']
     /\ UNCHANGED <<poll, lock, pc, told>>

(* updateStatus of the adapters; without batteries there must be power.     *)
UpdateAdapters ==
  /\ CheckAt("adapters")
  /\ \E plugged \in BOOLEAN :
       check' = [check EXCEPT !.pc = IF check.found = {} THEN "notify" ELSE "real",
                              !.ext = plugged \/ check.found = {},
                              !.full = check.found # {}]
  /\ UNCHANGED <<bt, average, quick, poll, lock, pc, told>>

(* The batteries whose real time status is asked for: none any more once    *)
(* one of them has not been full.                                           *)
Asked(b) == b \in check.found /\ check.full

(* What updateRealTimeStatus makes of the charging state.                   *)
RealTime(info, state) ==
  [info EXCEPT
     !.remaining = TRUE,
     !.needUpdate = @ \/ (state = "notCharging" /\ ~info.full)
                      \/ (state = "discharging" /\ info.ac),
     !.ac = IF state = "bogus" THEN @ ELSE state # "discharging",
     !.full = (state = "notCharging")]

(* One more poll when a static update is needed, though the battery is full.*)
NoMorePollMutant(info) == info.full

NoMorePoll(info) == info.full /\ ~info.needUpdate

UpdateRealTimeStatus ==
  LET b == check.i
      Step(full) == check' = [check EXCEPT !.full = full, !.i = b + 1,
                                           !.pc = IF b = Count THEN "notify" ELSE @]
  IN /\ CheckAt("real")
     /\ \/ ~Asked(b) /\ Step(check.full) /\ UNCHANGED bt
        \/ /\ Asked(b)
           /\ \E state \in {"notCharging", "discharging", "charging", "bogus"} :
                /\ bt' = [bt EXCEPT ![b] = RealTime(@, state)]
                /\ Step(NoMorePoll(bt'[b]))
        \/ /\ Asked(b) /\ AcpiFails
           /\ \/ UNCHANGED bt
              \/ bt' = [bt EXCEPT ![b].connected = FALSE]
           /\ Step(FALSE)
     /\ UNCHANGED <<average, quick, poll, lock, pc, told>>

(* externalPowerNotify tells the root domain, which is not modelled; no poll*)
(* while there is nothing to wait for.                                      *)
Notify ==
  /\ CheckAt("notify")
  /\ check' = [check EXCEPT !.pc = IF check.ext /\ check.full THEN "return" ELSE "load"]
  /\ UNCHANGED <<bt, average, quick, poll, lock, pc, told>>

(* decrementQuickPoll: a load and a compare and exchange.                   *)
LoadQuickPoll ==
  /\ CheckAt("load")
  /\ check' = [check EXCEPT !.load = quick.count,
                            !.pc = IF quick.count = 0 THEN "arm" ELSE "swap"]
  /\ UNCHANGED <<bt, average, quick, poll, lock, pc, told>>

SwapsMutant == TRUE

Swaps == quick.count = check.load

SwapQuickPoll ==
  /\ CheckAt("swap")
  /\ quick' = IF Swaps THEN [quick EXCEPT !.count = check.load - 1] ELSE quick
  /\ check' = [check EXCEPT !.pc = IF Swaps THEN "quick" ELSE "load"]
  /\ UNCHANGED <<bt, average, poll, lock, pc, told>>

(* The seconds since the last access are kept in eight bits.                *)
IntervalMutant(elapsed) ==
  LET delta == elapsed % 256 IN IF delta < 60 THEN 60 - (2 + delta) ELSE 60

Interval(elapsed) ==
  LET delta == elapsed % 256 IN IF delta < 55 THEN 60 - (2 + delta) ELSE 60

ArmPoll ==
  /\ \/ CheckAt("quick") /\ poll' = [poll EXCEPT !.set = 1]
     \/ CheckAt("arm") /\ \E e \in Elapsed : poll' = [poll EXCEPT !.set = Interval(e)]
  /\ check' = [check EXCEPT !.pc = "return"]
  /\ UNCHANGED <<bt, average, quick, lock, pc, told>>

(* The lock is given back; a timer is done, the others tell the handler.    *)
AfterCheck == [timer |-> "idle", acpi |-> "handler", power |-> "handler",
               starter |-> "target"]

EndCheck ==
  /\ CheckAt("return")
  /\ check' = NoCheck /\ lock' = Nobody
  /\ Goto(lock, AfterCheck[lock])
  /\ UNCHANGED <<bt, average, quick, poll, told>>

CheckDevices ==
  \/ UpdateStaticStatus \/ UpdateAdapters \/ UpdateRealTimeStatus \/ Notify
  \/ LoadQuickPoll \/ SwapQuickPoll \/ ArmPoll \/ EndCheck

-----------------------------------------------------------------------------
(* The timer's action.                                                      *)
Fire ==
  /\ pc["timer"] = "idle" /\ poll.on /\ poll.set > 0
  /\ poll' = [poll EXCEPT !.set = 0]
  /\ Goto("timer", "lock")
  /\ UNCHANGED <<bt, average, quick, lock, check, told>>

RefillQuickPoll ==
  quick' = IF quick.disabled THEN quick ELSE [quick EXCEPT !.count = QuickPollCount]

(* acpiNotification, from the moment the manager is probed.                 *)
AcpiNotification ==
  /\ pc["acpi"] = "idle"
  /\ RefillQuickPoll
  /\ Goto("acpi", "lock")
  /\ UNCHANGED <<bt, average, poll, lock, check, told>>

(* setPowerState of the SMBus controller, registered once start has run.    *)
Registered == pc["starter"] \notin {"lock", "check"}

SetPowerStateOn ==
  /\ pc["power"] \in {"idle", "asleep"} /\ Registered
  /\ RefillQuickPoll
  /\ Goto("power", "lock")
  /\ UNCHANGED <<bt, average, poll, lock, check, told>>

SetPowerStateOff ==
  /\ pc["power"] \in {"idle", "asleep"} /\ Registered
  /\ quick' = [quick EXCEPT !.count = 0]
  /\ Goto("power", "disable")
  /\ UNCHANGED <<bt, average, poll, lock, check, told>>

Sleep ==
  /\ pc["power"] = "disable"
  /\ poll' = [poll EXCEPT !.on = FALSE]
  /\ Goto("power", "asleep")
  /\ UNCHANGED <<bt, average, quick, lock, check, told>>

(* The handler is loaded, then its target; the SMBus controller has no      *)
(* other state than what it tells its clients.                              *)
AfterHandler == [acpi |-> "idle", power |-> "enable"]

LoadHandler(t) ==
  /\ pc[t] = "handler"
  /\ Goto(t, IF told.handler THEN "call" ELSE AfterHandler[t])
  /\ UNCHANGED <<bt, average, quick, poll, lock, check, told>>

CallHandler(t) ==
  /\ pc[t] = "call"
  /\ Goto(t, AfterHandler[t])
  /\ UNCHANGED <<bt, average, quick, poll, lock, check, told>>

Wake ==
  /\ pc["power"] = "enable"
  /\ poll' = [poll EXCEPT !.on = TRUE]
  /\ Goto("power", "idle")
  /\ UNCHANGED <<bt, average, quick, lock, check, told>>

(* subscribe: the target is stored before the handler.                      *)
FirstMutant == "handler"

First == "target"

Subscribe ==
  /\ pc["starter"] \in {"target", "handler"}
  /\ told' = IF pc["starter"] = "target" THEN [told EXCEPT ![First] = TRUE]
             ELSE [target |-> TRUE, handler |-> TRUE]
  /\ Goto("starter", IF pc["starter"] = "target" THEN "handler" ELSE "done")
  /\ UNCHANGED <<bt, average, quick, poll, lock, check>>

Next ==
  \/ \E t \in Threads : BeginCheck(t)
  \/ CheckDevices
  \/ Fire \/ AcpiNotification \/ SetPowerStateOn \/ SetPowerStateOff \/ Sleep \/ Wake
  \/ \E t \in {"acpi", "power"} : LoadHandler(t) \/ CallHandler(t)
  \/ Subscribe

Spec == Init /\ [][Next]_vars

-----------------------------------------------------------------------------
(* The types; the timer is set to one of the intervals the code means.      *)
TypeOK ==
  /\ bt \in [Batteries -> [connected : BOOLEAN, full : BOOLEAN, ac : BOOLEAN,
                          needUpdate : BOOLEAN, remaining : BOOLEAN]]
  /\ average \subseteq Averages
  /\ quick \in [count : 0 .. QuickPollCount, disabled : BOOLEAN]
  /\ poll \in [set : {0, 1} \cup 4 .. 60, on : BOOLEAN]
  /\ lock \in Threads \cup {Nobody}
  /\ check \in [pc : {"none", "static", "adapters", "real", "notify", "load", "swap",
                      "quick", "arm", "return"},
                i : 1 .. Count + 1, found : SUBSET Batteries, ext : BOOLEAN,
                full : BOOLEAN, load : 0 .. QuickPollCount]
  /\ pc \in [Threads -> {"idle", "lock", "check", "handler", "call", "enable", "disable",
                         "asleep", "target", "done"}]
  /\ told \in [target : BOOLEAN, handler : BOOLEAN]

(* A battery whose static data must be read again gets its poll: whenever   *)
(* nobody checks, the timer is set or its action waits for the lock.  The   *)
(* need is kept in the battery, the poll in the timer, and four threads     *)
(* cancel and set it around firmware calls.                                 *)
UpdateScheduled ==
  lock = Nobody /\ (\E b \in Batteries : bt[b].connected /\ bt[b].needUpdate)
    => poll.set > 0 \/ (\E t \in Threads : pc[t] = "lock")

(* Quick polling ends with sleep (setPowerState): a check that was on its   *)
(* way does not bring the old count back; only a notification or a wake-up  *)
(* starts it anew, from the full count.                                     *)
SleepStopsQuickPolls ==
  [][quick.count = 0 /\ quick'.count > 0 => quick'.count = QuickPollCount]_vars

(* A handler that is found is called with its target, though the two are    *)
(* stored and loaded one by one (subscribe).                                *)
CalledWithTarget ==
  \A t \in Threads : pc[t] = "call" => told.target

(* What a battery that is connected is known to have left is never zero     *)
(* between two checks: "Invalid or zero capacity is not allowed and will    *)
(* lead to boot failure" (ACPIBattery.cpp:333).                             *)
NoZeroCapacity ==
  lock = Nobody => \A b \in Batteries : bt[b].connected => bt[b].remaining
=============================================================================
