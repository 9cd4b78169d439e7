-------------------------- MODULE SmcBattery_proofs --------------------------
(***************************************************************************)
(* Proofs about SmcBattery for any number of batteries, any poll count and *)
(* any elapsed times, whether firmware methods fail or not.                *)
(***************************************************************************)
EXTENDS SmcBattery, TLAPS

Battery == [connected : BOOLEAN, full : BOOLEAN, ac : BOOLEAN,
            needUpdate : BOOLEAN, remaining : BOOLEAN]

CheckLabels == {"none", "static", "adapters", "real", "notify", "load", "swap",
                "quick", "arm", "return"}

CheckStates ==
  [pc : CheckLabels, i : 1 .. Count + 1, found : SUBSET Batteries, ext : BOOLEAN,
   full : BOOLEAN, load : 0 .. QuickPollCount]

(* The index is that of a battery while the loops run.                     *)
Indexed ==
  /\ CheckAt("static") \/ CheckAt("real") => check.i \in Batteries
  /\ CheckAt("adapters") => check.i = 1

(* mainLock is held by the thread whose check is under way.                *)
Locked ==
  /\ (lock = Nobody) = CheckAt("none")
  /\ lock # Nobody => pc[lock] = "check"

Needs(b) == bt[b].connected /\ bt[b].needUpdate

(* The poll will come: it is set, or a thread waits to check.              *)
PollComes == poll.set > 0 \/ \E t \in Threads : pc[t] = "lock"

(* How the need of an update travels through checkDevices: the first loop  *)
(* leaves no battery in need, the second keeps `full` only while none is,  *)
(* and without `full` there will be a poll.                                *)
NeedFlow ==
  /\ CheckAt("static") => \A b \in Batteries : b < check.i => ~Needs(b)
  /\ CheckAt("adapters") => \A b \in Batteries : ~Needs(b)
  /\ check.pc \in {"real", "notify"} /\ check.full =>
       \A b \in Batteries : ~Needs(b)
  /\ check.pc \in {"return", "none"} /\ (\E b \in Batteries : Needs(b)) =>
       PollComes

(* A decrement starts from a count that is not zero.                       *)
Counting == CheckAt("swap") => check.load > 0

HandlerTold ==
  /\ told.handler => told.target
  /\ \A t \in Threads : pc[t] = "call" => told.handler

IInv == TypeOK /\ Indexed /\ Locked /\ NeedFlow /\ Counting /\ HandlerTold

-----------------------------------------------------------------------------
(* The invariant holds at first, and every action keeps it.                *)

LEMMA InitOK == ASSUME BatteryAssumption, Init PROVE IInv
<1> USE DEF BatteryAssumption, Init, NoInfo, NoCheck, Batteries, CheckAt
<1>1. TypeOK
  <2>1. NoInfo \in Battery /\ bt \in [Batteries -> Battery]
    BY DEF Battery
  <2>2. quick \in [count : 0 .. QuickPollCount, disabled : BOOLEAN]
    OBVIOUS
  <2>3. poll \in [set : {0, 1} \cup 4 .. 60, on : BOOLEAN]
    OBVIOUS
  <2>4. check \in CheckStates
    BY DEF CheckStates, CheckLabels
  <2>5. /\ pc \in [Threads -> {"idle", "lock", "check", "handler", "call", "enable",
                              "disable", "asleep", "target", "done"}]
        /\ told \in [target : BOOLEAN, handler : BOOLEAN]
        /\ average \subseteq Averages /\ lock \in Threads \cup {Nobody}
    OBVIOUS
  <2> QED
    BY <2>1, <2>2, <2>3, <2>4, <2>5 DEF TypeOK, Battery, CheckStates, CheckLabels
<1>2. Indexed /\ Locked /\ NeedFlow /\ Counting /\ HandlerTold
  BY DEF Indexed, Locked, NeedFlow, Needs, Counting, HandlerTold, Threads
<1> QED
  BY <1>1, <1>2 DEF IInv

(* The thread that waited takes the lock, and only then the timer is off. *)
LEMMA BeginCheckKeeps ==
  ASSUME BatteryAssumption, IInv, NEW t \in Threads, BeginCheck(t)
  PROVE  IInv'
<1> USE DEF IInv, CheckAt, Goto
<1>1. TypeOK'
  <2>1. poll' \in [set : {0, 1} \cup 4 .. 60, on : BOOLEAN]
    BY DEF BeginCheck, TypeOK
  <2>2. check' \in CheckStates
    <3>1. NoCheck \in CheckStates
      BY DEF NoCheck, CheckStates, CheckLabels, BatteryAssumption
    <3>2. check' = [NoCheck EXCEPT !.pc = "static"]
      BY DEF BeginCheck
    <3> HIDE DEF IInv, NoCheck
    <3> QED
      BY <3>1, <3>2 DEF CheckStates, CheckLabels
  <2>3. pc' \in [Threads -> {"idle", "lock", "check", "handler", "call", "enable",
                            "disable", "asleep", "target", "done"}]
    BY DEF BeginCheck, TypeOK
  <2> QED
    BY <2>1, <2>2, <2>3 DEF BeginCheck, TypeOK, CheckStates, CheckLabels
<1>2. Indexed'
  BY DEF BeginCheck, NoCheck, TypeOK, Indexed, Batteries, BatteryAssumption
<1>3. Locked'
  BY DEF BeginCheck, NoCheck, TypeOK, Locked, Threads, Nobody
<1>4. NeedFlow'
  BY DEF BeginCheck, NoCheck, TypeOK, Locked, NeedFlow, Needs, PollComes, Indexed, Batteries,
         Threads, Nobody, BatteryAssumption
<1>5. Counting'
  BY DEF BeginCheck, NoCheck, TypeOK, Counting, BatteryAssumption
<1>6. HandlerTold'
  BY DEF BeginCheck, NoCheck, TypeOK, HandlerTold, Threads
<1> QED
  BY <1>1, <1>2, <1>3, <1>4, <1>5, <1>6

(* A battery that was just asked needs no update.                         *)
LEMMA UpdateStaticStatusKeeps ==
  ASSUME BatteryAssumption, IInv, UpdateStaticStatus
  PROVE  IInv'
<1> USE DEF IInv, CheckAt
<1> DEFINE b == check.i
           Advanced ==
             /\ check'.pc = IF b = Count THEN "adapters" ELSE "static"
             /\ check'.i = IF b = Count THEN 1 ELSE b + 1
           Replaced ==
             /\ bt' \in [Batteries -> Battery]
             /\ ~(bt'[b].connected /\ bt'[b].needUpdate)
             /\ \A c \in Batteries \ {b} : bt'[c] = bt[c]
           Loop(found) ==
             [check EXCEPT !.found = found,
                !.pc = IF b = Count THEN "adapters" ELSE check.pc,
                !.i = IF b = Count THEN 1 ELSE b + 1]
<1>0. check.pc = "static"
  BY DEF UpdateStaticStatus
<1>1. b \in Batteries /\ b \in Nat /\ Count \in Nat
  BY <1>0 DEF Indexed, Batteries, BatteryAssumption
<1>2. ASSUME NEW present \in BOOLEAN, NEW info \in Static(b, present)
      PROVE  info \in Battery /\ ~(info.connected /\ info.needUpdate)
  <2>1. bt[b] \in Battery /\ NoInfo \in Battery
    BY <1>1 DEF TypeOK, Battery, NoInfo
  <2>2. CASE info = bt[b] /\ present = bt[b].connected /\ ~bt[b].needUpdate
    BY <2>1, <2>2
  <2>3. CASE info = NoInfo
    BY <2>1, <2>3 DEF NoInfo
  <2>4. ASSUME NEW answers \in {TRUE, ~AcpiFails},
               info = [NoInfo EXCEPT !.connected = answers]
        PROVE  info \in Battery /\ ~info.needUpdate
    BY <2>4 DEF NoInfo, Battery, BatteryAssumption
  <2> QED
    BY <2>2, <2>3, <2>4, <2>1 DEF Static
<1>3. Replaced
  <2>1. ASSUME NEW info \in Battery, bt' = [bt EXCEPT ![b] = info],
               ~(info.connected /\ info.needUpdate)
        PROVE  Replaced
    BY <1>1, <2>1 DEF TypeOK, Battery
  <2>2. ASSUME bt' = [bt EXCEPT ![b].connected = FALSE, ![b].ac = FALSE]
        PROVE  Replaced
    <3>1. bt[b] \in Battery
      BY <1>1 DEF TypeOK, Battery
    <3>2. [bt[b] EXCEPT !.connected = FALSE, !.ac = FALSE] \in Battery
      BY <3>1 DEF Battery
    <3>3. bt' = [bt EXCEPT ![b] = [bt[b] EXCEPT !.connected = FALSE, !.ac = FALSE]]
      BY <1>1, <2>2 DEF TypeOK
    <3>4. ~[bt[b] EXCEPT !.connected = FALSE, !.ac = FALSE].connected
      BY <3>1 DEF Battery
    <3> QED
      BY <2>1, <3>2, <3>3, <3>4
  <2> QED
    BY <1>2, <2>1, <2>2 DEF UpdateStaticStatus
<1>4. /\ check' \in CheckStates
      /\ Advanced
      /\ average' \subseteq Averages
  <2>1. check \in CheckStates
    BY DEF TypeOK, CheckStates, CheckLabels
  <2>2. (IF b = Count THEN 1 ELSE b + 1) \in 1 .. Count + 1
    BY <1>1 DEF Batteries
  <2>3. ASSUME NEW found \in SUBSET Batteries, check' = Loop(found)
        PROVE  check' \in CheckStates /\ Advanced
    BY <1>0, <1>1, <2>1, <2>2, <2>3 DEF CheckStates, CheckLabels
  <2>4. check.found \in SUBSET Batteries
    BY DEF TypeOK
  <2>5. \E found \in SUBSET Batteries : check' = Loop(found)
    <3>1. ASSUME NEW present \in BOOLEAN,
                 check' = [check EXCEPT
                   !.found = IF present THEN @ \cup {b} ELSE @,
                   !.pc = IF b = Count THEN "adapters" ELSE @,
                   !.i = IF b = Count THEN 1 ELSE b + 1]
          PROVE  \E found \in SUBSET Batteries : check' = Loop(found)
      BY <1>1, <2>1, <2>4, <3>1 DEF CheckStates
    <3>2. ASSUME check' = [check EXCEPT
                   !.pc = IF b = Count THEN "adapters" ELSE @,
                   !.i = IF b = Count THEN 1 ELSE b + 1]
          PROVE  \E found \in SUBSET Batteries : check' = Loop(found)
      BY <2>1, <2>4, <3>2 DEF CheckStates
    <3> QED
      BY <3>1, <3>2 DEF UpdateStaticStatus
  <2>6. average' \subseteq Averages
    <3>1. average' = average \/ (b \in Averages /\ average' = average \cup {b})
      BY DEF UpdateStaticStatus
    <3> QED
      BY <3>1 DEF TypeOK
  <2> QED
    BY <2>3, <2>5, <2>6
<1>5. quick' = [quick EXCEPT !.disabled = @ /\ b \in average']
      /\ poll' = poll /\ lock' = lock /\ pc' = pc /\ told' = told
  BY DEF UpdateStaticStatus
<1> HIDE DEF b
<1>6. TypeOK'
  <2>1. quick' \in [count : 0 .. QuickPollCount, disabled : BOOLEAN]
    BY <1>5 DEF TypeOK
  <2> QED
    BY <1>3, <1>4, <1>5, <2>1 DEF TypeOK, Battery, CheckStates, CheckLabels
<1>7. Indexed'
  BY <1>0, <1>1, <1>4 DEF Indexed, Batteries
<1>8. Locked' /\ Counting' /\ HandlerTold'
  BY <1>0, <1>1, <1>4, <1>5 DEF Locked, Counting, HandlerTold
<1>9. NeedFlow'
  <2>1. \A c \in Batteries : c < b => ~Needs(c)
    BY <1>0 DEF NeedFlow, b
  <2>2. \A c \in Batteries : c <= b => ~Needs(c)'
    BY <1>1, <1>3, <2>1 DEF Needs, Batteries
  <2>3. CASE b = Count
    BY <1>4, <2>2, <2>3 DEF NeedFlow, Batteries
  <2>4. CASE b # Count
    BY <1>0, <1>1, <1>4, <2>2, <2>4 DEF NeedFlow, Batteries
  <2> QED
    BY <2>3, <2>4
<1> QED
  BY <1>6, <1>7, <1>8, <1>9

(* Without batteries there is a poll.                                     *)
LEMMA UpdateAdaptersKeeps ==
  ASSUME BatteryAssumption, IInv, UpdateAdapters
  PROVE  IInv'
<1> USE DEF IInv, CheckAt, Goto
<1>1. TypeOK'
  BY DEF UpdateAdapters, TypeOK, Indexed, Locked, Batteries, Threads, CheckLabels,
         BatteryAssumption
<1>2. Indexed'
  <2>1. check.i = 1
    BY DEF UpdateAdapters, Indexed
  <2> QED
    BY <2>1 DEF UpdateAdapters, TypeOK, Indexed, Batteries, BatteryAssumption
<1>3. Locked'
  BY DEF UpdateAdapters, TypeOK, Locked, Threads, Nobody
<1>4. NeedFlow'
  BY DEF UpdateAdapters, TypeOK, Locked, NeedFlow, Needs, PollComes, Indexed, Batteries,
         Threads, Nobody, BatteryAssumption
<1>5. Counting'
  BY DEF UpdateAdapters, TypeOK, Counting, BatteryAssumption
<1>6. HandlerTold'
  BY DEF UpdateAdapters, TypeOK, HandlerTold, Threads
<1> QED
  BY <1>1, <1>2, <1>3, <1>4, <1>5, <1>6

(* A battery that turns out to need an update takes `full` back.          *)
LEMMA UpdateRealTimeStatusKeeps ==
  ASSUME BatteryAssumption, IInv, UpdateRealTimeStatus
  PROVE  IInv'
<1> USE DEF IInv, CheckAt
<1> DEFINE b == check.i
           Loop(full) == [check EXCEPT !.full = full, !.i = b + 1,
                            !.pc = IF b = Count THEN "notify" ELSE check.pc]
           Loops(full, info) ==
             /\ check' = Loop(full)
             /\ bt' = [bt EXCEPT ![b] = info]
             /\ full => /\ check.full
                        /\ info = bt[b] \/ ~(info.connected /\ info.needUpdate)
<1>1. /\ b \in Batteries /\ b \in Nat /\ Count \in Nat /\ check.pc = "real"
      /\ bt[b] \in Battery
  BY DEF UpdateRealTimeStatus, Indexed, Batteries, BatteryAssumption, TypeOK, Battery
<1>2. \E full \in BOOLEAN, info \in Battery : Loops(full, info)
  <2>1. bt = [bt EXCEPT ![b] = bt[b]]
    BY <1>1 DEF TypeOK
  <2>2. CASE ~Asked(b) /\ check' = Loop(check.full) /\ UNCHANGED bt
    BY <1>1, <2>1, <2>2 DEF TypeOK
  <2>3. ASSUME NEW state \in {"notCharging", "discharging", "charging", "bogus"},
               Asked(b), bt' = [bt EXCEPT ![b] = RealTime(@, state)],
               check' = Loop(NoMorePoll(bt'[b]))
        PROVE  \E full \in BOOLEAN, info \in Battery : Loops(full, info)
    <3>1. RealTime(bt[b], state) \in Battery
      BY <1>1 DEF RealTime, Battery
    <3>2. bt' = [bt EXCEPT ![b] = RealTime(bt[b], state)]
          /\ bt'[b] = RealTime(bt[b], state)
      BY <1>1, <2>3 DEF TypeOK
    <3>3. NoMorePoll(bt'[b]) \in BOOLEAN
          /\ (NoMorePoll(bt'[b]) => ~bt'[b].needUpdate)
      BY <3>1, <3>2 DEF NoMorePoll, Battery
    <3>4. check.full
      BY <2>3 DEF Asked
    <3> QED
      BY <2>3, <3>1, <3>2, <3>3, <3>4
  <2>4. CASE check' = Loop(FALSE) /\ UNCHANGED bt
    BY <1>1, <2>1, <2>4
  <2>5. CASE check' = Loop(FALSE) /\ bt' = [bt EXCEPT ![b].connected = FALSE]
    <3>1. [bt[b] EXCEPT !.connected = FALSE] \in Battery
      BY <1>1 DEF Battery
    <3> QED
      BY <2>5, <3>1
  <2> QED
    BY <2>2, <2>3, <2>4, <2>5 DEF UpdateRealTimeStatus
<1>3. PICK full \in BOOLEAN, info \in Battery : Loops(full, info)
  BY <1>2
<1>4. /\ check' \in CheckStates /\ check'.full = full
      /\ check'.pc = IF b = Count THEN "notify" ELSE "real"
      /\ check'.i = b + 1
  <2>1. check \in CheckStates
    BY DEF TypeOK, CheckStates, CheckLabels
  <2>2. b + 1 \in 1 .. Count + 1
    BY <1>1 DEF Batteries
  <2> QED
    BY <1>1, <1>3, <2>1, <2>2 DEF CheckStates, CheckLabels
<1>5. /\ bt' \in [Batteries -> Battery] /\ bt'[b] = info
      /\ \A c \in Batteries \ {b} : bt'[c] = bt[c]
  BY <1>1, <1>3 DEF TypeOK, Battery
<1>6. /\ average' = average /\ quick' = quick /\ poll' = poll
      /\ lock' = lock /\ pc' = pc /\ told' = told
  BY DEF UpdateRealTimeStatus
<1> HIDE DEF b
<1>7. TypeOK'
  BY <1>4, <1>5, <1>6 DEF TypeOK, Battery, CheckStates, CheckLabels
<1>8. Indexed'
  BY <1>1, <1>4 DEF Indexed, Batteries
<1>9. Locked' /\ Counting' /\ HandlerTold'
  BY <1>1, <1>4, <1>6 DEF Locked, Counting, HandlerTold
<1>10. NeedFlow'
  <2>1. full => \A c \in Batteries : ~Needs(c)'
    BY <1>1, <1>3, <1>5 DEF NeedFlow, Needs
  <2> QED
    BY <1>4, <2>1 DEF NeedFlow
<1> QED
  BY <1>7, <1>8, <1>9, <1>10

(* Only when the batteries are full is there no poll.                     *)
LEMMA NotifyKeeps ==
  ASSUME BatteryAssumption, IInv, Notify
  PROVE  IInv'
<1> USE DEF IInv, CheckAt, Goto
<1>1. TypeOK'
  BY DEF Notify, TypeOK, Indexed, Locked, Batteries, Threads, CheckLabels,
         BatteryAssumption
<1>2. Indexed'
  BY DEF Notify, TypeOK, Indexed, Batteries, BatteryAssumption
<1>3. Locked'
  BY DEF Notify, TypeOK, Locked, Threads, Nobody
<1>4. NeedFlow'
  BY DEF Notify, TypeOK, Locked, NeedFlow, Needs, PollComes, Indexed, Batteries,
         Threads, Nobody, BatteryAssumption
<1>5. Counting'
  BY DEF Notify, TypeOK, Counting, BatteryAssumption
<1>6. HandlerTold'
  BY DEF Notify, TypeOK, HandlerTold, Threads
<1> QED
  BY <1>1, <1>2, <1>3, <1>4, <1>5, <1>6

(* The count is looked at.                                                *)
LEMMA LoadQuickPollKeeps ==
  ASSUME BatteryAssumption, IInv, LoadQuickPoll
  PROVE  IInv'
<1> USE DEF IInv, CheckAt, Goto
<1>1. TypeOK'
  BY DEF LoadQuickPoll, TypeOK, Indexed, Locked, Batteries, Threads, CheckLabels,
         BatteryAssumption
<1>2. Indexed'
  BY DEF LoadQuickPoll, TypeOK, Indexed, Batteries, BatteryAssumption
<1>3. Locked'
  BY DEF LoadQuickPoll, TypeOK, Locked, Threads, Nobody
<1>4. NeedFlow'
  BY DEF LoadQuickPoll, TypeOK, Locked, NeedFlow, Needs, PollComes, Indexed, Batteries,
         Threads, Nobody, BatteryAssumption
<1>5. Counting'
  BY DEF LoadQuickPoll, TypeOK, Counting, BatteryAssumption
<1>6. HandlerTold'
  BY DEF LoadQuickPoll, TypeOK, HandlerTold, Threads
<1> QED
  BY <1>1, <1>2, <1>3, <1>4, <1>5, <1>6

(* The count is decremented when it is still what it was.                 *)
LEMMA SwapQuickPollKeeps ==
  ASSUME BatteryAssumption, IInv, SwapQuickPoll
  PROVE  IInv'
<1> USE DEF IInv, CheckAt, Goto
<1>1. TypeOK'
  <2>1. check.load \in 0 .. QuickPollCount /\ quick.count \in 0 .. QuickPollCount
    BY DEF TypeOK
  <2>2. check.load - 1 \in 0 .. QuickPollCount
    BY <2>1 DEF SwapQuickPoll, Counting, BatteryAssumption
  <2>3. quick' \in [count : 0 .. QuickPollCount, disabled : BOOLEAN]
    BY <2>2 DEF SwapQuickPoll, TypeOK
  <2>4. check' \in CheckStates
    BY DEF SwapQuickPoll, TypeOK, CheckStates, CheckLabels
  <2> QED
    BY <2>3, <2>4 DEF SwapQuickPoll, TypeOK, CheckStates, CheckLabels
<1>2. Indexed'
  BY DEF SwapQuickPoll, Swaps, TypeOK, Indexed, Batteries, BatteryAssumption
<1>3. Locked'
  BY DEF SwapQuickPoll, Swaps, TypeOK, Locked, Threads, Nobody
<1>4. NeedFlow'
  BY DEF SwapQuickPoll, Swaps, TypeOK, Locked, NeedFlow, Needs, PollComes, Indexed, Batteries,
         Threads, Nobody, BatteryAssumption
<1>5. Counting'
  BY DEF SwapQuickPoll, Swaps, TypeOK, Counting, BatteryAssumption
<1>6. HandlerTold'
  BY DEF SwapQuickPoll, Swaps, TypeOK, HandlerTold, Threads
<1> QED
  BY <1>1, <1>2, <1>3, <1>4, <1>5, <1>6

(* The poll is set to one second or to what is left of a minute.          *)
LEMMA ArmPollKeeps ==
  ASSUME BatteryAssumption, IInv, ArmPoll
  PROVE  IInv'
<1> USE DEF IInv, CheckAt, Goto
<1>1. TypeOK'
  <2>1. ASSUME NEW e \in Elapsed PROVE Interval(e) \in 4 .. 60
    BY <2>1 DEF Interval, BatteryAssumption
  <2>2. poll' \in [set : {0, 1} \cup 4 .. 60, on : BOOLEAN]
    <3>1. PICK n \in {0, 1} \cup 4 .. 60 : poll' = [poll EXCEPT !.set = n]
      BY <2>1 DEF ArmPoll
    <3> QED
      BY <3>1 DEF TypeOK
  <2>3. check' \in CheckStates
    BY DEF ArmPoll, TypeOK, CheckStates, CheckLabels
  <2> QED
    BY <2>2, <2>3 DEF ArmPoll, TypeOK, CheckStates, CheckLabels
<1>2. Indexed'
  BY DEF ArmPoll, Interval, TypeOK, Indexed, Batteries, BatteryAssumption
<1>3. Locked'
  BY DEF ArmPoll, Interval, TypeOK, Locked, Threads, Nobody
<1>4. NeedFlow'
  BY DEF ArmPoll, Interval, TypeOK, Locked, NeedFlow, Needs, PollComes, Indexed, Batteries,
         Threads, Nobody, BatteryAssumption
<1>5. Counting'
  BY DEF ArmPoll, Interval, TypeOK, Counting, BatteryAssumption
<1>6. HandlerTold'
  BY DEF ArmPoll, Interval, TypeOK, HandlerTold, Threads
<1> QED
  BY <1>1, <1>2, <1>3, <1>4, <1>5, <1>6

(* The lock is given back.                                                *)
LEMMA EndCheckKeeps ==
  ASSUME BatteryAssumption, IInv, EndCheck
  PROVE  IInv'
<1> USE DEF IInv, CheckAt, Goto
<1>1. TypeOK'
  BY DEF EndCheck, AfterCheck, NoCheck, TypeOK, Indexed, Locked, Batteries, Threads, CheckLabels,
         BatteryAssumption
<1>2. Indexed'
  BY DEF EndCheck, AfterCheck, NoCheck, TypeOK, Indexed, Batteries, BatteryAssumption
<1>3. Locked'
  BY DEF EndCheck, AfterCheck, NoCheck, TypeOK, Locked, Threads, Nobody
<1>4. NeedFlow'
  BY DEF EndCheck, AfterCheck, NoCheck, TypeOK, Locked, NeedFlow, Needs, PollComes, Indexed, Batteries,
         Threads, Nobody, BatteryAssumption
<1>5. Counting'
  BY DEF EndCheck, AfterCheck, NoCheck, TypeOK, Counting, BatteryAssumption
<1>6. HandlerTold'
  BY DEF EndCheck, AfterCheck, NoCheck, TypeOK, HandlerTold, Threads
<1> QED
  BY <1>1, <1>2, <1>3, <1>4, <1>5, <1>6

(* The timer has come, and its thread waits for the lock.                 *)
LEMMA FireKeeps ==
  ASSUME BatteryAssumption, IInv, Fire
  PROVE  IInv'
<1> USE DEF IInv, CheckAt, Goto
<1>1. TypeOK'
  BY DEF Fire, TypeOK, Indexed, Locked, Batteries, Threads, CheckLabels,
         BatteryAssumption
<1>2. Indexed'
  BY DEF Fire, TypeOK, Indexed, Batteries, BatteryAssumption
<1>3. Locked'
  BY DEF Fire, TypeOK, Locked, Threads, Nobody
<1>4. NeedFlow'
  BY DEF Fire, TypeOK, Locked, NeedFlow, Needs, PollComes, Indexed, Batteries,
         Threads, Nobody, BatteryAssumption
<1>5. Counting'
  BY DEF Fire, TypeOK, Counting, BatteryAssumption
<1>6. HandlerTold'
  BY DEF Fire, TypeOK, HandlerTold, Threads
<1> QED
  BY <1>1, <1>2, <1>3, <1>4, <1>5, <1>6

(* A notification waits for the lock.                                     *)
LEMMA AcpiNotificationKeeps ==
  ASSUME BatteryAssumption, IInv, AcpiNotification
  PROVE  IInv'
<1> USE DEF IInv, CheckAt, Goto
<1>1. TypeOK'
  BY DEF AcpiNotification, RefillQuickPoll, TypeOK, Indexed, Locked, Batteries, Threads, CheckLabels,
         BatteryAssumption
<1>2. Indexed'
  BY DEF AcpiNotification, RefillQuickPoll, TypeOK, Indexed, Batteries, BatteryAssumption
<1>3. Locked'
  BY DEF AcpiNotification, RefillQuickPoll, TypeOK, Locked, Threads, Nobody
<1>4. NeedFlow'
  BY DEF AcpiNotification, RefillQuickPoll, TypeOK, Locked, NeedFlow, Needs, PollComes, Indexed, Batteries,
         Threads, Nobody, BatteryAssumption
<1>5. Counting'
  BY DEF AcpiNotification, RefillQuickPoll, TypeOK, Counting, BatteryAssumption
<1>6. HandlerTold'
  BY DEF AcpiNotification, RefillQuickPoll, TypeOK, HandlerTold, Threads
<1> QED
  BY <1>1, <1>2, <1>3, <1>4, <1>5, <1>6

(* So does a wake-up.                                                     *)
LEMMA SetPowerStateOnKeeps ==
  ASSUME BatteryAssumption, IInv, SetPowerStateOn
  PROVE  IInv'
<1> USE DEF IInv, CheckAt, Goto
<1>1. TypeOK'
  BY DEF SetPowerStateOn, RefillQuickPoll, Registered, TypeOK, Indexed, Locked, Batteries, Threads, CheckLabels,
         BatteryAssumption
<1>2. Indexed'
  BY DEF SetPowerStateOn, RefillQuickPoll, Registered, TypeOK, Indexed, Batteries, BatteryAssumption
<1>3. Locked'
  BY DEF SetPowerStateOn, RefillQuickPoll, Registered, TypeOK, Locked, Threads, Nobody
<1>4. NeedFlow'
  BY DEF SetPowerStateOn, RefillQuickPoll, Registered, TypeOK, Locked, NeedFlow, Needs, PollComes, Indexed, Batteries,
         Threads, Nobody, BatteryAssumption
<1>5. Counting'
  BY DEF SetPowerStateOn, RefillQuickPoll, Registered, TypeOK, Counting, BatteryAssumption
<1>6. HandlerTold'
  BY DEF SetPowerStateOn, RefillQuickPoll, Registered, TypeOK, HandlerTold, Threads
<1> QED
  BY <1>1, <1>2, <1>3, <1>4, <1>5, <1>6

(* Sleep ends quick polling.                                              *)
LEMMA SetPowerStateOffKeeps ==
  ASSUME BatteryAssumption, IInv, SetPowerStateOff
  PROVE  IInv'
<1> USE DEF IInv, CheckAt, Goto
<1>1. TypeOK'
  BY DEF SetPowerStateOff, Registered, TypeOK, Indexed, Locked, Batteries, Threads, CheckLabels,
         BatteryAssumption
<1>2. Indexed'
  BY DEF SetPowerStateOff, Registered, TypeOK, Indexed, Batteries, BatteryAssumption
<1>3. Locked'
  BY DEF SetPowerStateOff, Registered, TypeOK, Locked, Threads, Nobody
<1>4. NeedFlow'
  BY DEF SetPowerStateOff, Registered, TypeOK, Locked, NeedFlow, Needs, PollComes, Indexed, Batteries,
         Threads, Nobody, BatteryAssumption
<1>5. Counting'
  BY DEF SetPowerStateOff, Registered, TypeOK, Counting, BatteryAssumption
<1>6. HandlerTold'
  BY DEF SetPowerStateOff, Registered, TypeOK, HandlerTold, Threads
<1> QED
  BY <1>1, <1>2, <1>3, <1>4, <1>5, <1>6

(* Sleep disables the timer.                                              *)
LEMMA SleepKeeps ==
  ASSUME BatteryAssumption, IInv, Sleep
  PROVE  IInv'
<1> USE DEF IInv, CheckAt, Goto
<1>1. TypeOK'
  <2>1. poll' \in [set : {0, 1} \cup 4 .. 60, on : BOOLEAN]
    BY DEF Sleep, TypeOK
  <2>2. pc' \in [Threads -> {"idle", "lock", "check", "handler", "call", "enable",
                            "disable", "asleep", "target", "done"}]
    BY DEF Sleep, TypeOK
  <2> QED
    BY <2>1, <2>2 DEF Sleep, TypeOK
<1>2. Indexed'
  BY DEF Sleep, TypeOK, Indexed, Batteries, BatteryAssumption
<1>3. Locked'
  BY DEF Sleep, TypeOK, Locked, Threads, Nobody
<1>4. NeedFlow'
  BY DEF Sleep, TypeOK, Locked, NeedFlow, Needs, PollComes, Indexed, Batteries,
         Threads, Nobody, BatteryAssumption
<1>5. Counting'
  BY DEF Sleep, TypeOK, Counting, BatteryAssumption
<1>6. HandlerTold'
  BY DEF Sleep, TypeOK, HandlerTold, Threads
<1> QED
  BY <1>1, <1>2, <1>3, <1>4, <1>5, <1>6

(* Waking enables it.                                                     *)
LEMMA WakeKeeps ==
  ASSUME BatteryAssumption, IInv, Wake
  PROVE  IInv'
<1> USE DEF IInv, CheckAt, Goto
<1>1. TypeOK'
  <2>1. poll' \in [set : {0, 1} \cup 4 .. 60, on : BOOLEAN]
    BY DEF Wake, TypeOK
  <2>2. pc' \in [Threads -> {"idle", "lock", "check", "handler", "call", "enable",
                            "disable", "asleep", "target", "done"}]
    BY DEF Wake, TypeOK
  <2> QED
    BY <2>1, <2>2 DEF Wake, TypeOK
<1>2. Indexed'
  BY DEF Wake, TypeOK, Indexed, Batteries, BatteryAssumption
<1>3. Locked'
  BY DEF Wake, TypeOK, Locked, Threads, Nobody
<1>4. NeedFlow'
  BY DEF Wake, TypeOK, Locked, NeedFlow, Needs, PollComes, Indexed, Batteries,
         Threads, Nobody, BatteryAssumption
<1>5. Counting'
  BY DEF Wake, TypeOK, Counting, BatteryAssumption
<1>6. HandlerTold'
  BY DEF Wake, TypeOK, HandlerTold, Threads
<1> QED
  BY <1>1, <1>2, <1>3, <1>4, <1>5, <1>6

(* A handler is called when it was found.                                 *)
LEMMA LoadHandlerKeeps ==
  ASSUME BatteryAssumption, IInv, NEW t \in {"acpi", "power"}, LoadHandler(t)
  PROVE  IInv'
<1> USE DEF IInv, CheckAt, Goto
<1>1. TypeOK'
  BY DEF LoadHandler, AfterHandler, TypeOK, Indexed, Locked, Batteries, Threads, CheckLabels,
         BatteryAssumption
<1>2. Indexed'
  BY DEF LoadHandler, AfterHandler, TypeOK, Indexed, Batteries, BatteryAssumption
<1>3. Locked'
  BY DEF LoadHandler, AfterHandler, TypeOK, Locked, Threads, Nobody
<1>4. NeedFlow'
  BY DEF LoadHandler, AfterHandler, TypeOK, Locked, NeedFlow, Needs, PollComes, Indexed, Batteries,
         Threads, Nobody, BatteryAssumption
<1>5. Counting'
  BY DEF LoadHandler, AfterHandler, TypeOK, Counting, BatteryAssumption
<1>6. HandlerTold'
  BY DEF LoadHandler, AfterHandler, TypeOK, HandlerTold, Threads
<1> QED
  BY <1>1, <1>2, <1>3, <1>4, <1>5, <1>6

(* The call is over.                                                      *)
LEMMA CallHandlerKeeps ==
  ASSUME BatteryAssumption, IInv, NEW t \in {"acpi", "power"}, CallHandler(t)
  PROVE  IInv'
<1> USE DEF IInv, CheckAt, Goto
<1>1. TypeOK'
  BY DEF CallHandler, AfterHandler, TypeOK, Indexed, Locked, Batteries, Threads, CheckLabels,
         BatteryAssumption
<1>2. Indexed'
  BY DEF CallHandler, AfterHandler, TypeOK, Indexed, Batteries, BatteryAssumption
<1>3. Locked'
  BY DEF CallHandler, AfterHandler, TypeOK, Locked, Threads, Nobody
<1>4. NeedFlow'
  BY DEF CallHandler, AfterHandler, TypeOK, Locked, NeedFlow, Needs, PollComes, Indexed, Batteries,
         Threads, Nobody, BatteryAssumption
<1>5. Counting'
  BY DEF CallHandler, AfterHandler, TypeOK, Counting, BatteryAssumption
<1>6. HandlerTold'
  BY DEF CallHandler, AfterHandler, TypeOK, HandlerTold, Threads
<1> QED
  BY <1>1, <1>2, <1>3, <1>4, <1>5, <1>6

(* The target is there before the handler.                                *)
LEMMA SubscribeKeeps ==
  ASSUME BatteryAssumption, IInv, Subscribe
  PROVE  IInv'
<1> USE DEF IInv, CheckAt, Goto
<1>1. TypeOK'
  <2>1. told' \in [target : BOOLEAN, handler : BOOLEAN]
    BY DEF Subscribe, First, TypeOK
  <2>2. pc' \in [Threads -> {"idle", "lock", "check", "handler", "call", "enable",
                            "disable", "asleep", "target", "done"}]
    BY DEF Subscribe, TypeOK
  <2> QED
    BY <2>1, <2>2 DEF Subscribe, TypeOK
<1>2. Indexed'
  BY DEF Subscribe, First, TypeOK, Indexed, Batteries, BatteryAssumption
<1>3. Locked'
  BY DEF Subscribe, First, TypeOK, Locked, Threads, Nobody
<1>4. NeedFlow'
  BY DEF Subscribe, First, TypeOK, Locked, NeedFlow, Needs, PollComes, Indexed, Batteries,
         Threads, Nobody, BatteryAssumption
<1>5. Counting'
  BY DEF Subscribe, First, TypeOK, Counting, BatteryAssumption
<1>6. HandlerTold'
  BY DEF Subscribe, First, TypeOK, HandlerTold, Threads
<1> QED
  BY <1>1, <1>2, <1>3, <1>4, <1>5, <1>6

(* Sleep, notifications, the timer and the checks keep the invariant in    *)
(* every order, for every number of batteries.                             *)
THEOREM Invariant ==
  ASSUME BatteryAssumption PROVE Spec => []IInv
<1>1. Init => IInv
  BY InitOK
<1>2. IInv /\ [Next]_vars => IInv'
  <2> SUFFICES ASSUME IInv, [Next]_vars PROVE IInv'
    OBVIOUS
  <2>1. CASE UNCHANGED vars
    BY <2>1 DEF vars, IInv, TypeOK, Indexed, Locked, NeedFlow, Needs, PollComes,
                Counting, HandlerTold, CheckAt
  <2>2. CASE CheckDevices
    BY <2>2, UpdateStaticStatusKeeps, UpdateAdaptersKeeps,
       UpdateRealTimeStatusKeeps, NotifyKeeps, LoadQuickPollKeeps,
       SwapQuickPollKeeps, ArmPollKeeps, EndCheckKeeps DEF CheckDevices
  <2>3. CASE Next
    BY <2>2, <2>3, BeginCheckKeeps, FireKeeps, AcpiNotificationKeeps,
       SetPowerStateOnKeeps, SetPowerStateOffKeeps, SleepKeeps, WakeKeeps,
       LoadHandlerKeeps, CallHandlerKeeps, SubscribeKeeps DEF Next
  <2> QED
    BY <2>1, <2>3
<1> QED
  BY <1>1, <1>2, PTL DEF Spec

(* Every variable keeps its type; the poll timer is only ever set to the   *)
(* intervals the code means (checkDevices).                                *)
THEOREM TypeCorrect ==
  ASSUME BatteryAssumption PROVE Spec => []TypeOK
<1>1. IInv => TypeOK
  BY DEF IInv
<1> QED
  BY <1>1, Invariant, PTL

(* A battery whose static data must be read again gets its poll            *)
(* (checkDevices), in whatever order four threads cancel and set it.       *)
THEOREM NoUpdateForgotten ==
  ASSUME BatteryAssumption PROVE Spec => []UpdateScheduled
<1>1. IInv => UpdateScheduled
  BY DEF IInv, Locked, NeedFlow, Needs, PollComes, CheckAt, UpdateScheduled
<1> QED
  BY <1>1, Invariant, PTL

(* The handler is never called without its target (subscribe).             *)
THEOREM HandlerHasTarget ==
  ASSUME BatteryAssumption PROVE Spec => []CalledWithTarget
<1>1. IInv => CalledWithTarget
  BY DEF IInv, HandlerTold, CalledWithTarget
<1> QED
  BY <1>1, Invariant, PTL

(* A count that sleep has set to zero only starts again from the full one  *)
(* (setPowerState, decrementQuickPoll).                                    *)
THEOREM QuickPollsStop ==
  ASSUME BatteryAssumption PROVE Spec => SleepStopsQuickPolls
<1>1. ASSUME IInv, [Next]_vars, quick.count = 0, quick'.count > 0
      PROVE  quick'.count = QuickPollCount
  <2> USE <1>1
  <2>1. CASE SwapQuickPoll
    BY <2>1 DEF SwapQuickPoll, Swaps, IInv, TypeOK, Counting, CheckAt
  <2>2. CASE AcpiNotification \/ SetPowerStateOn
    BY <2>2 DEF AcpiNotification, SetPowerStateOn, RefillQuickPoll, IInv, TypeOK
  <2>3. CASE UpdateStaticStatus
    <3>1. quick' = [quick EXCEPT !.disabled = @ /\ check.i \in average']
      BY <2>3 DEF UpdateStaticStatus
    <3>2. quick'.count = quick.count
      BY <3>1 DEF IInv, TypeOK
    <3> QED
      BY <3>2
  <2>4. CASE SetPowerStateOff
    BY <2>4 DEF SetPowerStateOff, IInv, TypeOK
  <2>5. ASSUME UNCHANGED quick PROVE FALSE
    BY <2>5
  <2>6. CASE UNCHANGED vars
    BY <2>5, <2>6 DEF vars
  <2> QED
    BY <2>1, <2>2, <2>3, <2>4, <2>5, <2>6
       DEF Next, CheckDevices, BeginCheck, UpdateAdapters, UpdateRealTimeStatus,
           Notify, LoadQuickPoll, ArmPoll, EndCheck, Fire, Sleep, Wake,
           LoadHandler, CallHandler, Subscribe
<1>2. IInv /\ [Next]_vars =>
        [quick.count = 0 /\ quick'.count > 0 => quick'.count = QuickPollCount]_vars
  BY <1>1
<1> QED
  BY <1>2, Invariant, PTL DEF Spec, SleepStopsQuickPolls
=============================================================================
