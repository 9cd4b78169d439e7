---------------------------- MODULE SmcTimerKeys ----------------------------
(***************************************************************************)
(* The keys of the watchdog (kern_keys.cpp): OSWD and NATi, which count   *)
(* down in whole seconds while the watchdog they started runs in            *)
(* milliseconds, and NATJ, which starts a job with the countdown of NATi.   *)
(*                                                                          *)
(* The driver makes one access at a time, so that a post to the watchdog is *)
(* one step here; SmcWatchdog has the steps of a post.                      *)
(***************************************************************************)
EXTENDS Integers

CONSTANTS
  Second,       \* ticks of the clock in a second
  MaxSeconds,   \* bound: the longest countdown the driver writes
  MaxTime,      \* bound: the clock stops here
  Resets, Others, DoNothing   \* the jobs, as in SmcWatchdog

Timers == {"OSWD", "NATi"}
Jobs == Resets \cup Others

(* Assumed of the constants wherever the module is used.                    *)
TimerAssumption ==
  /\ Second \in Nat \ {0} /\ MaxSeconds \in Nat /\ MaxTime \in Nat \ {0}
  /\ DoNothing \notin Jobs

VARIABLES
  now,        \* getCurrentTimeNs, in ticks; never 0
  key,        \* OSWD, NATi: the seconds in data, and jobStartTime (0: none)
  watchdog    \* the job, when it is due (0: never), and who counts it down

vars == <<now, key, watchdog>>

NoJob == [job |-> DoNothing, due |-> 0, by |-> "OSWD"]

Init ==
  /\ now = 1
  /\ key = [k \in Timers |-> [data |-> 0, start |-> 0]]
  /\ watchdog = NoJob

Running == watchdog.job \notin Resets \/ watchdog.due # 0

Tick ==
  /\ now < MaxTime
  /\ now' = now + 1
  /\ UNCHANGED <<key, watchdog>>

-----------------------------------------------------------------------------
(* startCountdown: the key counts from now on, unless there is nothing to   *)
(* count.                                                                   *)
StartCountdown(seconds) ==
  [data |-> seconds, start |-> IF seconds > 0 THEN now ELSE 0]

Post(code, seconds, by) ==
  watchdog' = IF code = DoNothing THEN NoJob
              ELSE [job |-> code, due |-> now + seconds * Second, by |-> by]

(* What is left of a countdown, in whole seconds.                           *)
LeftMutant(k) ==
  LET left == k.data * Second - (now - k.start)
  IN IF left <= 0 THEN 0 ELSE (left + Second - 1) \div Second

Left(k) ==
  LET left == k.data * Second - (now - k.start)
  IN IF left <= 0 THEN 0 ELSE left \div Second

ReadTimer(t) ==
  /\ key' = [key EXCEPT ![t] = IF @.start = 0 THEN @ ELSE StartCountdown(Left(@))]
  /\ UNCHANGED <<now, watchdog>>

UpdateOSWD(seconds) ==
  /\ key' = [key EXCEPT !["OSWD"] = StartCountdown(seconds)]
  /\ \E reset \in Resets :
       Post(IF seconds > 0 THEN reset ELSE DoNothing, seconds, "OSWD")
  /\ UNCHANGED now

(* A new NATi is not counted before NATJ asks for it.                       *)
UpdateNATi(seconds) ==
  /\ key' = [key EXCEPT !["NATi"] = [data |-> seconds, start |-> 0]]
  /\ UNCHANGED <<now, watchdog>>

UpdateNATJ(code) ==
  /\ key' = [key EXCEPT !["NATi"] = StartCountdown(@.data)]
  /\ Post(code, key["NATi"].data, "NATi")
  /\ UNCHANGED now

(* The watchdog's action; a reset ends everything.                          *)
Fire ==
  /\ watchdog.due \in 1 .. now
  /\ watchdog' = IF watchdog.job \in Resets THEN [watchdog EXCEPT !.due = 0] ELSE NoJob
  /\ UNCHANGED <<now, key>>

-----------------------------------------------------------------------------
Next ==
  /\ Running
  /\ \/ Tick \/ Fire
     \/ \E t \in Timers : ReadTimer(t)
     \/ \E s \in 0 .. MaxSeconds : UpdateOSWD(s) \/ UpdateNATi(s)
     \/ \E code \in Jobs \cup {DoNothing} : UpdateNATJ(code)

Spec == Init /\ [][Next]_vars

-----------------------------------------------------------------------------
(* Every variable has its type.                                             *)
TypeOK ==
  /\ now \in 1 .. MaxTime
  /\ key \in [Timers -> [data : 0 .. MaxSeconds, start : 0 .. MaxTime]]
  /\ watchdog \in [job : Jobs \cup {DoNothing},
                   due : 0 .. MaxTime + MaxSeconds * Second, by : Timers]

(* A key never promises more time than the watchdog it started leaves: the  *)
(* countdown it shows is over when the job is due, or before, however often *)
(* it is read and restarted on the way (VirtualSMCValueTimer::readAccess).  *)
CountdownHonest ==
  LET k == key[watchdog.by]
  IN watchdog.due # 0 /\ k.start # 0 => k.start + k.data * Second <= watchdog.due
=============================================================================
