--------------------------- MODULE SmcSensorPoll ---------------------------
(***************************************************************************)
(* When the sensor plugins refresh their values: a timer does it, and       *)
(* reading a key makes the timer come sooner, once until it has come.       *)
(* SMCProcessor keeps its flag under counterLock, sets it only if the timer *)
(* was set, and lets the timer rest while nothing is read; SMCSuperIO keeps *)
(* its flag in an atomic, starts the timer again whatever the flag says,    *)
(* and does not look at what setTimeoutMS returns.  The values themselves   *)
(* are left out.                                                            *)
(***************************************************************************)
EXTENDS Naturals

CONSTANT Readers   \* threads that read keys

VARIABLES
  cpu,      \* SMCProcessor: the flag, the timer, what its action does
  sio,      \* SMCSuperIO: the same, and which of its settings have failed
  lock,     \* who holds SMCProcessor's counterLock
  reader    \* what each reader is doing

vars == <<cpu, sio, lock, reader>>

Action == "action"
Nobody == "nobody"

(* Both start their timer with twice its interval before the keys are there.*)
Started == [flag |-> FALSE, timer |-> "slow", pc |-> "idle"]

Init ==
  /\ cpu = Started
  /\ sio = [flag |-> FALSE, timer |-> "slow", pc |-> "idle", failed |-> {}]
  /\ lock = Nobody
  /\ reader = [r \in Readers |-> "idle"]

Goto(r, label) == reader' = [reader EXCEPT ![r] = label]

-----------------------------------------------------------------------------
(* readAccess of the processor's keys: the value and quickReschedule, under *)
(* counterLock.  Setting a timeout may fail.                                *)
ReadCpu(r) ==
  /\ reader[r] = "idle" /\ lock = Nobody
  /\ lock' = r
  /\ Goto(r, "cpu")
  /\ UNCHANGED <<cpu, sio>>

QuickReschedule(r) ==
  /\ reader[r] = "cpu"
  /\ cpu' \in IF cpu.flag THEN {cpu}
              ELSE {[cpu EXCEPT !.flag = TRUE, !.timer = "quick"], cpu}
  /\ lock' = Nobody
  /\ Goto(r, "idle")
  /\ UNCHANGED sio

(* The flag at the end of both timer callbacks.                             *)
RestedMutant(state) == state

Rested(state) == [state EXCEPT !.flag = FALSE]

(* timerCallback of the processor: the timer goes on by itself only when it *)
(* came late.                                                               *)
FireCpu ==
  /\ cpu.pc = "idle" /\ cpu.timer # "off"
  /\ cpu' = [cpu EXCEPT !.timer = "off", !.pc = "lock"]
  /\ UNCHANGED <<sio, lock, reader>>

LockCpu ==
  /\ cpu.pc = "lock" /\ lock = Nobody
  /\ lock' = Action
  /\ cpu' = [cpu EXCEPT !.pc = "update"]
  /\ UNCHANGED <<sio, reader>>

UpdateCpu ==
  /\ cpu.pc = "update"
  /\ cpu' \in {[Rested(cpu) EXCEPT !.pc = "idle"],
               [cpu EXCEPT !.pc = "idle", !.flag = TRUE, !.timer = "slow"]}
  /\ lock' = Nobody
  /\ UNCHANGED <<sio, reader>>

-----------------------------------------------------------------------------
(* Setting the timer, which may fail and then leaves it as it was.          *)
SetTimeout(state, when) ==
  {[state EXCEPT !.timer = when], [state EXCEPT !.failed = @ \cup {when}]}

(* quickReschedule of the SuperIO plugin, which takes no lock.              *)
TestAndSet(r) ==
  /\ reader[r] = "idle"
  /\ Goto(r, IF sio.flag THEN "idle" ELSE "arm")
  /\ sio' = [sio EXCEPT !.flag = TRUE]
  /\ UNCHANGED <<cpu, lock>>

ArmQuick(r) ==
  /\ reader[r] = "arm"
  /\ sio' \in SetTimeout(sio, "quick")
  /\ Goto(r, "idle")
  /\ UNCHANGED <<cpu, lock>>

(* timerCallback of the SuperIO plugin: update, arm, clear.                 *)
FireSio ==
  /\ sio.pc = "idle" /\ sio.timer # "off"
  /\ sio' = [sio EXCEPT !.timer = "off", !.pc = "arm"]
  /\ UNCHANGED <<cpu, lock, reader>>

ArmSio ==
  /\ sio.pc = "arm"
  /\ sio' \in SetTimeout([sio EXCEPT !.pc = "clear"], "slow")
  /\ UNCHANGED <<cpu, lock, reader>>

ClearSio ==
  /\ sio.pc = "clear"
  /\ sio' = [Rested(sio) EXCEPT !.pc = "idle"]
  /\ UNCHANGED <<cpu, lock, reader>>

Next ==
  \/ \E r \in Readers : ReadCpu(r) \/ QuickReschedule(r) \/ TestAndSet(r) \/ ArmQuick(r)
  \/ FireCpu \/ LockCpu \/ UpdateCpu
  \/ FireSio \/ ArmSio \/ ClearSio

Spec == Init /\ [][Next]_vars

-----------------------------------------------------------------------------
(* The types.                                                               *)
TypeOK ==
  /\ cpu \in [flag : BOOLEAN, timer : {"off", "slow", "quick"},
              pc : {"idle", "lock", "update"}]
  /\ sio \in [flag : BOOLEAN, timer : {"off", "slow", "quick"},
              pc : {"idle", "arm", "clear"}, failed : SUBSET {"slow", "quick"}]
  /\ lock \in Readers \cup {Action, Nobody}
  /\ reader \in [Readers -> {"idle", "cpu", "arm"}]

(* The processor's flag stands for a refresh that will come: its timer is   *)
(* set or its action has begun.                                             *)
CpuRefreshComes == cpu.flag => cpu.timer # "off" \/ cpu.pc # "idle"

(* The SuperIO flag, which keeps every other reader from starting the timer,*)
(* stands for a quick refresh once its reader has started the timer, in     *)
(* whatever order the two steps of the readers and the two of the action    *)
(* fall; and even when that call fails there is a timer, unless the         *)
(* action's own call has failed as well.                                    *)
SioRefreshComes ==
  sio.flag /\ sio.pc = "idle" /\ (\A r \in Readers : reader[r] # "arm") =>
    /\ "quick" \notin sio.failed => sio.timer = "quick"
    /\ "slow" \notin sio.failed => sio.timer # "off"

(* A flag that is set never keeps the refresh away: otherwise no reader     *)
(* would start the timer again and the values would stay as they are        *)
(* (quickReschedule, timerCallback).                                        *)
RefreshComes == CpuRefreshComes /\ SioRefreshComes
=============================================================================
