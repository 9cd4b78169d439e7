---------------------------- MODULE SmcWatchdog ----------------------------
(***************************************************************************)
(* The watchdog of kern_vsmc.cpp: one job, one timer and the accept flag,   *)
(* shared without a lock by the threads that post jobs (the driver writing  *)
(* NATJ or OSWD, the panic filters of kern_prov.cpp) and by the timer's     *)
(* action.  Every access to a shared member is a step.                      *)
(*                                                                          *)
(* The timer is IOKit's: cancelTimeout turns an armed timer off and does    *)
(* not wait for an action that has begun.                                   *)
(***************************************************************************)
EXTENDS Integers, Sequences

CONSTANTS
  Drivers,     \* threads that post jobs for the driver
  Panic,       \* the thread that posts the last job
  Resets,      \* ForceRestart, ShutdownToS5, ShutdownToUnk
  Others,      \* ForceStartup, Reserved: logged only
  DoNothing

Jobs == Resets \cup Others
Posters == Drivers \cup {Panic}

(* Assumed of the constants wherever the module is used.                    *)
WatchdogAssumption ==
  /\ Panic \notin Drivers
  /\ DoNothing \notin Jobs
  /\ Resets \cap Others = {}

VARIABLES
  job,       \* watchDogJob
  timer,     \* watchDogTimer: "off", "armed"
  accept,    \* watchDogAcceptJobs
  poster,    \* what each thread is doing in postWatchDogJob
  action,    \* what the timer's action is doing
  reset      \* the reset that was asked of the firmware

vars == <<job, timer, accept, poster, action, reset>>

Idle == [at |-> 0, code |-> DoNothing]

Init ==
  /\ job = DoNothing
  /\ timer = "off"
  /\ accept = TRUE
  /\ poster = [p \in Posters |-> Idle]
  /\ action = [pc |-> "idle", job |-> DoNothing]
  /\ reset = DoNothing

(* Nothing runs any more once the firmware resets the machine.              *)
Alive == reset = DoNothing

-----------------------------------------------------------------------------
(* postWatchDogJob, whose steps come in this order.                         *)
StepsMutant(code) ==
  IF code = DoNothing THEN <<"cancel", "store", "last">>
  ELSE <<"cancel", "arm", "store", "last">>

Steps(code) ==
  IF code = DoNothing THEN <<"cancel", "store", "last">>
  ELSE <<"cancel", "store", "arm", "last">>

(* The driver posts what the guest asks for, the panic filters clear.       *)
Codes(p) == IF p = Panic THEN {DoNothing} ELSE Jobs \cup {DoNothing}

Enter(p) ==
  /\ poster[p].at = 0
  /\ accept
  /\ \E code \in Codes(p) : poster' = [poster EXCEPT ![p] = [at |-> 1, code |-> code]]
  /\ UNCHANGED <<job, timer, accept, action, reset>>

At(p, step) ==
  LET steps == Steps(poster[p].code)
  IN poster[p].at \in DOMAIN steps /\ steps[poster[p].at] = step

Done(p) == poster' = [poster EXCEPT ![p].at = @ + 1]

Cancel(p) ==
  /\ At(p, "cancel")
  /\ timer' = "off"
  /\ Done(p)
  /\ UNCHANGED <<job, accept, action, reset>>

Store(p) ==
  /\ At(p, "store")
  /\ job' = poster[p].code
  /\ Done(p)
  /\ UNCHANGED <<timer, accept, action, reset>>

(* setTimeoutMS and enable.                                                 *)
Arm(p) ==
  /\ At(p, "arm")
  /\ timer' = "armed"
  /\ Done(p)
  /\ UNCHANGED <<job, accept, action, reset>>

(* The last job closes the door behind it.                                  *)
Leave(p) ==
  /\ At(p, "last")
  /\ accept' = (accept /\ p # Panic)
  /\ poster' = [poster EXCEPT ![p] = Idle]
  /\ UNCHANGED <<job, timer, action, reset>>

PostWatchDogJob(p) == Enter(p) \/ Cancel(p) \/ Store(p) \/ Arm(p) \/ Leave(p)

-----------------------------------------------------------------------------
(* watchDogAction.                                                          *)
Fire ==
  /\ timer = "armed" /\ action.pc = "idle"
  /\ timer' = "off"
  /\ action' = [action EXCEPT !.pc = "load"]
  /\ UNCHANGED <<job, accept, poster, reset>>

LoadJob ==
  /\ action.pc = "load"
  /\ action' = [pc |-> "reset", job |-> job]
  /\ UNCHANGED <<job, timer, accept, poster, reset>>

ResetJob ==
  /\ action.pc = "reset"
  /\ job' = DoNothing
  /\ action' = [action EXCEPT !.pc = "act"]
  /\ UNCHANGED <<timer, accept, poster, reset>>

(* resetSystem for the three jobs that want it, a log entry for the others. *)
Act ==
  /\ action.pc = "act"
  /\ reset' = IF action.job \in Resets THEN action.job ELSE DoNothing
  /\ action' = [pc |-> "idle", job |-> DoNothing]
  /\ UNCHANGED <<job, timer, accept, poster>>

WatchDogAction == Fire \/ LoadJob \/ ResetJob \/ Act

Next == Alive /\ ((\E p \in Posters : PostWatchDogJob(p)) \/ WatchDogAction)

Spec == Init /\ [][Next]_vars

-----------------------------------------------------------------------------
(* Every variable has its type.                                             *)
TypeOK ==
  /\ job \in Jobs \cup {DoNothing}
  /\ timer \in {"off", "armed"}
  /\ accept \in BOOLEAN
  /\ poster \in [Posters -> [at : 0 .. 4, code : Jobs \cup {DoNothing}]]
  /\ action \in [pc : {"idle", "load", "reset", "act"}, job : Jobs \cup {DoNothing}]
  /\ reset \in Resets \cup {DoNothing}

(* A job that is stored when neither a post nor the action is under way has *)
(* its timer armed.  postWatchDogJob takes no lock; this holds because it   *)
(* stores the job before it arms the timer.  It says nothing of a job that  *)
(* is no longer stored: one posted between the action's load and its reset  *)
(* is erased by the reset, and nobody acts on it.                           *)
JobHasTimer ==
  /\ job # DoNothing
  /\ \A p \in Posters : poster[p] = Idle
  /\ action.pc = "idle"
  => timer = "armed"
=============================================================================
