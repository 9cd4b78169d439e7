------------------------------ MODULE SmcDell ------------------------------
(***************************************************************************)
(* Manual fan control of SMCDellSensors (SMIMonitor.cpp, SMCDellSensors.cpp)*)
(* the SMC keys F0Md, F0Tg and FS! queue updates; a thread bound to the     *)
(* first processor takes them one by one and calls the system management    *)
(* mode; sleep turns manual control off and waits for the queue to drain;   *)
(* a timer turns it on again some seconds after waking.                     *)
(*                                                                          *)
(* A value is the set of fans it switches on: of F0Md and F0Tg (a high      *)
(* speed) the fan or none, of FS! any set.                                  *)
(***************************************************************************)
EXTENDS Naturals, Sequences

CONSTANTS
  Fans,
  Posters,      \* threads that write keys
  MaxUpdates    \* MaxActiveSmcUpdates

(* Assumed of the constants wherever the module is used.                    *)
DellAssumption == MaxUpdates \in Nat \ {0}

Slots == ({"F0Md", "F0Tg"} \X Fans) \cup {<<"FS", "all">>}
ForceSlot == <<"FS", "all">>
ValuesOf(slot) == IF slot = ForceSlot THEN SUBSET Fans ELSE {{}, {slot[2]}}
Update == [slot : Slots, value : SUBSET Fans]
NoUpdate == [slot |-> ForceSlot, value |-> {}]

VARIABLES
  queue,     \* storedSmcUpdates
  fans,      \* fansStatus: the fans under manual control
  manual,    \* hardware: manual control is on
  target,    \* targetSpeed of the fans
  awake, ignore,   \* awake and ignore_new_smc_updates
  wakeTimer, \* the timer that turns everything on after waking
  poster, worker, power, waker,    \* what the threads are doing
  asked,     \* history: the last target speed that was accepted
  failed     \* history: a change of mode failed

vars == <<queue, fans, manual, target, awake, ignore, wakeTimer,
          poster, worker, power, waker, asked, failed>>

Init ==
  /\ queue = <<>>
  /\ fans = {} /\ target = {} /\ asked = {}
  /\ manual \in BOOLEAN
  /\ awake = TRUE /\ ignore = FALSE
  /\ wakeTimer = FALSE
  /\ poster = [p \in Posters |-> "idle"]
  /\ worker = [pc |-> "start", update |-> NoUpdate]
  /\ power = "up" /\ waker = "idle"
  /\ failed = FALSE

-----------------------------------------------------------------------------
(* postSmcUpdate: an update of the same key and fan is overwritten in its   *)
(* place; what finds no room is lost.                                       *)
Pending(slot) == {i \in DOMAIN queue : queue[i].slot = slot}

OverwrittenMutant(entry, update) == entry

Overwritten(entry, update) == update

Room(slot) == Pending(slot) # {} \/ Len(queue) < MaxUpdates

Store(update) ==
  queue' = IF Pending(update.slot) # {}
           THEN [i \in DOMAIN queue |->
                   IF i \in Pending(update.slot) THEN Overwritten(queue[i], update)
                   ELSE queue[i]]
           ELSE IF Room(update.slot) THEN Append(queue, update) ELSE queue

(* The asked set of fans after an update of the target speed.               *)
Switched(set, update) == (set \ {update.slot[2]}) \cup update.value

(* The unlocked check; only the one at sleep is forced past it.             *)
RefusedMutant == ~awake

Refused == ~awake \/ ignore

Post(p) ==
  /\ poster[p] = "idle" /\ ~Refused
  /\ poster' = [poster EXCEPT ![p] = "store"]
  /\ UNCHANGED <<queue, fans, manual, target, awake, ignore, wakeTimer,
                 worker, power, waker, asked, failed>>

(* What a poster brings is of no account before it is stored, and is chosen *)
(* only here.                                                               *)
StoreUpdate(p) ==
  /\ poster[p] = "store"
  /\ \E slot \in Slots : \E value \in ValuesOf(slot) :
       LET update == [slot |-> slot, value |-> value]
       IN /\ Store(update)
          /\ asked' = IF update.slot[1] = "F0Tg" /\ Room(update.slot)
                      THEN Switched(asked, update) ELSE asked
  /\ poster' = [poster EXCEPT ![p] = "idle"]
  /\ UNCHANGED <<fans, manual, target, awake, ignore, wakeTimer,
                 worker, power, waker, failed>>

-----------------------------------------------------------------------------
(* updateSensorsLoop forces automatic control before it does anything else. *)
(* i8k_smm gives up when audio is played, and the firmware may refuse.      *)
SetControl(on) ==
  \/ manual' = on /\ UNCHANGED failed
  \/ UNCHANGED manual /\ failed' = TRUE

ForceAuto ==
  /\ worker.pc = "start"
  /\ SetControl(FALSE)
  /\ worker' = [worker EXCEPT !.pc = "idle"]
  /\ UNCHANGED <<queue, fans, target, awake, ignore, wakeTimer,
                 poster, power, waker, asked>>

(* handleSmcUpdatesInIdle.  Nobody else takes updates: what its unlocked    *)
(* look found is still there under the lock, and the oldest is taken.       *)
TakeUpdate ==
  /\ worker.pc = "idle" /\ awake /\ queue # <<>>
  /\ worker' = [pc |-> "apply", update |-> Head(queue)]
  /\ queue' = Tail(queue)
  /\ UNCHANGED <<fans, manual, target, awake, ignore, wakeTimer,
                 poster, power, waker, asked, failed>>

(* hanldeManualControlUpdate and handleManualForceFanControlUpdate: the     *)
(* mode is changed with the first fan and with the last, and the new status *)
(* is stored whatever came of it.                                           *)
NewStatus(update) ==
  IF update.slot = ForceSlot THEN update.value ELSE Switched(fans, update)

ChangesModeMutant(status) == status # fans /\ fans = {}

ChangesMode(status) == status # fans /\ {} \in {fans, status}

CallSmm ==
  /\ worker.pc = "apply" /\ worker.update.slot[1] # "F0Tg"
  /\ LET status == NewStatus(worker.update)
     IN IF ChangesMode(status) THEN SetControl(status # {})
        ELSE UNCHANGED <<manual, failed>>
  /\ worker' = [worker EXCEPT !.pc = "status"]
  /\ UNCHANGED <<queue, fans, target, awake, ignore, wakeTimer,
                 poster, power, waker, asked>>

StoreStatus ==
  /\ worker.pc = "status"
  /\ fans' = NewStatus(worker.update)
  /\ worker' = [pc |-> "idle", update |-> NoUpdate]
  /\ UNCHANGED <<queue, manual, target, awake, ignore, wakeTimer,
                 poster, power, waker, asked, failed>>

(* hanldeManualTargetSpeedUpdate; the speed the machine makes of it, one of *)
(* three, is left out.                                                      *)
SetTarget ==
  LET update == worker.update
  IN /\ worker.pc = "apply" /\ update.slot[1] = "F0Tg"
     /\ target' = Switched(target, update)
     /\ worker' = [pc |-> "idle", update |-> NoUpdate]
     /\ UNCHANGED <<queue, fans, manual, awake, ignore, wakeTimer,
                    poster, power, waker, asked, failed>>

Worker == ForceAuto \/ TakeUpdate \/ CallSmm \/ StoreStatus \/ SetTarget

-----------------------------------------------------------------------------
(* IOSleepHandler and handlePowerOff.  An instance that is not awake is left*)
(* as it is.                                                                *)
WillSleep ==
  /\ power = "up"
  /\ wakeTimer' = FALSE
  /\ power' = IF awake THEN "post" ELSE "down"
  /\ ignore' = (awake \/ ignore)
  /\ UNCHANGED <<queue, fans, manual, target, awake,
                 poster, worker, waker, asked, failed>>

(* Manual control is turned off if it is on.                                *)
PostAuto ==
  /\ power = "post"
  /\ power' = IF fans = {} THEN "drain" ELSE "force"
  /\ UNCHANGED <<queue, fans, manual, target, awake, ignore, wakeTimer,
                 poster, worker, waker, asked, failed>>

ForceUpdate ==
  /\ power = "force"
  /\ Store(NoUpdate)
  /\ power' = "drain"
  /\ UNCHANGED <<fans, manual, target, awake, ignore, wakeTimer,
                 poster, worker, waker, asked, failed>>

Drained ==
  /\ power = "drain" /\ queue = <<>>
  /\ awake' = FALSE
  /\ power' = "down"
  /\ UNCHANGED <<queue, fans, manual, target, ignore, wakeTimer,
                 poster, worker, waker, asked, failed>>

HasPoweredOn ==
  /\ power = "down"
  /\ wakeTimer' = TRUE
  /\ power' = "up"
  /\ UNCHANGED <<queue, fans, manual, target, awake, ignore,
                 poster, worker, waker, asked, failed>>

(* The timer's action: handlePowerOn.  Cancelling the timer does not wait   *)
(* for it.                                                                  *)
Fire ==
  /\ wakeTimer /\ waker = "idle"
  /\ wakeTimer' = FALSE
  /\ waker' = IF awake THEN "idle" ELSE "awake"
  /\ UNCHANGED <<queue, fans, manual, target, awake, ignore,
                 poster, worker, power, asked, failed>>

WakeUp ==
  /\ waker = "awake"
  /\ awake' = TRUE
  /\ waker' = "heed"
  /\ UNCHANGED <<queue, fans, manual, target, ignore, wakeTimer,
                 poster, worker, power, asked, failed>>

HeedUpdates ==
  /\ waker = "heed"
  /\ ignore' = FALSE
  /\ waker' = "idle"
  /\ UNCHANGED <<queue, fans, manual, target, awake, wakeTimer,
                 poster, worker, power, asked, failed>>

Power ==
  \/ WillSleep \/ PostAuto \/ ForceUpdate \/ Drained
  \/ HasPoweredOn \/ Fire \/ WakeUp \/ HeedUpdates

-----------------------------------------------------------------------------
Next ==
  \/ \E p \in Posters : Post(p) \/ StoreUpdate(p)
  \/ Worker
  \/ Power

(* The worker loops for ever, sleeping and calling the firmware, which      *)
(* gives up after a bounded wait; the sleep handler looks again and again.  *)
Fairness == WF_vars(Worker) /\ WF_vars(Drained)

Spec == Init /\ [][Next]_vars /\ Fairness

-----------------------------------------------------------------------------
(* The types; no key of a fan is stored twice (postSmcUpdate).              *)
TypeOK ==
  /\ queue \in Seq(Update) /\ Len(queue) <= MaxUpdates
  /\ \A i, j \in DOMAIN queue : queue[i].slot = queue[j].slot => i = j
  /\ fans \subseteq Fans /\ target \subseteq Fans /\ asked \subseteq Fans
  /\ {manual, awake, ignore, wakeTimer, failed} \subseteq BOOLEAN
  /\ poster \in [Posters -> {"idle", "store"}]
  /\ worker \in [pc : {"start", "idle", "apply", "status"}, update : Update]
  /\ power \in {"up", "down", "post", "force", "drain"}
  /\ waker \in {"idle", "awake", "heed"}

(* The target speed of a fan is the last one that was accepted, unless that *)
(* is still stored or in the worker's hands: an overwritten update keeps    *)
(* its place, and a later value is never undone by an earlier one.          *)
LastTargetApplied ==
  \A f \in Fans :
    LET slot == <<"F0Tg", f>>
    IN \/ \E i \in DOMAIN queue :
            queue[i].slot = slot /\ (f \in queue[i].value) = (f \in asked)
       \/ /\ Pending(slot) = {}
          /\ (f \in asked) = IF worker.pc = "apply" /\ worker.update.slot = slot
                             THEN f \in worker.update.value ELSE f \in target

(* The machine's mode is what fansStatus says, as long as no change of mode *)
(* has failed: it is changed with the first fan and with the last, whether  *)
(* one key or the other brought them there.                                 *)
ControlAgrees ==
  ~failed /\ worker.pc \notin {"start", "status"} => manual = (fans # {})

(* Going to sleep comes to an end: the queue drains while nothing new is    *)
(* accepted (handlePowerOff).                                               *)
SleepCompletes == []<>(power # "drain" \/ ~ignore)

(* Asleep no fan is under manual control: the release notes say "switch off *)
(* manual control before going to sleep" (Changelog.md:47).                 *)
FansAutomaticAsleep == ~awake /\ worker.pc = "idle" => fans = {}
=============================================================================
