------------------------------ MODULE SmcEvents ------------------------------
(***************************************************************************)
(* Event (interrupt) delivery of the emulated SMC: VirtualSMC::            *)
(* postInterrupt, getInterrupt, setInterrupts, causeInterrupt and the      *)
(* interrupt registration methods of kern_vsmc.cpp, in second generation   *)
(* (MMIO) mode, the only mode whose events are ever consumed.              *)
(*                                                                         *)
(* Each critical section of interruptsLock, a simple spin lock that is     *)
(* never nested in itself, is one action.  causeInterrupt runs after the   *)
(* lock is released and takes no lock, so it is two further steps of the   *)
(* calling thread, the test of `enabled` and the call of the handler,      *)
(* which other threads can interleave with.                                *)
(*                                                                         *)
(* The driver is the AppleSMC kext.  Its interrupt handler and its event   *)
(* thread are external: the handler raises a flag (IOKit coalesces         *)
(* interrupts), the event thread clears it and reads the event status      *)
(* register once, which is what calls getInterrupt.                        *)
(***************************************************************************)
EXTENDS Naturals, Sequences

CONSTANTS
  Posters,             \* threads that call postInterrupt
  Driver,              \* AppleSMC's event thread
  Codes,               \* SmcEventKeyDone, SmcEventLogMessage, SmcEventALSChange
  NoEvent,             \* event code 0
  Data,                \* event data that fit StoredInterrupt::data
  Oversize,            \* event data longer than StoredInterrupt::data
  NoData,              \* no event delivered yet
  MaxActiveInterrupts  \* slots reserved in storedInterrupts

ASSUME ConstantsAssumption ==
  /\ Driver \notin Posters
  /\ NoEvent \notin Codes
  /\ Oversize \notin Data
  /\ NoData \notin Data
  /\ MaxActiveInterrupts \in Nat \ {0}

VARIABLES
  interruptsEnabled,   \* set by a write of the NTOK key
  storedInterrupts,    \* the event queue
  registration,        \* the registeredInterrupts entry of EventInterruptNo
  pc,                  \* where each thread is
  signal,              \* AppleSMC's handler ran, its event thread has not yet
  currentEvent,        \* currentEventCode and the data given to setInterrupt
  missed               \* history: a cause found the source not enabled

vars == <<interruptsEnabled, storedInterrupts, registration, pc, signal,
          currentEvent, missed>>

Threads == Posters \cup {Driver}

(* EventInterruptNo is the only valid source and is registered at most     *)
(* once, so the vector registeredInterrupts has at most one entry.         *)
Registrations == {"absent", "disabled", "enabled"}

Event == [code : Codes, data : Data]

Init ==
  /\ interruptsEnabled = FALSE
  /\ storedInterrupts = <<>>
  /\ registration = "absent"
  /\ pc = [t \in Threads |-> "idle"]
  /\ signal = FALSE
  /\ currentEvent = [code |-> NoEvent, data |-> NoData]
  /\ missed = FALSE

-----------------------------------------------------------------------------
(* Interrupt sources: registerInterrupt and its siblings, called by        *)
(* AppleSMC without any lock.                                              *)

SetRegistration(from, to) ==
  /\ registration \in from
  /\ registration' = to
  /\ UNCHANGED <<interruptsEnabled, storedInterrupts, pc, signal,
                 currentEvent, missed>>

(* A second registration is refused and changes nothing.                   *)
RegisterInterrupt == SetRegistration({"absent"}, "disabled")

UnregisterInterrupt == SetRegistration({"disabled", "enabled"}, "absent")

EnableInterrupt == SetRegistration({"disabled", "enabled"}, "enabled")

DisableInterrupt == SetRegistration({"disabled", "enabled"}, "disabled")

(* setInterrupts: the events already stored stay stored.                   *)
SetInterrupts(enable) ==
  /\ interruptsEnabled' = enable
  /\ UNCHANGED <<storedInterrupts, registration, pc, signal, currentEvent,
                 missed>>

-----------------------------------------------------------------------------
(* causeInterrupt, in the thread that has just released interruptsLock.    *)

(* The source is looked up and its enabled flag tested.  Without an        *)
(* enabled source the handler is not called, and nothing remembers that.   *)
CauseInterrupt(t) ==
  /\ pc[t] = "cause"
  /\ IF registration = "enabled"
       THEN /\ pc' = [pc EXCEPT ![t] = "call"]
            /\ UNCHANGED missed
       ELSE /\ pc' = [pc EXCEPT ![t] = "idle"]
            /\ missed' = TRUE
  /\ UNCHANGED <<interruptsEnabled, storedInterrupts, registration, signal,
                 currentEvent>>

(* The handler runs, even when the source was disabled after the test.     *)
CallHandler(t) ==
  /\ pc[t] = "call"
  /\ pc' = [pc EXCEPT ![t] = "idle"]
  /\ signal' = TRUE
  /\ UNCHANGED <<interruptsEnabled, storedInterrupts, registration,
                 currentEvent, missed>>

-----------------------------------------------------------------------------
(* postInterrupt.                                                          *)

(* Where the search of postInterrupt finds the code.                       *)
HoldsMutant(c) ==
  {i \in DOMAIN storedInterrupts : i > 1 /\ storedInterrupts[i].code = c}

Holds(c) == {i \in DOMAIN storedInterrupts : storedInterrupts[i].code = c}

(* The entry of a code that is already stored gets the newer data.         *)
MergedMutant(c, d) ==
  [storedInterrupts EXCEPT ![1] = [code |-> c, data |-> d]]

Merged(c, d) ==
  [i \in DOMAIN storedInterrupts |->
     IF i \in Holds(c) THEN [code |-> c, data |-> d] ELSE storedInterrupts[i]]

HasFreeSlotMutant == Len(storedInterrupts) <= MaxActiveInterrupts

HasFreeSlot == Len(storedInterrupts) # MaxActiveInterrupts

(* The event about to be stored will be the only one (oneIntr).            *)
IsFirstMutant == Len(storedInterrupts) = 1

IsFirst == storedInterrupts = <<>>

(* What postInterrupt refuses before it looks at the queue, answering      *)
(* false with nothing changed.                                             *)
Acceptable(c, d) == interruptsEnabled /\ c # NoEvent /\ d # Oversize

(* The code is in the queue: its data are replaced in place, and nothing   *)
(* is caused.                                                              *)
PostAgain(t, c, d) ==
  /\ pc[t] = "idle"
  /\ Acceptable(c, d)
  /\ Holds(c) # {}
  /\ storedInterrupts' = Merged(c, d)
  /\ UNCHANGED <<interruptsEnabled, registration, pc, signal, currentEvent,
                 missed>>

(* The code is new: it is stored while a slot is free (else the event is   *)
(* refused), and the thread that stored the only event goes on to cause    *)
(* the interrupt.                                                          *)
PostNew(t, c, d) ==
  /\ pc[t] = "idle"
  /\ Acceptable(c, d)
  /\ Holds(c) = {}
  /\ HasFreeSlot
  /\ storedInterrupts' = Append(storedInterrupts, [code |-> c, data |-> d])
  /\ pc' = IF IsFirst THEN [pc EXCEPT ![t] = "cause"] ELSE pc
  /\ UNCHANGED <<interruptsEnabled, registration, signal, currentEvent,
                 missed>>

Post(t, c, d) == PostAgain(t, c, d) \/ PostNew(t, c, d)

-----------------------------------------------------------------------------
(* The driver's event thread, and getInterrupt, which it calls by reading  *)
(* the event status register.                                              *)

(* The event thread answers the flag its handler raised.                   *)
TakeSignal ==
  /\ pc[Driver] = "idle"
  /\ signal
  /\ signal' = FALSE
  /\ pc' = [pc EXCEPT ![Driver] = "read"]
  /\ UNCHANGED <<interruptsEnabled, storedInterrupts, registration,
                 currentEvent, missed>>

(* The driver may read the register without having been signalled.         *)
PollEvent ==
  /\ pc[Driver] = "idle"
  /\ pc' = [pc EXCEPT ![Driver] = "read"]
  /\ UNCHANGED <<interruptsEnabled, storedInterrupts, registration, signal,
                 currentEvent, missed>>

(* getInterrupt with an empty queue answers 0.                             *)
GetNothing ==
  /\ pc[Driver] = "read"
  /\ storedInterrupts = <<>>
  /\ pc' = [pc EXCEPT ![Driver] = "idle"]
  /\ missed' = FALSE
  /\ UNCHANGED <<interruptsEnabled, storedInterrupts, registration, signal,
                 currentEvent>>

(* Events remain once the oldest one is taken (moreIntrs).                 *)
MoreLeftMutant == Len(storedInterrupts) > 2

MoreLeft == Len(storedInterrupts) > 1

(* getInterrupt hands the oldest event to the protocol and forgets it; it  *)
(* causes the interrupt again when more are left.                          *)
GetInterrupt ==
  /\ pc[Driver] = "read"
  /\ storedInterrupts # <<>>
  /\ currentEvent' = Head(storedInterrupts)
  /\ storedInterrupts' = Tail(storedInterrupts)
  /\ pc' = [pc EXCEPT ![Driver] = IF MoreLeft THEN "cause" ELSE "idle"]
  /\ missed' = FALSE
  /\ UNCHANGED <<interruptsEnabled, registration, signal>>

-----------------------------------------------------------------------------
Sources ==
  \/ RegisterInterrupt
  \/ UnregisterInterrupt
  \/ EnableInterrupt
  \/ DisableInterrupt
  \/ \E enable \in BOOLEAN : SetInterrupts(enable)

Deliver(t) == CauseInterrupt(t) \/ CallHandler(t)

Read == GetNothing \/ GetInterrupt

Next ==
  \/ Sources
  \/ \E t \in Posters, c \in Codes \cup {NoEvent}, d \in Data \cup {Oversize} :
       Post(t, c, d)
  \/ \E t \in Threads : Deliver(t)
  \/ TakeSignal
  \/ PollEvent
  \/ Read

Spec == Init /\ [][Next]_vars

(* A thread inside causeInterrupt goes on, and AppleSMC's event thread     *)
(* answers its flag and finishes its register read.  Nothing is assumed of *)
(* the posters, of polling or of the registration calls.                   *)
FairSpec ==
  /\ Spec
  /\ \A t \in Threads : WF_vars(Deliver(t))
  /\ WF_vars(TakeSignal)
  /\ WF_vars(Read)

-----------------------------------------------------------------------------
(* Type correctness; the queue never outgrows the slots reserved for it    *)
(* at start (kern_vsmc.cpp:148, push_back must not allocate).              *)
TypeOK ==
  /\ interruptsEnabled \in BOOLEAN
  /\ storedInterrupts \in Seq(Event)
  /\ Len(storedInterrupts) <= MaxActiveInterrupts
  /\ registration \in Registrations
  /\ pc \in [Threads -> {"idle", "cause", "call", "read"}]
  /\ \A t \in Posters : pc[t] # "read"
  /\ signal \in BOOLEAN
  /\ currentEvent \in [code : Codes \cup {NoEvent}, data : Data \cup {NoData}]
  /\ missed \in BOOLEAN

(* An event code is stored once: a post of a waiting code is merged into   *)
(* the waiting entry whatever threads race, so the queue never holds more  *)
(* entries than there are codes.                                           *)
UniqueCodes ==
  \A i, j \in DOMAIN storedInterrupts :
    storedInterrupts[i].code = storedInterrupts[j].code => i = j

(* Somebody is about to wake the driver, or the driver is about to read.   *)
WakeupUnderWay ==
  \/ signal
  \/ pc[Driver] = "read"
  \/ \E t \in Threads : pc[t] \in {"cause", "call"}

(* No lost wake-up: only the post that makes the queue non-empty and the   *)
(* read that leaves it non-empty cause an interrupt, and still a stored    *)
(* event always has a wake-up under way, unless a causeInterrupt since the *)
(* driver's last read found the source unregistered or disabled.           *)
WakeupNotLost == storedInterrupts # <<>> => WakeupUnderWay \/ missed

(* kern_vsmc.cpp:452 merges a post into a stored event without causing an  *)
(* interrupt because "It should be already caused when it was added": a    *)
(* post that is about to be merged, with interrupts on and the source      *)
(* enabled, finds the stored event signalled or about to be.               *)
AlreadyCaused ==
  interruptsEnabled /\ registration = "enabled" /\ storedInterrupts # <<>>
    => WakeupUnderWay

(* Every accepted event is read by the driver in the end, whatever is      *)
(* posted meanwhile, unless a wake-up was withheld from the driver.        *)
EventDelivered ==
  \A c \in Codes : Holds(c) # {} ~> Holds(c) = {} \/ missed

-----------------------------------------------------------------------------
(* The queue implements the mailbox: a code waits at the place of its      *)
(* first post with the data of its last post, and is read once.            *)
Waiting == [i \in DOMAIN storedInterrupts |-> storedInterrupts[i].code]

Content(c) ==
  IF Holds(c) = {} THEN NoData
  ELSE storedInterrupts[CHOOSE i \in Holds(c) : TRUE].data

Mailbox == INSTANCE EventMailbox WITH
  Empty    <- NoData,
  Capacity <- MaxActiveInterrupts,
  order    <- Waiting,
  box      <- [c \in Codes |-> Content(c)],
  last     <- currentEvent

MailboxSpec == Mailbox!Spec
=============================================================================
