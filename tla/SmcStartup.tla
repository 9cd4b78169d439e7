----------------------------- MODULE SmcStartup -----------------------------
(***************************************************************************)
(* Who publishes the SMC service: VirtualSMC::start, run by IOKit, and     *)
(* VirtualSMC::postMmioReady, run by the provider when Lilu reports that   *)
(* AppleSMC was loaded.  A first generation device is published by start   *)
(* alone.  A later one is to be published by whichever of the two threads  *)
(* comes second, and they settle it with two atomic flags and no lock.     *)
(*                                                                         *)
(* Each access to a flag is an action.  A release store may become visible *)
(* after the acquire load that follows it in the same thread, so start's   *)
(* store waits in `pending` until DrainStore makes it visible.             *)
(***************************************************************************)
EXTENDS Naturals

VARIABLES
  generation,      \* generation of the emulated device; "V2" stands for V3 too
  callbacks,       \* the provider's Lilu callbacks are registered
  start,           \* where VirtualSMC::start is
  instance,        \* VirtualSMC::instance is set
  pending,         \* start's store to servicingReady is not visible yet
  servicingReady,
  mmioReady,
  patched,         \* onPatcherLoad ran
  trapped,         \* _kernel_trap is routed and the windows are protected
  firstGeneration, \* the provider fell back to first generation mode
  kext,            \* where onKextLoad and postMmioReady are
  shouldMmioInit,  \* local of postMmioReady
  monitored,       \* monitorStart and monitorEnd are set
  registrations,   \* calls of registerService
  publications,    \* calls of publishResource
  overlap          \* history: the two threads were handing over at once

vars == <<generation, callbacks, start, instance, pending, servicingReady,
          mmioReady, patched, trapped, firstGeneration, kext, shouldMmioInit,
          monitored, registrations, publications, overlap>>

service == <<registrations, publications>>
provider == <<patched, trapped, firstGeneration, kext, shouldMmioInit,
              monitored>>
device == <<start, instance, pending>>

(* The device's generation comes from the boot loader and the model data;  *)
(* the callbacks are missing in legacy mode and when Lilu refuses them.    *)
Init ==
  /\ generation \in {"V1", "V2"}
  /\ callbacks \in BOOLEAN
  /\ start = "idle"
  /\ instance = FALSE
  /\ pending = FALSE
  /\ servicingReady = FALSE
  /\ mmioReady = FALSE
  /\ patched = FALSE
  /\ trapped = FALSE
  /\ firstGeneration = FALSE
  /\ kext = "waiting"
  /\ shouldMmioInit = FALSE
  /\ monitored = FALSE
  /\ registrations = 0
  /\ publications = 0
  /\ overlap = FALSE

(* What isServicingReady() && isFirstGeneration() answers.                 *)
KnownFirstGeneration == servicingReady /\ generation = "V1"

-----------------------------------------------------------------------------
(* VirtualSMC::start.                                                      *)

(* One of the preparations fails: no other thread ever sees the object.    *)
FailStart ==
  /\ start = "idle"
  /\ start' = "failed"
  /\ UNCHANGED <<generation, callbacks, instance, pending, servicingReady,
                 mmioReady, provider, service, overlap>>

(* Keystore, protocols, lock and queues exist; the instance is published.  *)
Prepare ==
  /\ start = "idle"
  /\ start' = "store"
  /\ instance' = TRUE
  /\ UNCHANGED <<generation, callbacks, pending, servicingReady, mmioReady,
                 provider, service, overlap>>

StoreServicingReady ==
  /\ start = "store"
  /\ start' = "load"
  /\ pending' = TRUE
  /\ overlap' = (overlap \/ kext = "store")
  /\ UNCHANGED <<generation, callbacks, instance, servicingReady, mmioReady,
                 provider, service>>

(* The processor makes the store visible to the other threads.             *)
DrainStore ==
  /\ pending
  /\ pending' = FALSE
  /\ servicingReady' = TRUE
  /\ UNCHANGED <<generation, callbacks, start, instance, mmioReady, provider,
                 service, overlap>>

ShouldServicingInitMutant == generation = "V1"

ShouldServicingInitAlways == TRUE

ShouldServicingInit == generation = "V1" \/ mmioReady

LoadMmioReady ==
  /\ start = "load"
  /\ start' = IF ShouldServicingInit THEN "register" ELSE "done"
  /\ UNCHANGED <<generation, callbacks, instance, pending, servicingReady,
                 mmioReady, provider, service, overlap>>

(* registerService takes IOKit's locks, which drain the store first.       *)
StartRegisters ==
  /\ start = "register"
  /\ ~pending
  /\ start' = "publish"
  /\ registrations' = registrations + 1
  /\ UNCHANGED <<generation, callbacks, instance, pending, servicingReady,
                 mmioReady, provider, publications, overlap>>

StartPublishes ==
  /\ start = "publish"
  /\ start' = "done"
  /\ publications' = publications + 1
  /\ UNCHANGED <<generation, callbacks, instance, pending, servicingReady,
                 mmioReady, provider, registrations, overlap>>

-----------------------------------------------------------------------------
(* The provider's Lilu callbacks.                                          *)

(* onPatcherLoad, once: unless the device is known to be a first           *)
(* generation one, the trap is routed and the windows protected, or        *)
(* routing fails and neither happens.                                      *)
OnPatcherLoad ==
  /\ callbacks
  /\ ~patched
  /\ patched' = TRUE
  /\ firstGeneration' = KnownFirstGeneration
  /\ trapped' \in IF KnownFirstGeneration THEN {FALSE} ELSE BOOLEAN
  /\ UNCHANGED <<generation, callbacks, device, servicingReady, mmioReady,
                 kext, shouldMmioInit, monitored, service, overlap>>

(* AppleSMC has not been handled yet.                                      *)
MonitorsNothingMutant == ~firstGeneration

MonitorsNothing == ~firstGeneration /\ ~monitored

(* onKextLoad for AppleSMC, which Lilu reports after the patcher load; the *)
(* generation is looked at again.                                          *)
OnKextLoad ==
  /\ callbacks
  /\ patched
  /\ kext = "waiting"
  /\ MonitorsNothing
  /\ firstGeneration' = KnownFirstGeneration
  /\ kext' = IF KnownFirstGeneration THEN "waiting" ELSE "monitor"
  /\ UNCHANGED <<generation, callbacks, device, servicingReady, mmioReady,
                 patched, trapped, shouldMmioInit, monitored, service,
                 overlap>>

SetMonitor ==
  /\ kext = "monitor"
  /\ kext' = "load"
  /\ monitored' = TRUE
  /\ UNCHANGED <<generation, callbacks, device, servicingReady, mmioReady,
                 patched, trapped, firstGeneration, shouldMmioInit, service,
                 overlap>>

(* postMmioReady: the flag of the other side is read before its own is     *)
(* set, the reverse of the order in start.                                 *)
LoadServicingReady ==
  /\ kext = "load"
  /\ kext' = "store"
  /\ shouldMmioInit' = servicingReady
  /\ overlap' = (overlap \/ start = "load" \/ pending)
  /\ UNCHANGED <<generation, callbacks, device, servicingReady, mmioReady,
                 patched, trapped, firstGeneration, monitored, service>>

MmioRegistersServiceMutant == shouldMmioInit

MmioRegistersService == shouldMmioInit /\ generation # "V1"

StoreMmioReadyMutant ==
  /\ kext = "store"
  /\ kext' = IF MmioRegistersService THEN "register" ELSE "waiting"
  /\ UNCHANGED <<generation, callbacks, device, servicingReady, mmioReady,
                 patched, trapped, firstGeneration, shouldMmioInit,
                 monitored, service, overlap>>

StoreMmioReady ==
  /\ kext = "store"
  /\ mmioReady' = TRUE
  /\ kext' = IF MmioRegistersService THEN "register" ELSE "waiting"
  /\ UNCHANGED <<generation, callbacks, device, servicingReady, patched,
                 trapped, firstGeneration, shouldMmioInit, monitored,
                 service, overlap>>

MmioRegisters ==
  /\ kext = "register"
  /\ kext' = "publish"
  /\ registrations' = registrations + 1
  /\ UNCHANGED <<generation, callbacks, device, servicingReady, mmioReady,
                 patched, trapped, firstGeneration, shouldMmioInit,
                 monitored, publications, overlap>>

MmioPublishes ==
  /\ kext = "publish"
  /\ kext' = "waiting"
  /\ publications' = publications + 1
  /\ UNCHANGED <<generation, callbacks, device, servicingReady, mmioReady,
                 patched, trapped, firstGeneration, shouldMmioInit,
                 monitored, registrations, overlap>>

-----------------------------------------------------------------------------
Start ==
  \/ FailStart
  \/ Prepare
  \/ StoreServicingReady
  \/ DrainStore
  \/ LoadMmioReady
  \/ StartRegisters
  \/ StartPublishes

PostMmioReady ==
  \/ SetMonitor
  \/ LoadServicingReady
  \/ StoreMmioReady
  \/ MmioRegisters
  \/ MmioPublishes

Next == Start \/ OnPatcherLoad \/ OnKextLoad \/ PostMmioReady

Spec == Init /\ [][Next]_vars

(* IOKit calls start, and a thread inside start or onKextLoad goes on.     *)
(* Nothing is assumed of Lilu: it may never report the patcher or the      *)
(* kext.                                                                   *)
FairSpec == Spec /\ WF_vars(Start) /\ WF_vars(PostMmioReady)

-----------------------------------------------------------------------------
(* Type correctness; no order of the two threads, and no number of kext    *)
(* reports, registers or publishes the service more than twice.            *)
TypeOK ==
  /\ generation \in {"V1", "V2"}
  /\ start \in {"idle", "failed", "store", "load", "register", "publish",
                "done"}
  /\ kext \in {"waiting", "monitor", "load", "store", "register", "publish"}
  /\ {callbacks, instance, pending, servicingReady, mmioReady, patched,
      trapped, firstGeneration, shouldMmioInit, monitored, overlap}
       \subseteq BOOLEAN
  /\ registrations \in 0 .. 2
  /\ publications \in 0 .. 2

(* postMmioReady has run to its end.                                       *)
MmioDone == monitored /\ kext = "waiting"

(* A first generation device is published exactly once, by start, whether  *)
(* the provider learns the generation before routing the trap, before      *)
(* hooking AppleSMC, or only when postMmioReady is already running.        *)
FirstGenerationPrivate ==
  generation = "V1" =>
    /\ registrations <= 1
    /\ start = "done" => registrations = 1 /\ publications = 1

(* When the two threads do not hand over at the same time, the second one  *)
(* publishes a later generation device, exactly once and before it is      *)
(* done.                                                                   *)
SecondPublishes ==
  generation = "V2" /\ ~overlap =>
    /\ registrations <= 1
    /\ start = "done" /\ ~pending /\ MmioDone =>
         registrations = 1 /\ publications = 1

(* The service is never registered, so no driver can reach it, before the  *)
(* instance is complete and visible; and a later generation device is not  *)
(* registered before the accesses of AppleSMC are monitored, even when     *)
(* the threads overlap.                                                    *)
RegisteredWhenReady ==
  registrations > 0 =>
    /\ instance /\ servicingReady
    /\ generation = "V2" => monitored /\ mmioReady

(* Once start has got as far as announcing itself and the provider has     *)
(* announced MMIO, the service is published in the end, unless they did so *)
(* at the same time.                                                       *)
EventuallyPublished ==
  servicingReady /\ mmioReady ~> publications > 0 \/ overlap

(* kern_vsmc.cpp:160 gives the registration to start "when MMIO landed     *)
(* earlier" and kern_vsmc.hpp:281 to the MMIO side "when servicing is      *)
(* already active": whatever the order, one of the two registers a later   *)
(* generation device.                                                      *)
SomebodyRegisters ==
  generation = "V2" /\ start = "done" /\ MmioDone => registrations > 0
=============================================================================
