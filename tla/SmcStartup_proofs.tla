-------------------------- MODULE SmcStartup_proofs --------------------------
(***************************************************************************)
(* Proofs about SmcStartup.  The counters of registrations do not tell who *)
(* counted; the invariant recovers it from where the two threads are.      *)
(***************************************************************************)
EXTENDS SmcStartup, Integers, TLAPS

Bit(condition) == IF condition THEN 1 ELSE 0

(* What the two threads have announced by the time they are where they are.*)
Announced ==
  /\ start \notin {"idle", "failed"} => instance
  /\ start \in {"idle", "failed", "store"} => ~pending /\ ~servicingReady
  /\ start \in {"load", "register", "publish", "done"} => pending \/ servicingReady
  /\ start = "publish" => servicingReady
  /\ shouldMmioInit =>
       monitored /\ servicingReady /\ kext \in {"store", "register", "publish", "waiting"}
  /\ kext \in {"load", "store", "register", "publish"} => monitored
  /\ kext = "monitor" => ~monitored
  /\ kext = "waiting" /\ monitored => mmioReady
  /\ mmioReady => monitored /\ kext \in {"waiting", "register", "publish"}
  /\ kext \in {"register", "publish"} => shouldMmioInit /\ mmioReady /\ generation = "V2"
  /\ start \in {"register", "publish"} /\ generation = "V2" => mmioReady

(* A thread registers once, and publishes next.                            *)
Counted ==
  /\ publications = registrations - Bit(start = "publish") - Bit(kext = "publish")
  /\ registrations <= Bit(start \in {"publish", "done"})
                        + Bit(mmioReady /\ kext \in {"publish", "waiting"})
  /\ registrations >= Bit(start = "publish") + Bit(kext = "publish")
  /\ registrations > 0 => servicingReady
  /\ registrations > 0 /\ generation = "V2" => mmioReady
  /\ generation = "V1" => registrations = Bit(start \in {"publish", "done"})

(* A later generation device whose two threads did not overlap: the second *)
(* has found the first one's announcement, and is the only one to register.*)
Settled ==
  generation = "V2" /\ ~overlap =>
    /\ kext = "store" =>
         IF shouldMmioInit THEN start = "done" ELSE start \in {"idle", "failed", "store"}
    /\ shouldMmioInit =>
         /\ start = "done" /\ ~pending
         /\ registrations = Bit(kext \in {"publish", "waiting"})
    /\ mmioReady /\ ~shouldMmioInit => registrations = Bit(start \in {"publish", "done"})

IInv == TypeOK /\ Announced /\ Counted /\ Settled

(* The invariant holds at first.                                            *)
LEMMA InitInvariant == Init => IInv
<1> SUFFICES ASSUME Init PROVE IInv
  OBVIOUS
<1>1. TypeOK
  <2>1. {callbacks, instance, pending, servicingReady, mmioReady, patched,
         trapped, firstGeneration, shouldMmioInit, monitored, overlap}
           \subseteq BOOLEAN
    BY Zenon DEF Init
  <2>2. registrations \in 0 .. 2 /\ publications \in 0 .. 2
    BY SMT DEF Init
  <2> QED
    BY <2>1, <2>2, Zenon DEF Init, TypeOK
<1>2. Announced
  BY Zenon DEF Init, Announced
<1>3. Counted
  BY DEF Init, Counted, Bit
<1>4. Settled
  BY Zenon DEF Init, Settled
<1> QED
  BY <1>1, <1>2, <1>3, <1>4 DEF IInv

(* Every access of the two threads to a flag keeps it.                      *)
LEMMA NextInvariant == IInv /\ [Next]_vars => IInv'
<1> SUFFICES ASSUME IInv, [Next]_vars PROVE IInv'
  OBVIOUS
<1> USE DEF IInv, TypeOK, Announced, Counted, Settled, Bit
<1>1. CASE FailStart
  BY <1>1 DEF FailStart, provider, service
<1>2. CASE Prepare
  BY <1>2 DEF Prepare, provider, service
<1>3. CASE StoreServicingReady
  BY <1>3 DEF StoreServicingReady, provider, service
<1>4. CASE DrainStore
  BY <1>4 DEF DrainStore, provider, service
<1>5. CASE LoadMmioReady
  BY <1>5 DEF LoadMmioReady, ShouldServicingInit, provider, service
<1>6. CASE StartRegisters
  BY <1>6 DEF StartRegisters, provider
<1>7. CASE StartPublishes
  BY <1>7 DEF StartPublishes, provider
<1>8. CASE OnPatcherLoad
  BY <1>8 DEF OnPatcherLoad, KnownFirstGeneration, device, service
<1>9. CASE OnKextLoad
  BY <1>9 DEF OnKextLoad, MonitorsNothing, KnownFirstGeneration, device, service
<1>10. CASE SetMonitor
  BY <1>10 DEF SetMonitor, device, service
<1>11. CASE LoadServicingReady
  BY <1>11 DEF LoadServicingReady, device, service
<1>12. CASE StoreMmioReady
  BY <1>12 DEF StoreMmioReady, MmioRegistersService, device, service
<1>13. CASE MmioRegisters
  BY <1>13 DEF MmioRegisters, device
<1>14. CASE MmioPublishes
  BY <1>14 DEF MmioPublishes, device
<1>15. CASE UNCHANGED vars
  BY <1>15 DEF vars
<1> QED
  BY <1>1, <1>2, <1>3, <1>4, <1>5, <1>6, <1>7, <1>8, <1>9, <1>10, <1>11, <1>12,
     <1>13, <1>14, <1>15 DEF Next, Start, PostMmioReady

(* It holds of every hand-over between start and postMmioReady.             *)
THEOREM Invariant == Spec => []IInv
BY InitInvariant, NextInvariant, PTL DEF Spec

-----------------------------------------------------------------------------
(* The types; nothing is registered or published more than twice.          *)
THEOREM TypeCorrect == Spec => []TypeOK
<1>1. IInv => TypeOK
  BY DEF IInv
<1> QED
  BY <1>1, Invariant, PTL

(* start publishes a first generation device, once, and nobody else does.  *)
THEOREM FirstGenerationIsPrivate == Spec => []FirstGenerationPrivate
<1>1. IInv => FirstGenerationPrivate
  BY DEF IInv, TypeOK, Announced, Counted, FirstGenerationPrivate, Bit
<1> QED
  BY <1>1, Invariant, PTL

(* Whoever comes second publishes a later generation device, once, unless  *)
(* the two threads hand over at the same time.                             *)
THEOREM SecondThreadPublishes == Spec => []SecondPublishes
<1>1. IInv => SecondPublishes
  BY DEF IInv, TypeOK, Announced, Counted, Settled, SecondPublishes, MmioDone, Bit
<1> QED
  BY <1>1, Invariant, PTL

(* Nothing is registered before the instance and the windows are ready.    *)
THEOREM NeverTooEarly == Spec => []RegisteredWhenReady
<1>1. IInv => RegisteredWhenReady
  BY DEF IInv, TypeOK, Announced, Counted, RegisteredWhenReady
<1> QED
  BY <1>1, Invariant, PTL
=============================================================================
