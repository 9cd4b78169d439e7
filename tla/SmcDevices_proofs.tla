--------------------------- MODULE SmcDevices_proofs ---------------------------
(***************************************************************************)
(* Proofs about the components of MCSmcDevices that have no module of      *)
(* proofs of their own, each for the specification of that component and   *)
(* for any values of its constants.                                        *)
(***************************************************************************)
EXTENDS MCSmcDevices, TLAPS

-----------------------------------------------------------------------------
(* The watchdog.                                                           *)

WCodes == Watchdog!Jobs \cup {DoNothing}

(* A stored job has its timer, or an action that will look at it, or a     *)
(* thread that has still to store another or to arm the timer.             *)
WCovered ==
  \/ wTimer = "armed"
  \/ wAction.pc \in {"load", "reset"}
  \/ \E p \in Watchdog!Posters : Watchdog!At(p, "store") \/ Watchdog!At(p, "arm")

WInv ==
  /\ wJob \in WCodes
  /\ wPoster \in [Watchdog!Posters -> [at : Nat, code : WCodes]]
  /\ wAction \in [pc : {"idle", "load", "reset", "act"}, job : WCodes]
  /\ wJob # DoNothing => WCovered

(* Where a step of postWatchDogJob is, and what follows it.                *)
LEMMA WatchdogSteps ==
  ASSUME NEW p \in Watchdog!Posters, wPoster[p] \in [at : Nat, code : WCodes]
  PROVE  /\ Watchdog!At(p, "cancel") <=> wPoster[p].at = 1
         /\ Watchdog!At(p, "store") <=> wPoster[p].at = 2
         /\ Watchdog!At(p, "arm") <=> wPoster[p].at = 3 /\ wPoster[p].code # DoNothing
BY DEF Watchdog!At, Watchdog!Steps

(* A thread that does not move keeps a stored job covered.                 *)
LEMMA WatchdogOthers ==
  ASSUME NEW p \in Watchdog!Posters, wPoster'[p] = wPoster[p]
  PROVE  /\ Watchdog!At(p, "store")' <=> Watchdog!At(p, "store")
         /\ Watchdog!At(p, "arm")' <=> Watchdog!At(p, "arm")
BY DEF Watchdog!At, Watchdog!Steps

(* Every step of postWatchDogJob keeps a stored job covered.                *)
LEMMA PostKeeps ==
  ASSUME WInv, NEW p \in Watchdog!Posters, Watchdog!PostWatchDogJob(p)
  PROVE  WInv'
<1> DEFINE T == [at : Nat, code : WCodes]
<1>1. /\ wPoster \in [Watchdog!Posters -> T] /\ wPoster[p] \in T
      /\ wAction \in [pc : {"idle", "load", "reset", "act"}, job : WCodes]
  BY DEF WInv
<1>2. ASSUME NEW new \in T, wPoster' = [wPoster EXCEPT ![p] = new],
             wAction' = wAction, wJob' \in WCodes,
             wJob' # DoNothing => WCovered'
      PROVE  WInv'
  BY <1>1, <1>2 DEF WInv
<1>3. ASSUME NEW q \in Watchdog!Posters, wPoster' = [wPoster EXCEPT ![p] = wPoster'[p]],
             q # p, Watchdog!At(q, "store") \/ Watchdog!At(q, "arm")
      PROVE  Watchdog!At(q, "store")' \/ Watchdog!At(q, "arm")'
  BY <1>1, <1>3, WatchdogOthers
<1>4. CASE Watchdog!Enter(p)
  <2>1. PICK code \in WCodes : wPoster' = [wPoster EXCEPT ![p] = [at |-> 1, code |-> code]]
    BY <1>4 DEF Watchdog!Enter, Watchdog!Codes, WCodes, Watchdog!Jobs
  <2>2. ~ Watchdog!At(p, "store") /\ ~ Watchdog!At(p, "arm")
    BY <1>1, <1>4, WatchdogSteps DEF Watchdog!Enter
  <2>3. WCovered => WCovered'
    BY <1>1, <1>3, <1>4, <2>1, <2>2 DEF WCovered, Watchdog!Enter
  <2>4. [at |-> 1, code |-> code] \in T
    OBVIOUS
  <2> QED
    BY <1>2, <1>4, <2>1, <2>3, <2>4 DEF Watchdog!Enter, WInv
<1>5. ASSUME Watchdog!Done(p)
      PROVE  /\ wPoster' = [wPoster EXCEPT ![p] = wPoster'[p]] /\ wPoster'[p] \in T
             /\ wPoster'[p].at = wPoster[p].at + 1 /\ wPoster'[p].code = wPoster[p].code
  BY <1>1, <1>5 DEF Watchdog!Done
<1>6. CASE Watchdog!Cancel(p)
  <2>1. Watchdog!At(p, "store")'
    BY <1>1, <1>5, <1>6, WatchdogSteps DEF Watchdog!Cancel, Watchdog!At, Watchdog!Steps
  <2> QED
    BY <1>2, <1>5, <1>6, <2>1 DEF Watchdog!Cancel, WCovered, WInv
<1>7. CASE Watchdog!Store(p)
  <2>1. wJob' # DoNothing => Watchdog!At(p, "arm")'
    BY <1>1, <1>5, <1>7, WatchdogSteps DEF Watchdog!Store, Watchdog!At, Watchdog!Steps
  <2> QED
    BY <1>1, <1>2, <1>5, <1>7, <2>1 DEF Watchdog!Store, WCovered
<1>8. CASE Watchdog!Arm(p)
  BY <1>2, <1>5, <1>8 DEF Watchdog!Arm, WCovered, WInv
<1>9. CASE Watchdog!Leave(p)
  <2>1. ~ Watchdog!At(p, "store") /\ ~ Watchdog!At(p, "arm")
    BY <1>9 DEF Watchdog!Leave, Watchdog!At, Watchdog!Steps
  <2>2. Watchdog!Idle \in T
    BY DEF Watchdog!Idle, WCodes
  <2>3. wPoster' = [wPoster EXCEPT ![p] = wPoster'[p]]
    BY <1>1, <1>9 DEF Watchdog!Leave
  <2>4. WCovered => WCovered'
    BY <1>3, <1>9, <2>1, <2>3 DEF WCovered, Watchdog!Leave
  <2> QED
    BY <1>2, <1>9, <2>2, <2>4 DEF Watchdog!Leave, WInv
<1> QED
  BY <1>4, <1>6, <1>7, <1>8, <1>9 DEF Watchdog!PostWatchDogJob

(* So does every step of watchDogAction.                                    *)
LEMMA ActionKeeps ==
  ASSUME WInv, Watchdog!WatchDogAction
  PROVE  WInv'
<1>1. /\ wPoster' = wPoster
      /\ \A p \in Watchdog!Posters :
           /\ Watchdog!At(p, "store")' <=> Watchdog!At(p, "store")
           /\ Watchdog!At(p, "arm")' <=> Watchdog!At(p, "arm")
  BY WatchdogOthers DEF Watchdog!WatchDogAction, Watchdog!Fire, Watchdog!LoadJob,
     Watchdog!ResetJob, Watchdog!Act
<1>2. CASE Watchdog!Fire
  BY <1>1, <1>2 DEF Watchdog!Fire, WInv, WCovered
<1>3. CASE Watchdog!LoadJob
  <2>1. wJob # DoNothing => wJob' # DoNothing
    BY <1>3 DEF Watchdog!LoadJob
  <2> QED
    BY <1>1, <1>3 DEF Watchdog!LoadJob, WInv, WCovered
<1>4. CASE Watchdog!ResetJob
  BY <1>1, <1>4 DEF Watchdog!ResetJob, WInv, WCodes
<1>5. CASE Watchdog!Act
  BY <1>1, <1>5 DEF Watchdog!Act, WInv, WCovered, WCodes
<1> QED
  BY <1>2, <1>3, <1>4, <1>5 DEF Watchdog!WatchDogAction

(* A stored watchdog job is never left without its timer or a thread about *)
(* to arm it, however many threads post at once and wherever the action of *)
(* the timer comes between (postWatchDogJob, watchDogAction).              *)
THEOREM StoredJobHasTimer == Watchdog!Spec => []JobHasTimer
<1>1. Watchdog!Init => WInv
  BY DEF Watchdog!Init, Watchdog!Idle, WInv, WCodes
<1>2. WInv /\ [Watchdog!Next]_(Watchdog!vars) => WInv'
  <2>1. ASSUME WInv, Watchdog!Next PROVE WInv'
    BY <2>1, PostKeeps, ActionKeeps DEF Watchdog!Next
  <2>2. ASSUME WInv, UNCHANGED Watchdog!vars PROVE WInv'
    BY <2>2, WatchdogOthers DEF Watchdog!vars, WInv, WCovered
  <2> QED
    BY <2>1, <2>2
<1>3. WInv => JobHasTimer
  <2> SUFFICES ASSUME WInv, wJob # DoNothing, wAction.pc = "idle",
                      \A p \in Watchdog!Posters : wPoster[p] = Watchdog!Idle
               PROVE  wTimer = "armed"
    BY DEF JobHasTimer, Watchdog!JobHasTimer
  <2>1. \A p \in Watchdog!Posters : wPoster[p] \in [at : Nat, code : WCodes]
    BY DEF WInv
  <2>2. \A p \in Watchdog!Posters : wPoster[p].at = 0
    BY DEF Watchdog!Idle
  <2> QED
    BY <2>1, <2>2, WatchdogSteps DEF WInv, WCovered
<1> QED
  BY <1>1, <1>2, <1>3, PTL DEF Watchdog!Spec

-----------------------------------------------------------------------------
(* The hibernation key.                                                    *)

ETyped ==
  /\ eSubmit \in [pc : {"off", "idle", "private", "rtc", "out", "sync"},
                  key : Nat, value : BOOLEAN]
  /\ eStaged \in [encrypted : BOOLEAN, key : Nat]
  /\ eNvram \in [encrypted : BOOLEAN, key : Nat]
  /\ eKeys \in Nat /\ eRtc \in Nat /\ eLasting \in BOOLEAN

(* The key of an encrypted value is in the RTC memory from the moment the  *)
(* value is kept, and while one is on its way nothing counts as lasting.   *)
EInv ==
  /\ ETyped
  /\ eSubmit.pc \in {"private", "rtc", "out", "sync"} => eLasting = FALSE
  /\ eSubmit.pc \in {"idle", "private"} => eSubmit.value = FALSE
  /\ eSubmit.pc = "out" /\ eSubmit.value = TRUE => eSubmit.key = eRtc
  /\ eSubmit.pc = "sync" /\ eStaged.encrypted = TRUE => eStaged.key = eRtc
  /\ eLasting = TRUE /\ eNvram.encrypted = TRUE => eRtc = eNvram.key

(* What a successful submission left behind can be read by the boot        *)
(* loader, after any failures and power losses, boots and keys             *)
(* (submitEncryptionKey).                                                  *)
THEOREM SubmissionReadable == Efi!Spec => []SubmittedReadable
<1>1. Efi!Init => EInv
  <2> SUFFICES ASSUME Efi!Init PROVE EInv
    OBVIOUS
  <2>1. /\ eSubmit = [pc |-> "off", key |-> 0, value |-> FALSE]
        /\ eStaged = [encrypted |-> FALSE, key |-> 0] /\ eNvram = eStaged
        /\ eKeys = 0 /\ eRtc = 0 /\ eLasting = FALSE
    BY DEF Efi!Init, Efi!Off, Efi!Plain
  <2>2. ETyped
    BY <2>1 DEF ETyped
  <2> QED
    BY <2>1, <2>2 DEF EInv
<1>2. EInv /\ [Efi!Next]_(Efi!vars) => EInv'
  <2> SUFFICES ASSUME EInv, [Efi!Next]_(Efi!vars) PROVE EInv'
    OBVIOUS
  <2>1. CASE Efi!Boot
    <3>1. eRtc' \in {0, eRtc}
      BY <2>1 DEF Efi!Boot, Efi!EraseTempEncryptionKey
    <3>2. /\ eSubmit' = [pc |-> "idle", key |-> 0, value |-> FALSE]
          /\ eLasting' = FALSE
          /\ eStaged' = eStaged /\ eNvram' = eNvram /\ eKeys' = eKeys
      BY <2>1 DEF Efi!Boot, Efi!Idle, Efi!Off
    <3>3. eRtc' \in Nat
      BY <3>1 DEF EInv, ETyped
    <3>4. ETyped'
      BY <3>2, <3>3 DEF EInv, ETyped
    <3> QED
      BY <3>2, <3>4 DEF EInv
  <2>2. CASE Efi!PowerOff
    BY <2>2 DEF EInv, ETyped, Efi!PowerOff, Efi!Off
  <2>3. CASE Efi!UpdateHBKP
    BY <2>3 DEF EInv, ETyped, Efi!UpdateHBKP
  <2>4. CASE Efi!Encrypt
    <3>1. /\ eSubmit' \in [pc : {"rtc", "out"}, key : Nat, value : BOOLEAN]
          /\ eSubmit'.pc = "out" => eSubmit'.value = FALSE
          /\ eKeys' \in Nat /\ eSubmit.pc = "private"
      <4>1. eKeys \in Nat /\ eSubmit.pc = "private" /\ eSubmit.value = FALSE
            /\ eSubmit \in [pc : {"private"}, key : Nat, value : BOOLEAN]
        BY <2>4 DEF EInv, ETyped, Efi!Encrypt
      <4>2. CASE eSubmit' = [pc |-> "rtc", key |-> eKeys + 1, value |-> TRUE]
                 /\ eKeys' = eKeys + 1
        BY <4>1, <4>2
      <4>3. CASE eSubmit' = [eSubmit EXCEPT !.pc = "out"] /\ eKeys' = eKeys
        BY <4>1, <4>3
      <4> QED
        BY <2>4, <4>2, <4>3 DEF Efi!Encrypt
    <3>2. /\ eStaged' = eStaged /\ eNvram' = eNvram /\ eRtc' = eRtc
          /\ eLasting' = eLasting /\ eLasting = FALSE
      BY <2>4 DEF EInv, Efi!Encrypt
    <3>3. ETyped'
      BY <3>1, <3>2 DEF EInv, ETyped
    <3> QED
      BY <3>1, <3>2, <3>3 DEF EInv
  <2>5. CASE Efi!WriteRtc
    <3>1. PICK written \in BOOLEAN :
            /\ eRtc' = IF written THEN eSubmit.key ELSE eRtc
            /\ eSubmit' = [eSubmit EXCEPT !.pc = "out", !.value = written]
      BY <2>5 DEF Efi!WriteRtc, Efi!Kept
    <3>2. /\ eSubmit.pc = "rtc" /\ eLasting = FALSE
          /\ UNCHANGED <<eStaged, eNvram, eKeys, eLasting>>
      BY <2>5 DEF Efi!WriteRtc, EInv
    <3>3. /\ eSubmit' \in [pc : {"out"}, key : Nat, value : BOOLEAN]
          /\ eSubmit'.value = written /\ eSubmit'.key = eSubmit.key
      BY <3>1 DEF EInv, ETyped
    <3>4. ETyped'
      BY <3>1, <3>2, <3>3 DEF EInv, ETyped
    <3> QED
      BY <3>1, <3>2, <3>3, <3>4 DEF EInv
  <2>6. CASE Efi!WriteStorage
    <3>1. /\ eSubmit' \in [pc : {"idle", "sync"}, key : Nat, value : BOOLEAN]
          /\ eSubmit'.pc = "idle" => eSubmit'.value = FALSE
          /\ eStaged' \in [encrypted : BOOLEAN, key : Nat]
          /\ eSubmit'.pc = "sync" /\ eStaged'.encrypted = TRUE => eStaged'.key = eRtc
      <4>1. eSubmit.pc = "out"
            /\ eSubmit \in [pc : {"out"}, key : Nat, value : BOOLEAN]
            /\ eStaged \in [encrypted : BOOLEAN, key : Nat]
            /\ (eSubmit.value = TRUE => eSubmit.key = eRtc)
        BY <2>6 DEF EInv, ETyped, Efi!WriteStorage
      <4>2. CASE /\ eStaged' = IF eSubmit.value
                               THEN [encrypted |-> TRUE, key |-> eSubmit.key]
                               ELSE [encrypted |-> FALSE, key |-> 0]
                 /\ eSubmit' = [eSubmit EXCEPT !.pc = "sync"]
        <5>1. eSubmit' \in [pc : {"sync"}, key : Nat, value : BOOLEAN]
          BY <4>1, <4>2
        <5>2. CASE eSubmit.value = TRUE
          BY <4>1, <4>2, <5>1, <5>2
        <5>3. CASE eSubmit.value = FALSE
          BY <4>1, <4>2, <5>1, <5>3
        <5> QED
          BY <4>1, <5>2, <5>3
      <4>3. CASE eSubmit' = [pc |-> "idle", key |-> 0, value |-> FALSE]
                 /\ eStaged' = eStaged
        BY <4>1, <4>3
      <4> QED
        BY <2>6, <4>2, <4>3 DEF Efi!WriteStorage, Efi!Plain, Efi!Idle, Efi!Off
    <3>2. /\ eNvram' = eNvram /\ eRtc' = eRtc /\ eKeys' = eKeys
          /\ eLasting' = eLasting /\ eLasting = FALSE
      BY <2>6 DEF EInv, Efi!WriteStorage
    <3>3. ETyped'
      BY <3>1, <3>2 DEF EInv, ETyped
    <3> QED
      BY <3>1, <3>2, <3>3 DEF EInv
  <2>7. CASE Efi!Sync
    <3>1. /\ eSubmit' = [pc |-> "idle", key |-> 0, value |-> FALSE]
          /\ UNCHANGED <<eStaged, eRtc, eKeys>>
          /\ \/ eNvram' = eStaged
             \/ UNCHANGED <<eNvram, eLasting>>
          /\ eLasting' \in BOOLEAN /\ eSubmit.pc = "sync"
      BY <2>7 DEF Efi!Sync, Efi!Idle, Efi!Off, EInv, ETyped
    <3>2. ETyped'
      BY <3>1 DEF EInv, ETyped
    <3> QED
      BY <3>1, <3>2 DEF EInv
  <2>8. CASE UNCHANGED Efi!vars
    BY <2>8 DEF EInv, ETyped, Efi!vars
  <2> QED
    BY <2>1, <2>2, <2>3, <2>4, <2>5, <2>6, <2>7, <2>8 DEF Efi!Next
<1>3. EInv => SubmittedReadable
  BY DEF EInv, SubmittedReadable, Efi!SubmittedReadable
<1> QED
  BY <1>1, <1>2, <1>3, PTL DEF Efi!Spec

-----------------------------------------------------------------------------
(* The keys that tell time.                                                *)

(* The counter is no more than the time since the wake it was read for.    *)
CInv ==
  /\ cNow \in Nat /\ cLastWake \in Nat
  /\ cClwk \in [counter : Nat, pending : BOOLEAN, halt : BOOLEAN, wake : Nat]
  /\ cClwk.counter <= cNow - cClwk.wake
  /\ cClwk.counter <= MaxCounter
  /\ cClwk.wake <= cLastWake /\ cLastWake <= cNow

(* CLWK only starts again after a wake or when the driver resets it        *)
(* (VirtualSMCValueCLWK::readAccess, update).                              *)
THEOREM WakeCounterOnlyGrows ==
  ASSUME Clock!ClockAssumption PROVE Clock!Spec => WakeCounterGrows
<1>1. Clock!Init => CInv
  BY DEF Clock!Init, CInv, Clock!ClockAssumption
<1> DEFINE Grows == cClwk'.counter < cClwk.counter
                    => cClwk'.pending \/ cClwk'.wake # cClwk.wake
<1>2. CInv /\ [Clock!Next]_(Clock!vars) => CInv' /\ [Grows]_cClwk
  <2> SUFFICES ASSUME CInv, [Clock!Next]_(Clock!vars) PROVE CInv' /\ [Grows]_cClwk
    OBVIOUS
  <2>1. CASE Clock!ReadCLWK
    <3> DEFINE woken == cLastWake > 0 /\ cLastWake # cClwk.wake
               c == IF woken THEN [cClwk EXCEPT !.wake = cLastWake, !.pending = FALSE,
                                                !.halt = FALSE]
                    ELSE cClwk
    <3>1. cClwk' = IF c.pending \/ c.halt THEN c
                   ELSE [c EXCEPT !.counter = Clock!Capped(cNow - cLastWake)]
      BY <2>1 DEF Clock!ReadCLWK
    <3>2. UNCHANGED <<cNow, cLastWake>>
      BY <2>1 DEF Clock!ReadCLWK
    <3>3. Clock!Capped(cNow - cLastWake) \in Nat
          /\ Clock!Capped(cNow - cLastWake) <= MaxCounter
          /\ Clock!Capped(cNow - cLastWake) <= cNow - cLastWake
          /\ (cClwk.wake = cLastWake => cClwk.counter <= Clock!Capped(cNow - cLastWake))
      BY DEF Clock!Capped, Clock!ClockAssumption, CInv
    <3>4. CASE woken
      <4>1. cClwk' \in [counter : Nat, pending : BOOLEAN, halt : BOOLEAN, wake : Nat]
            /\ cClwk'.wake = cLastWake
            /\ cClwk'.counter = Clock!Capped(cNow - cLastWake)
        BY <3>1, <3>3, <3>4 DEF CInv
      <4>2. cClwk'.wake # cClwk.wake
        BY <3>4, <4>1
      <4>3. CInv'
        BY <3>2, <3>3, <4>1 DEF CInv
      <4> QED
        BY <4>2, <4>3
    <3>5. CASE ~woken
      <4>1. cClwk.wake = cLastWake
        BY <3>5 DEF CInv
      <4> QED
        BY <3>1, <3>2, <3>3, <3>5, <4>1 DEF CInv
    <3> QED
      BY <3>4, <3>5
  <2>2. ASSUME NEW one \in BOOLEAN, Clock!UpdateCLWK(one)
        PROVE  CInv' /\ [Grows]_cClwk
    <3>1. cNow' = cNow /\ cLastWake' = cLastWake
      BY <2>2 DEF Clock!UpdateCLWK
    <3>2. cClwk' \in [counter : Nat, pending : BOOLEAN, halt : BOOLEAN, wake : Nat]
          /\ cClwk'.wake = cClwk.wake
          /\ \/ cClwk'.counter = 0 /\ cClwk'.pending = TRUE
             \/ cClwk'.counter = cClwk.counter
      BY <2>2 DEF Clock!UpdateCLWK, CInv
    <3>3. CInv'
      BY <3>1, <3>2 DEF CInv, Clock!ClockAssumption
    <3> QED
      BY <3>2, <3>3 DEF CInv
  <2>3. CASE Clock!Tick
    BY <2>3 DEF Clock!Tick, CInv
  <2>4. CASE Clock!Wake
    BY <2>4 DEF Clock!Wake, CInv
  <2>5. CASE Clock!ReadCLKT \/ Clock!UpdateCLKT \/ UNCHANGED Clock!vars
    BY <2>5 DEF Clock!ReadCLKT, Clock!UpdateCLKT, Clock!vars, CInv
  <2> QED
    BY <2>1, <2>2, <2>3, <2>4, <2>5 DEF Clock!Next
<1> QED
  BY <1>1, <1>2, PTL DEF Clock!Spec, WakeCounterGrows, Clock!WakeCounterGrows

-----------------------------------------------------------------------------
(* The refresh of the sensors.                                             *)

CpuStates ==
  [flag : BOOLEAN, timer : {"off", "slow", "quick"}, pc : {"idle", "lock", "update"}]

SioStates ==
  [flag : BOOLEAN, timer : {"off", "slow", "quick"}, pc : {"idle", "arm", "clear"},
   failed : SUBSET {"slow", "quick"}]

(* SuperIO's timer is only off while its action runs, or after it failed.  *)
SInv ==
  /\ sCpu \in CpuStates /\ sSio \in SioStates
  /\ sReader \in [Readers -> {"idle", "cpu", "arm"}]
  /\ RefreshComes
  /\ sSio.pc # "arm" => sSio.timer # "off" \/ "slow" \in sSio.failed

(* A sensor that was read gets its refresh, however many threads read,     *)
(* wherever the timer comes between and whichever single setting of it     *)
(* fails (quickReschedule, timerCallback).                                 *)
THEOREM RefreshAlwaysComes == Sensors!Spec => []RefreshComes
<1> USE DEF RefreshComes, Sensors!RefreshComes, Sensors!CpuRefreshComes,
        Sensors!SioRefreshComes
<1>1. Sensors!Init => SInv
  BY DEF Sensors!Init, Sensors!Started, SInv, CpuStates, SioStates
<1>2. SInv /\ [Sensors!Next]_(Sensors!vars) => SInv'
  <2> SUFFICES ASSUME SInv, [Sensors!Next]_(Sensors!vars) PROVE SInv'
    OBVIOUS
  <2> USE DEF SInv, CpuStates, SioStates
  <2>1. ASSUME NEW r \in Readers, Sensors!ReadCpu(r) PROVE SInv'
    BY <2>1 DEF Sensors!ReadCpu, Sensors!Goto
  <2>2. ASSUME NEW r \in Readers, Sensors!QuickReschedule(r) PROVE SInv'
    <3>1. /\ sCpu' \in CpuStates
          /\ sCpu'.flag => sCpu'.timer # "off" \/ sCpu'.pc # "idle"
      <4>1. CASE sCpu' = sCpu
        BY <4>1
      <4>2. CASE sCpu' = [sCpu EXCEPT !.flag = TRUE, !.timer = "quick"]
        BY <4>2
      <4> QED
        BY <2>2, <4>1, <4>2 DEF Sensors!QuickReschedule
    <3> QED
      BY <2>2, <3>1 DEF Sensors!QuickReschedule, Sensors!Goto
  <2>3. ASSUME NEW r \in Readers, Sensors!TestAndSet(r) PROVE SInv'
    BY <2>3 DEF Sensors!TestAndSet, Sensors!Goto
  <2>4. ASSUME NEW r \in Readers, Sensors!ArmQuick(r) PROVE SInv'
    BY <2>4 DEF Sensors!ArmQuick, Sensors!Goto, Sensors!SetTimeout
  <2>5. CASE Sensors!FireCpu
    BY <2>5 DEF Sensors!FireCpu
  <2>6. CASE Sensors!LockCpu
    BY <2>6 DEF Sensors!LockCpu
  <2>7. CASE Sensors!UpdateCpu
    BY <2>7 DEF Sensors!UpdateCpu, Sensors!Rested
  <2>8. CASE Sensors!FireSio
    BY <2>8 DEF Sensors!FireSio
  <2>9. CASE Sensors!ArmSio
    <3>1. /\ sSio' \in SioStates /\ sSio'.pc = "clear"
          /\ sSio'.timer # "off" \/ "slow" \in sSio'.failed
      <4>1. CASE sSio' = [[sSio EXCEPT !.pc = "clear"] EXCEPT !.timer = "slow"]
        BY <4>1
      <4>2. CASE sSio' = [[sSio EXCEPT !.pc = "clear"] EXCEPT !.failed = @ \cup {"slow"}]
        BY <4>2
      <4> QED
        BY <2>9, <4>1, <4>2 DEF Sensors!ArmSio, Sensors!SetTimeout
    <3> QED
      BY <2>9, <3>1 DEF Sensors!ArmSio
  <2>10. CASE Sensors!ClearSio
    BY <2>10 DEF Sensors!ClearSio, Sensors!Rested
  <2>11. CASE UNCHANGED Sensors!vars
    BY <2>11 DEF Sensors!vars
  <2> QED
    BY <2>1, <2>2, <2>3, <2>4, <2>5, <2>6, <2>7, <2>8, <2>9, <2>10, <2>11
       DEF Sensors!Next
<1>3. SInv => RefreshComes
  BY DEF SInv
<1> QED
  BY <1>1, <1>2, <1>3, PTL DEF Sensors!Spec

-----------------------------------------------------------------------------
(* The countdown keys of the watchdog.                                     *)

TInv ==
  /\ tNow \in Nat
  /\ tKey \in [Timers!Timers -> [data : Nat, start : Nat]]
  /\ tWatchdog \in [job : Timers!Jobs \cup {DoNothing}, due : Nat, by : Timers!Timers]
  /\ CountdownHonest

(* Counting in whole seconds rounds down.                                  *)
LEMMA RoundsDown ==
  ASSUME NEW a \in Nat, NEW b \in Nat \ {0}
  PROVE  a \div b \in Nat /\ (a \div b) * b <= a
OBVIOUS

(* A countdown that starts has its seconds and starts now, or not at all.   *)
LEMMA CountTyped ==
  ASSUME TInv, Timers!TimerAssumption, NEW s \in Nat
  PROVE  /\ Timers!StartCountdown(s) \in [data : Nat, start : Nat]
         /\ Timers!StartCountdown(s).data = s
         /\ Timers!StartCountdown(s).start \in {0, tNow}
BY DEF TInv, Timers!StartCountdown

(* What is left of a countdown ends no later than the countdown.           *)
LEMMA LeftEndsInTime ==
  ASSUME TInv, Timers!TimerAssumption, NEW t \in Timers!Timers
  PROVE  /\ Timers!Left(tKey[t]) \in Nat
         /\ \/ Timers!Left(tKey[t]) = 0
            \/ tNow + Timers!Left(tKey[t]) * Second
                 <= tKey[t].start + tKey[t].data * Second
<1> DEFINE left == tKey[t].data * Second - (tNow - tKey[t].start)
<1>1. left \in Int /\ Second \in Nat \ {0} /\ tNow \in Nat
      /\ tKey[t].data \in Nat /\ tKey[t].start \in Nat
      /\ tKey[t].data * Second \in Nat
  BY DEF TInv, Timers!TimerAssumption
<1>2. Timers!Left(tKey[t]) = IF left <= 0 THEN 0 ELSE left \div Second
  BY DEF Timers!Left
<1>3. CASE left <= 0
  BY <1>2, <1>3
<1>4. CASE left > 0
  <2>1. left \in Nat
    BY <1>1, <1>4
  <2>2. left \div Second \in Nat /\ (left \div Second) * Second <= left
    BY <1>1, <2>1, RoundsDown
  <2>3. Timers!Left(tKey[t]) = left \div Second
    BY <1>1, <1>2, <1>4
  <2>4. left = tKey[t].start + tKey[t].data * Second - tNow
    BY <1>1
  <2> HIDE DEF left
  <2> QED
    BY <1>1, <2>1, <2>2, <2>3, <2>4
<1> QED
  BY <1>1, <1>3, <1>4

(* OSWD and NATi never promise more time than the watchdog they started    *)
(* leaves, however often they are read (VirtualSMCValueTimer::readAccess). *)
THEOREM CountdownsAreHonest ==
  ASSUME Timers!TimerAssumption PROVE Timers!Spec => []CountdownHonest
<1> DEFINE Honest(k, due) == due # 0 /\ k.start # 0 => k.start + k.data * Second <= due
<1>1. Timers!Init => TInv
  BY DEF Timers!Init, Timers!NoJob, TInv, CountdownHonest, Timers!CountdownHonest,
         Timers!Timers
<1>2. TInv /\ [Timers!Next]_(Timers!vars) => TInv'
  <2> SUFFICES ASSUME TInv, [Timers!Next]_(Timers!vars) PROVE TInv'
    OBVIOUS
  <2>1. /\ Second \in Nat \ {0} /\ MaxSeconds \in Nat /\ tNow \in Nat
        /\ tKey \in [Timers!Timers -> [data : Nat, start : Nat]]
        /\ Honest(tKey[tWatchdog.by], tWatchdog.due)
        /\ tWatchdog \in [job : Timers!Jobs \cup {DoNothing}, due : Nat,
                          by : Timers!Timers]
    BY DEF TInv, CountdownHonest, Timers!CountdownHonest, Timers!TimerAssumption
  <2>2. ASSUME tNow' \in Nat,
               tKey' \in [Timers!Timers -> [data : Nat, start : Nat]],
               tWatchdog' \in [job : Timers!Jobs \cup {DoNothing}, due : Nat,
                               by : Timers!Timers],
               Honest(tKey'[tWatchdog'.by], tWatchdog'.due)
        PROVE  TInv'
    BY <2>2 DEF TInv, CountdownHonest, Timers!CountdownHonest
  <2>3. CASE Timers!Tick
    BY <2>1, <2>2, <2>3 DEF Timers!Tick
  <2>4. CASE Timers!Fire
    BY <2>1, <2>2, <2>4 DEF Timers!Fire, Timers!NoJob, Timers!Timers
  <2>5. ASSUME NEW t \in Timers!Timers, Timers!ReadTimer(t) PROVE TInv'
    <3> DEFINE new == IF tKey[t].start = 0 THEN tKey[t]
                      ELSE Timers!StartCountdown(Timers!Left(tKey[t]))
    <3>1. /\ tKey' = [tKey EXCEPT ![t] = new]
          /\ UNCHANGED <<tNow, tWatchdog>>
      BY <2>1, <2>5 DEF Timers!ReadTimer
    <3>2. new \in [data : Nat, start : Nat]
      BY <2>1, CountTyped, LeftEndsInTime
    <3>3. ASSUME Honest(tKey[t], tWatchdog.due) PROVE Honest(new, tWatchdog.due)
      <4> SUFFICES ASSUME tWatchdog.due # 0, new.start # 0, tKey[t].start # 0
                   PROVE  new.start + new.data * Second <= tWatchdog.due
        BY <2>1, <3>3
      <4>1. /\ new.start = tNow /\ new.data = Timers!Left(tKey[t])
            /\ new.data > 0 /\ new.data \in Nat
        BY <2>1, LeftEndsInTime DEF Timers!StartCountdown
      <4>2. tNow + new.data * Second <= tKey[t].start + tKey[t].data * Second
        BY <4>1, LeftEndsInTime
      <4>3. tWatchdog.due \in Nat /\ tKey[t].start \in Nat /\ tKey[t].data * Second \in Nat
            /\ new.data * Second \in Nat
        BY <2>1, <4>1
      <4>4. tKey[t].start + tKey[t].data * Second <= tWatchdog.due
        BY <3>3
      <4> HIDE DEF new
      <4> QED
        BY <2>1, <4>1, <4>2, <4>3, <4>4
    <3> HIDE DEF new
    <3>4. Honest(tKey'[tWatchdog'.by], tWatchdog'.due)
      BY <2>1, <3>1, <3>3
    <3> HIDE DEF Honest
    <3> QED
      BY <2>1, <2>2, <3>1, <3>2, <3>4
  <2>6. ASSUME NEW s \in 0 .. MaxSeconds, Timers!UpdateOSWD(s) PROVE TInv'
    <3>1. s \in Nat /\ s * Second \in Nat /\ tNow + s * Second \in Nat
      BY <2>1
    <3>2. /\ tKey' = [tKey EXCEPT !["OSWD"] = Timers!StartCountdown(s)]
          /\ tNow' = tNow
          /\ \/ tWatchdog' = [job |-> DoNothing, due |-> 0, by |-> "OSWD"]
             \/ \E code \in Timers!Jobs :
                  tWatchdog' = [job |-> code, due |-> tNow + s * Second, by |-> "OSWD"]
      BY <2>6 DEF Timers!UpdateOSWD, Timers!Post, Timers!NoJob, Timers!Jobs
    <3>3. Honest(Timers!StartCountdown(s), tNow + s * Second)
      BY <2>1, <3>1 DEF Timers!StartCountdown
    <3> QED
      BY <2>1, <2>2, <3>1, <3>2, <3>3, CountTyped DEF Timers!Timers
  <2>7. ASSUME NEW s \in 0 .. MaxSeconds, Timers!UpdateNATi(s) PROVE TInv'
    <3>1. [data |-> s, start |-> 0] \in [data : Nat, start : Nat]
      BY <2>1
    <3> QED
      BY <2>1, <2>2, <2>7, <3>1 DEF Timers!UpdateNATi, Timers!Timers
  <2>8. ASSUME NEW code \in Timers!Jobs \cup {DoNothing}, Timers!UpdateNATJ(code)
        PROVE  TInv'
    <3> DEFINE s == tKey["NATi"].data
    <3>1. s \in Nat /\ s * Second \in Nat /\ tNow + s * Second \in Nat
      BY <2>1 DEF Timers!Timers
    <3>2. /\ tKey' = [tKey EXCEPT !["NATi"] = Timers!StartCountdown(s)]
          /\ tNow' = tNow
          /\ \/ tWatchdog' = [job |-> DoNothing, due |-> 0, by |-> "OSWD"]
             \/ tWatchdog' = [job |-> code, due |-> tNow + s * Second, by |-> "NATi"]
      BY <2>1, <2>8 DEF Timers!UpdateNATJ, Timers!Post, Timers!NoJob, Timers!Timers
    <3>3. Honest(Timers!StartCountdown(s), tNow + s * Second)
      BY <2>1, <3>1 DEF Timers!StartCountdown
    <3> HIDE DEF s
    <3> QED
      BY <2>1, <2>2, <3>1, <3>2, <3>3, CountTyped DEF Timers!Timers
  <2>9. CASE UNCHANGED Timers!vars
    BY <2>1, <2>2, <2>9 DEF Timers!vars
  <2> QED
    BY <2>3, <2>4, <2>5, <2>6, <2>7, <2>8, <2>9 DEF Timers!Next
<1>3. TInv => CountdownHonest
  BY DEF TInv
<1> QED
  BY <1>1, <1>2, <1>3, PTL DEF Timers!Spec

-----------------------------------------------------------------------------
(* The fans of SMCDellSensors.                                             *)

DUpdates == [slot : Dell!Slots, value : SUBSET Fans]

(* A value of one fan's key switches that fan or none.                     *)
DProper(update) == update.value \in Dell!ValuesOf(update.slot)

DTyped ==
  /\ dQueue \in Seq(DUpdates)
  /\ dFans \in SUBSET Fans /\ dTarget \in SUBSET Fans /\ dAsked \in SUBSET Fans
  /\ dManual \in BOOLEAN /\ dFailed \in BOOLEAN
  /\ dWorker \in [pc : {"start", "idle", "apply", "status"}, update : DUpdates]
  /\ \A i \in DOMAIN dQueue : DProper(dQueue[i])
  /\ DProper(dWorker.update)

(* No key of a fan is stored twice.                                        *)
DOnce ==
  \A i, j \in DOMAIN dQueue : dQueue[i].slot = dQueue[j].slot => i = j

(* A value of a slot makes an update.                                       *)
LEMMA ValuesTyped ==
  ASSUME NEW slot \in Dell!Slots, NEW value \in Dell!ValuesOf(slot)
  PROVE  [slot |-> slot, value |-> value] \in DUpdates
BY DEF Dell!Slots, Dell!ValuesOf, DUpdates, Dell!ForceSlot

(* The update that switches manual control off is one, and of no target.    *)
LEMMA NoUpdateTyped ==
  /\ Dell!NoUpdate \in DUpdates /\ DProper(Dell!NoUpdate)
  /\ \A f \in Fans : Dell!NoUpdate.slot # <<"F0Tg", f>>
BY DEF Dell!NoUpdate, Dell!ForceSlot, Dell!Slots, DUpdates, DProper, Dell!ValuesOf

(* What storing an update makes of the queue: the update is in it, in the  *)
(* place of an older one, at its end, or not at all for want of room; the  *)
(* others are where they were.                                             *)
LEMMA StoreShape ==
  ASSUME DTyped, DOnce, NEW u \in DUpdates, DProper(u), Dell!Store(u)
  PROVE  /\ dQueue' \in Seq(DUpdates)
         /\ \A i \in DOMAIN dQueue' : DProper(dQueue'[i])
         /\ DOnce'
         /\ \A i \in DOMAIN dQueue : i \in DOMAIN dQueue' /\ dQueue'[i].slot = dQueue[i].slot
         /\ \A i \in DOMAIN dQueue' :
              \/ i \in DOMAIN dQueue /\ dQueue'[i] = dQueue[i] /\ dQueue[i].slot # u.slot
              \/ dQueue'[i] = u /\ Dell!Room(u.slot)
         /\ Dell!Room(u.slot) => \E i \in DOMAIN dQueue' : dQueue'[i] = u
<1>1. dQueue \in Seq(DUpdates) /\ Len(dQueue) \in Nat /\ DOMAIN dQueue = 1 .. Len(dQueue)
  BY DEF DTyped
<1>2. CASE Dell!Pending(u.slot) # {}
  <2>1. dQueue' = [i \in DOMAIN dQueue |->
                     IF i \in Dell!Pending(u.slot) THEN u ELSE dQueue[i]]
    BY <1>2 DEF Dell!Store, Dell!Overwritten
  <2>2. dQueue' \in Seq(DUpdates) /\ DOMAIN dQueue' = DOMAIN dQueue
    BY <1>1, <2>1
  <2>3. \A i \in DOMAIN dQueue : dQueue'[i].slot = dQueue[i].slot
    BY <2>1 DEF Dell!Pending
  <2>4. \A i \in DOMAIN dQueue : i \in Dell!Pending(u.slot) <=> dQueue[i].slot = u.slot
    BY DEF Dell!Pending
  <2>5. \E i \in DOMAIN dQueue' : dQueue'[i] = u
    BY <1>2, <2>1, <2>2 DEF Dell!Pending
  <2>6. DOnce'
    BY <2>2, <2>3 DEF DOnce
  <2> QED
    BY <1>2, <2>1, <2>2, <2>3, <2>4, <2>5, <2>6 DEF DTyped, Dell!Room
<1>3. CASE Dell!Pending(u.slot) = {} /\ Dell!Room(u.slot)
  <2>1. dQueue' = Append(dQueue, u)
    BY <1>3 DEF Dell!Store
  <2>2. /\ dQueue' \in Seq(DUpdates) /\ DOMAIN dQueue' = 1 .. Len(dQueue) + 1
        /\ dQueue'[Len(dQueue) + 1] = u
        /\ \A i \in DOMAIN dQueue : dQueue'[i] = dQueue[i]
    BY <1>1, <2>1
  <2>3. \A i \in DOMAIN dQueue : dQueue[i].slot # u.slot
    BY <1>3 DEF Dell!Pending
  <2>4. \A i \in DOMAIN dQueue' : i \in DOMAIN dQueue \/ i = Len(dQueue) + 1
    BY <1>1, <2>2
  <2>5. DOnce'
    BY <1>1, <2>2, <2>3, <2>4 DEF DOnce
  <2> QED
    BY <1>1, <1>3, <2>2, <2>3, <2>4, <2>5 DEF DTyped
<1>4. CASE Dell!Pending(u.slot) = {} /\ ~Dell!Room(u.slot)
  <2>1. dQueue' = dQueue
    BY <1>4 DEF Dell!Store
  <2>2. \A i \in DOMAIN dQueue : dQueue[i].slot # u.slot
    BY <1>4 DEF Dell!Pending
  <2> QED
    BY <1>4, <2>1, <2>2 DEF DTyped, DOnce
<1> QED
  BY <1>2, <1>3, <1>4

(* Switching one fan leaves the others.                                    *)
LEMMA SwitchesOne ==
  ASSUME NEW set \in SUBSET Fans, NEW u \in DUpdates, DProper(u),
         u.slot # Dell!ForceSlot
  PROVE  /\ Dell!Switched(set, u) \in SUBSET Fans
         /\ \A f \in Fans : f \in Dell!Switched(set, u) <=>
              IF u.slot[2] = f THEN f \in u.value ELSE f \in set
BY DEF DProper, DUpdates, Dell!Slots, Dell!ValuesOf, Dell!Switched, Dell!ForceSlot

(* The speed asked for is in the queue, with the worker, or applied.       *)
DLast(f) ==
  \/ \E i \in DOMAIN dQueue :
       dQueue[i].slot = <<"F0Tg", f>> /\ (f \in dQueue[i].value <=> f \in dAsked)
  \/ /\ \A i \in DOMAIN dQueue : dQueue[i].slot # <<"F0Tg", f>>
     /\ f \in dAsked <=> IF dWorker.pc = "apply" /\ dWorker.update.slot = <<"F0Tg", f>>
                         THEN f \in dWorker.update.value ELSE f \in dTarget

(* The mode agrees with the status that is stored, or with the one that    *)
(* will be.                                                                *)
DControl ==
  /\ dWorker.pc = "start" => dFans = {}
  /\ dFailed = FALSE /\ dWorker.pc \in {"idle", "apply"} =>
       (dManual = TRUE <=> dFans # {})
  /\ dWorker.pc = "status" => dWorker.update.slot[1] # "F0Tg"
  /\ dFailed = FALSE /\ dWorker.pc = "status" =>
       (dManual = TRUE <=> Dell!NewStatus(dWorker.update) # {})

DInv == DTyped /\ DOnce /\ (\A f \in Fans : DLast(f)) /\ DControl

(* The steps that touch neither the queue nor the fans.                    *)
DQuiet ==
  /\ dQueue' = dQueue /\ dFans' = dFans /\ dManual' = dManual /\ dTarget' = dTarget
  /\ dAsked' = dAsked /\ dFailed' = dFailed /\ dWorker' = dWorker

(* A step that moves nothing the invariant speaks of keeps it.              *)
LEMMA QuietKeeps ==
  ASSUME DInv, DQuiet PROVE DInv'
<1>1. DTyped'
  BY DEF DInv, DTyped, DQuiet
<1>2. DOnce' /\ (\A f \in Fans : DLast(f)')
  BY DEF DInv, DOnce, DLast, DQuiet
<1>3. DControl'
  BY DEF DInv, DControl, DQuiet, Dell!NewStatus, Dell!Switched
<1> QED
  BY <1>1, <1>2, <1>3 DEF DInv

(* An update that finds room is the last one asked for.                    *)
LEMMA StoreKeepsLast ==
  ASSUME DInv, NEW u \in DUpdates, DProper(u), Dell!Store(u),
         dAsked' = (IF u.slot[1] = "F0Tg" /\ Dell!Room(u.slot)
                    THEN Dell!Switched(dAsked, u) ELSE dAsked),
         dTarget' = dTarget, dWorker' = dWorker, NEW f \in Fans
  PROVE  DLast(f)' /\ dAsked' \in SUBSET Fans
<1> DEFINE slot == <<"F0Tg", f>>
<1>1. /\ \A i \in DOMAIN dQueue : i \in DOMAIN dQueue' /\ dQueue'[i].slot = dQueue[i].slot
      /\ \A i \in DOMAIN dQueue' :
           \/ i \in DOMAIN dQueue /\ dQueue'[i] = dQueue[i] /\ dQueue[i].slot # u.slot
           \/ dQueue'[i] = u /\ Dell!Room(u.slot)
      /\ Dell!Room(u.slot) => \E i \in DOMAIN dQueue' : dQueue'[i] = u
  BY StoreShape DEF DInv
<1>2. dAsked \in SUBSET Fans /\ DLast(f)
  BY DEF DInv, DTyped
<1>3. u.slot[1] = "F0Tg" => u.slot # Dell!ForceSlot
  BY DEF Dell!ForceSlot
<1>4. dAsked' \in SUBSET Fans
  BY <1>2, <1>3, SwitchesOne
<1>5. CASE u.slot = slot /\ Dell!Room(slot)
  <2>1. f \in dAsked' <=> f \in u.value
    BY <1>2, <1>3, <1>5, SwitchesOne
  <2> QED
    BY <1>1, <1>4, <1>5, <2>1 DEF DLast
<1>6. CASE u.slot = slot /\ ~Dell!Room(slot)
  <2>1. dAsked' = dAsked /\ \A i \in DOMAIN dQueue' : dQueue'[i].slot # slot
    BY <1>1, <1>6
  <2>2. \A i \in DOMAIN dQueue : dQueue[i].slot # slot
    BY <1>1, <2>1
  <2> QED
    BY <1>2, <1>4, <2>1, <2>2 DEF DLast
<1>7. CASE u.slot # slot
  <2>1. f \in dAsked' <=> f \in dAsked
    <3>1. CASE u.slot[1] = "F0Tg" /\ u.slot[2] = f
      BY <1>7, <3>1 DEF DUpdates, Dell!Slots
    <3>2. CASE ~(u.slot[1] = "F0Tg" /\ u.slot[2] = f)
      BY <1>2, <1>3, <3>2, SwitchesOne
    <3> QED
      BY <3>1, <3>2
  <2>2. ASSUME NEW i \in DOMAIN dQueue, dQueue[i].slot = slot
        PROVE  i \in DOMAIN dQueue' /\ dQueue'[i] = dQueue[i]
    BY <1>1, <1>7, <2>2
  <2>3. ASSUME \A i \in DOMAIN dQueue : dQueue[i].slot # slot
        PROVE  \A i \in DOMAIN dQueue' : dQueue'[i].slot # slot
    BY <1>1, <1>7, <2>3
  <2> QED
    BY <1>2, <1>4, <2>1, <2>2, <2>3 DEF DLast
<1> QED
  BY <1>4, <1>5, <1>6, <1>7

(* An update stored for a key that was written.                             *)
LEMMA StoreUpdateKeeps ==
  ASSUME DInv, NEW p \in DellPosters, Dell!StoreUpdate(p) PROVE DInv'
<1>1. PICK u \in DUpdates :
        /\ DProper(u) /\ Dell!Store(u)
        /\ dAsked' = (IF u.slot[1] = "F0Tg" /\ Dell!Room(u.slot)
                      THEN Dell!Switched(dAsked, u) ELSE dAsked)
  <2> DEFINE Stored(u) == /\ Dell!Store(u)
                          /\ dAsked' = (IF u.slot[1] = "F0Tg" /\ Dell!Room(u.slot)
                                        THEN Dell!Switched(dAsked, u) ELSE dAsked)
  <2>1. \E slot \in Dell!Slots : \E value \in Dell!ValuesOf(slot) :
          Stored([slot |-> slot, value |-> value])
    BY DEF Dell!StoreUpdate
  <2> HIDE DEF Stored
  <2>2. PICK slot \in Dell!Slots : \E value \in Dell!ValuesOf(slot) :
          Stored([slot |-> slot, value |-> value])
    BY <2>1
  <2>3. PICK value \in Dell!ValuesOf(slot) : Stored([slot |-> slot, value |-> value])
    BY <2>2
  <2> DEFINE u == [slot |-> slot, value |-> value]
  <2>4. u \in DUpdates /\ DProper(u)
    BY ValuesTyped DEF DProper
  <2> QED
    BY <2>3, <2>4 DEF Stored
<1>2. /\ dFans' = dFans /\ dManual' = dManual /\ dTarget' = dTarget
      /\ dFailed' = dFailed /\ dWorker' = dWorker
  BY DEF Dell!StoreUpdate
<1>4. dAsked' \in SUBSET Fans
  <2>1. u.slot[1] = "F0Tg" => u.slot # Dell!ForceSlot
    BY DEF Dell!ForceSlot
  <2>2. dAsked \in SUBSET Fans
    BY DEF DInv, DTyped
  <2> QED
    BY <1>1, <1>2, <2>1, <2>2, SwitchesOne
<1>5. \A f \in Fans : DLast(f)'
  BY <1>1, <1>2, StoreKeepsLast
<1>6. DTyped' /\ DOnce'
  BY <1>1, <1>2, <1>4, StoreShape DEF DInv, DTyped
<1>7. DControl'
  BY <1>2 DEF DInv, DControl, Dell!NewStatus, Dell!Switched
<1> QED
  BY <1>5, <1>6, <1>7 DEF DInv

(* The update that is forced at sleep.                                      *)
LEMMA ForceUpdateKeeps ==
  ASSUME DInv, Dell!ForceUpdate PROVE DInv'
<1>1. /\ Dell!Store(Dell!NoUpdate) /\ dAsked' = dAsked
      /\ dFans' = dFans /\ dManual' = dManual /\ dTarget' = dTarget
      /\ dFailed' = dFailed /\ dWorker' = dWorker
  BY DEF Dell!ForceUpdate
<1>2. Dell!NoUpdate.slot[1] # "F0Tg"
  BY DEF Dell!NoUpdate, Dell!ForceSlot
<1>3. \A f \in Fans : DLast(f)'
  BY <1>1, <1>2, NoUpdateTyped, StoreKeepsLast
<1>4. DTyped' /\ DOnce'
  BY <1>1, NoUpdateTyped, StoreShape DEF DInv, DTyped
<1>5. DControl'
  BY <1>1 DEF DInv, DControl, Dell!NewStatus, Dell!Switched
<1> QED
  BY <1>3, <1>4, <1>5 DEF DInv

(* A change of the mode that does not fail.                                *)
LEMMA ControlSet ==
  ASSUME DTyped, NEW on \in BOOLEAN, Dell!SetControl(on)
  PROVE  /\ dManual' \in BOOLEAN /\ dFailed' \in BOOLEAN
         /\ dFailed' = FALSE => dFailed = FALSE /\ (dManual' = TRUE <=> on)
<1>1. dManual \in BOOLEAN /\ dFailed \in BOOLEAN
  BY DEF DTyped
<1>2. CASE dManual' = on /\ dFailed' = dFailed
  <2>1. dManual' = TRUE <=> on
    BY <1>2
  <2> QED
    BY <1>1, <1>2, <2>1
<1>3. CASE dManual' = dManual /\ dFailed' = TRUE
  BY <1>1, <1>3
<1> QED
  BY <1>2, <1>3 DEF Dell!SetControl

(* Automatic control when the worker begins.                                *)
LEMMA ForceAutoKeeps == ASSUME DInv, Dell!ForceAuto PROVE DInv'
<1>1. /\ dWorker.pc = "start" /\ dFans = {} /\ dWorker \in [pc : {"start"}, update : DUpdates]
      /\ DProper(dWorker.update)
  BY DEF Dell!ForceAuto, DInv, DControl, DTyped
<1>2. /\ dWorker' \in [pc : {"idle"}, update : DUpdates] /\ dWorker'.update = dWorker.update
      /\ dQueue' = dQueue /\ dFans' = dFans /\ dTarget' = dTarget
      /\ dAsked' = dAsked
  BY <1>1 DEF Dell!ForceAuto
<1>3. /\ dManual' \in BOOLEAN /\ dFailed' \in BOOLEAN
      /\ dFailed' = FALSE => ~(dManual' = TRUE)
  BY ControlSet DEF Dell!ForceAuto, DInv
<1>4. DTyped'
  BY <1>1, <1>2, <1>3 DEF DInv, DTyped
<1>5. DOnce' /\ (\A f \in Fans : DLast(f)')
  BY <1>1, <1>2 DEF DInv, DOnce, DLast
<1>6. DControl'
  BY <1>1, <1>2, <1>3 DEF DControl
<1> QED
  BY <1>4, <1>5, <1>6 DEF DInv

(* The oldest update goes from the queue to the worker.                    *)
LEMMA TakeUpdateKeeps == ASSUME DInv, Dell!TakeUpdate PROVE DInv'
<1> DEFINE u == Head(dQueue)
<1>1. /\ dQueue \in Seq(DUpdates) /\ dQueue # <<>> /\ Len(dQueue) \in Nat \ {0}
      /\ DOMAIN dQueue = 1 .. Len(dQueue)
      /\ u = dQueue[1] /\ u \in DUpdates
      /\ Tail(dQueue) \in Seq(DUpdates) /\ DOMAIN Tail(dQueue) = 1 .. Len(dQueue) - 1
      /\ \A i \in DOMAIN Tail(dQueue) : Tail(dQueue)[i] = dQueue[i + 1]
  BY DEF DInv, DTyped, Dell!TakeUpdate
<1>2. DProper(u) /\ \A i \in DOMAIN Tail(dQueue) : DProper(Tail(dQueue)[i])
  <2>1. \A i \in DOMAIN dQueue : DProper(dQueue[i])
    BY DEF DInv, DTyped
  <2>2. 1 \in DOMAIN dQueue /\ \A i \in DOMAIN Tail(dQueue) : i + 1 \in DOMAIN dQueue
    BY <1>1
  <2> QED
    BY <1>1, <2>1, <2>2
<1>3. /\ dQueue' = Tail(dQueue) /\ dWorker' = [pc |-> "apply", update |-> u]
      /\ dWorker.pc = "idle" /\ dFans' = dFans /\ dManual' = dManual
      /\ dTarget' = dTarget /\ dAsked' = dAsked /\ dFailed' = dFailed
  BY DEF Dell!TakeUpdate
<1> HIDE DEF u
<1>4. DTyped'
  BY <1>1, <1>2, <1>3 DEF DInv, DTyped
<1>5. DOnce'
  <2> SUFFICES ASSUME NEW i \in DOMAIN Tail(dQueue), NEW j \in DOMAIN Tail(dQueue),
                      Tail(dQueue)[i].slot = Tail(dQueue)[j].slot
               PROVE  i = j
    BY <1>3 DEF DOnce
  <2>1. i + 1 \in DOMAIN dQueue /\ j + 1 \in DOMAIN dQueue
        /\ dQueue[i + 1].slot = dQueue[j + 1].slot
    BY <1>1
  <2>2. i + 1 = j + 1
    BY <2>1 DEF DInv, DOnce
  <2> QED
    BY <1>1, <2>2
<1>6. ASSUME NEW f \in Fans PROVE DLast(f)'
  <2> DEFINE slot == <<"F0Tg", f>>
  <2>1. DLast(f)
    BY DEF DInv
  <2>2. dWorker'.pc = "apply" /\ dWorker'.update = u
    BY <1>3
  <2>3. \A i \in DOMAIN Tail(dQueue) : i + 1 \in DOMAIN dQueue /\ i + 1 # 1
    BY <1>1
  <2>4. CASE u.slot = slot
    <3>1. \A i \in DOMAIN dQueue : dQueue[i].slot = slot => i = 1
      BY <1>1, <2>4 DEF DInv, DOnce
    <3>2. f \in u.value <=> f \in dAsked
      BY <1>1, <2>1, <2>4, <3>1 DEF DLast
    <3>3. \A i \in DOMAIN Tail(dQueue) : Tail(dQueue)[i].slot # slot
      BY <1>1, <2>3, <3>1
    <3> QED
      BY <1>3, <2>2, <2>4, <3>2, <3>3 DEF DLast
  <2>5. CASE u.slot # slot
    <3>1. CASE \A i \in DOMAIN dQueue : dQueue[i].slot # slot
      <4>1. \A i \in DOMAIN Tail(dQueue) : Tail(dQueue)[i].slot # slot
        BY <1>1, <2>3, <3>1
      <4>2. f \in dAsked <=> f \in dTarget
        BY <1>3, <2>1, <3>1 DEF DLast
      <4> QED
        BY <1>3, <2>2, <2>5, <4>1, <4>2 DEF DLast
    <3>2. ASSUME NEW i \in DOMAIN dQueue, dQueue[i].slot = slot,
                 f \in dQueue[i].value <=> f \in dAsked
          PROVE  DLast(f)'
      <4>1. i # 1 /\ i \in Nat
        BY <1>1, <2>5, <3>2
      <4>2. i - 1 \in DOMAIN Tail(dQueue) /\ Tail(dQueue)[i - 1] = dQueue[i]
        <5>1. i - 1 \in DOMAIN Tail(dQueue) /\ (i - 1) + 1 = i
          BY <1>1, <4>1
        <5> QED
          BY <1>1, <5>1
      <4> QED
        BY <1>3, <3>2, <4>2 DEF DLast
    <3> QED
      BY <2>1, <3>1, <3>2 DEF DLast
  <2> QED
    BY <2>4, <2>5
<1>7. DControl'
  <2>1. dWorker'.pc = "apply"
    BY <1>3
  <2> QED
    BY <1>3, <2>1 DEF DInv, DControl
<1> QED
  BY <1>4, <1>5, <1>6, <1>7 DEF DInv

(* The call that changes the mode.                                          *)
LEMMA CallSmmKeeps == ASSUME DInv, Dell!CallSmm PROVE DInv'
<1> DEFINE status == Dell!NewStatus(dWorker.update)
<1>1. /\ dWorker.pc = "apply" /\ dWorker.update.slot[1] # "F0Tg"
      /\ dWorker \in [pc : {"apply"}, update : DUpdates]
      /\ DProper(dWorker.update) /\ DTyped
  BY DEF Dell!CallSmm, DInv, DTyped
<1>2. /\ dWorker' \in [pc : {"status"}, update : DUpdates]
      /\ dWorker'.update = dWorker.update
      /\ dQueue' = dQueue /\ dFans' = dFans /\ dTarget' = dTarget
      /\ dAsked' = dAsked
  BY <1>1 DEF Dell!CallSmm
<1>3. /\ dManual' \in BOOLEAN /\ dFailed' \in BOOLEAN
      /\ dFailed' = FALSE => (dManual' = TRUE <=> status # {})
  <2>1. CASE Dell!ChangesMode(status)
    <3>1. Dell!SetControl(status # {})
      BY <2>1 DEF Dell!CallSmm
    <3>2. (status # {}) \in BOOLEAN
      OBVIOUS
    <3> QED
      BY <1>1, <3>1, <3>2, ControlSet
  <2>2. CASE ~Dell!ChangesMode(status)
    <3>1. dManual' = dManual /\ dFailed' = dFailed
      BY <2>2 DEF Dell!CallSmm
    <3>2. status # {} <=> dFans # {}
      BY <2>2 DEF Dell!ChangesMode
    <3> HIDE DEF status
    <3> QED
      BY <1>1, <3>1, <3>2 DEF DInv, DTyped, DControl
  <2> QED
    BY <2>1, <2>2
<1>4. status' = status
  BY <1>2 DEF Dell!NewStatus, Dell!Switched
<1>5. DTyped'
  BY <1>1, <1>2, <1>3 DEF DTyped
<1>6. DOnce' /\ (\A f \in Fans : DLast(f)')
  <2>1. \A f \in Fans : dWorker.update.slot # <<"F0Tg", f>>
    BY <1>1
  <2> QED
    BY <1>1, <1>2, <2>1 DEF DInv, DOnce, DLast
<1>7. DControl'
  BY <1>1, <1>2, <1>3, <1>4 DEF DControl
<1> QED
  BY <1>5, <1>6, <1>7 DEF DInv

(* The status stored after it.                                              *)
LEMMA StoreStatusKeeps == ASSUME DInv, Dell!StoreStatus PROVE DInv'
<1>1. /\ dWorker.pc = "status" /\ dWorker.update.slot[1] # "F0Tg"
      /\ dWorker.update \in DUpdates /\ DProper(dWorker.update)
  BY DEF Dell!StoreStatus, DInv, DControl, DTyped
<1>2. /\ dFans' = Dell!NewStatus(dWorker.update)
      /\ dWorker' = [pc |-> "idle", update |-> Dell!NoUpdate]
      /\ dQueue' = dQueue /\ dManual' = dManual /\ dTarget' = dTarget
      /\ dAsked' = dAsked /\ dFailed' = dFailed
  BY DEF Dell!StoreStatus
<1>3. dFans' \in SUBSET Fans
  <2>1. CASE dWorker.update.slot = Dell!ForceSlot
    BY <1>1, <1>2, <2>1 DEF Dell!NewStatus, DUpdates
  <2>2. CASE dWorker.update.slot # Dell!ForceSlot
    BY <1>1, <1>2, <2>2, SwitchesOne DEF Dell!NewStatus, DInv, DTyped
  <2> QED
    BY <2>1, <2>2
<1>4. DTyped'
  BY <1>2, <1>3, NoUpdateTyped DEF DInv, DTyped
<1>5. DOnce' /\ (\A f \in Fans : DLast(f)')
  BY <1>1, <1>2 DEF DInv, DOnce, DLast
<1>6. DControl'
  BY <1>1, <1>2 DEF DInv, DControl
<1> QED
  BY <1>4, <1>5, <1>6 DEF DInv

(* A target speed.                                                          *)
LEMMA SetTargetKeeps == ASSUME DInv, Dell!SetTarget PROVE DInv'
<1> DEFINE u == dWorker.update
<1>1. /\ dWorker.pc = "apply" /\ u.slot[1] = "F0Tg" /\ u \in DUpdates /\ DProper(u)
      /\ u.slot # Dell!ForceSlot /\ dTarget \in SUBSET Fans
  BY DEF Dell!SetTarget, DInv, DTyped, Dell!ForceSlot
<1>2. /\ dTarget' = Dell!Switched(dTarget, u)
      /\ dWorker' = [pc |-> "idle", update |-> Dell!NoUpdate]
      /\ dQueue' = dQueue /\ dManual' = dManual /\ dFans' = dFans
      /\ dAsked' = dAsked /\ dFailed' = dFailed
  BY DEF Dell!SetTarget
<1> HIDE DEF u
<1>3. /\ dTarget' \in SUBSET Fans
      /\ \A f \in Fans : f \in dTarget' <=> IF u.slot[2] = f THEN f \in u.value
                                            ELSE f \in dTarget
  BY <1>1, <1>2, SwitchesOne
<1>4. DTyped'
  BY <1>2, <1>3, NoUpdateTyped DEF DInv, DTyped
<1>5. DOnce'
  BY <1>2 DEF DInv, DOnce
<1>6. ASSUME NEW f \in Fans PROVE DLast(f)'
  <2>1. u.slot = <<"F0Tg", f>> <=> u.slot[2] = f
    BY <1>1 DEF DUpdates, Dell!Slots, Dell!ForceSlot
  <2>2. DLast(f) /\ dWorker'.pc = "idle"
    BY <1>2 DEF DInv
  <2> QED
    BY <1>1, <1>2, <1>3, <2>1, <2>2 DEF DLast, u
<1>7. DControl'
  BY <1>1, <1>2 DEF DInv, DControl
<1> QED
  BY <1>4, <1>5, <1>6, <1>7 DEF DInv

(* SmcDell's specification without its fairness, which safety does not need*)
DSpec == Dell!Init /\ [][Dell!Next]_(Dell!vars)

(* All steps of the Dell sensor plugin together.                            *)
LEMMA DellInvariant == DSpec => []DInv
<1>1. Dell!Init => DInv
  <2> SUFFICES ASSUME Dell!Init PROVE DInv
    OBVIOUS
  <2>1. /\ dQueue = <<>> /\ dFans = {} /\ dTarget = {} /\ dAsked = {}
        /\ dManual \in BOOLEAN /\ dFailed = FALSE
        /\ dWorker = [pc |-> "start", update |-> Dell!NoUpdate]
    BY DEF Dell!Init
  <2>2. DTyped
    <3>1. dQueue \in Seq(DUpdates) /\ DOMAIN dQueue = {}
      BY <2>1
    <3>2. /\ dWorker \in [pc : {"start", "idle", "apply", "status"}, update : DUpdates]
          /\ dWorker.update = Dell!NoUpdate
      BY <2>1, NoUpdateTyped
    <3> QED
      BY <2>1, <3>1, <3>2, NoUpdateTyped DEF DTyped
  <2> QED
    BY <2>1, <2>2 DEF DInv, DOnce, DLast, DControl
<1>2. DInv /\ [Dell!Next]_(Dell!vars) => DInv'
  <2> SUFFICES ASSUME DInv, [Dell!Next]_(Dell!vars) PROVE DInv'
    OBVIOUS
  <2>1. CASE \/ \E p \in DellPosters : Dell!Post(p)
             \/ Dell!WillSleep \/ Dell!PostAuto \/ Dell!Drained \/ Dell!HasPoweredOn
             \/ Dell!Fire \/ Dell!WakeUp \/ Dell!HeedUpdates \/ UNCHANGED Dell!vars
    <3>1. DQuiet
      BY <2>1 DEF DQuiet, Dell!Post, Dell!WillSleep, Dell!PostAuto, Dell!Drained,
         Dell!HasPoweredOn, Dell!Fire, Dell!WakeUp, Dell!HeedUpdates, Dell!vars
    <3> QED
      BY <3>1, QuietKeeps
  <2> QED
    BY <2>1, StoreUpdateKeeps, ForceUpdateKeeps, ForceAutoKeeps,
       TakeUpdateKeeps, CallSmmKeeps, StoreStatusKeeps, SetTargetKeeps
       DEF Dell!Next, Dell!Worker, Dell!Power
<1> QED
  BY <1>1, <1>2, PTL DEF DSpec

(* The target speed of a fan is the last one accepted: an overwritten      *)
(* update keeps its place and a later value is never undone by an earlier  *)
(* one, for any fans, threads and length of the queue (postSmcUpdate,      *)
(* handleSmcUpdatesInIdle).                                                *)
THEOREM LastTargetWins == DSpec => []LastTargetApplied
<1>1. DInv => LastTargetApplied
  <2> SUFFICES ASSUME DInv, NEW f \in Fans
               PROVE  \/ \E i \in DOMAIN dQueue :
                           /\ dQueue[i].slot = <<"F0Tg", f>>
                           /\ (f \in dQueue[i].value) = (f \in dAsked)
                      \/ /\ Dell!Pending(<<"F0Tg", f>>) = {}
                         /\ (f \in dAsked) =
                              IF dWorker.pc = "apply"
                                 /\ dWorker.update.slot = <<"F0Tg", f>>
                              THEN f \in dWorker.update.value ELSE f \in dTarget
    BY DEF LastTargetApplied, Dell!LastTargetApplied
  <2>1. DLast(f)
    BY DEF DInv
  <2> QED
    BY <2>1 DEF DLast, Dell!Pending
<1> QED
  BY <1>1, DellInvariant, PTL

(* The machine's fan control mode is what fansStatus says, as long as no   *)
(* change of mode has failed (hanldeManualControlUpdate,                   *)
(* handleManualForceFanControlUpdate).                                     *)
THEOREM ModeAgreesWithStatus == DSpec => []ControlAgrees
<1>1. DInv => ControlAgrees
  <2> SUFFICES ASSUME DInv, ~dFailed, dWorker.pc \notin {"start", "status"}
               PROVE  dManual = (dFans # {})
    BY DEF ControlAgrees, Dell!ControlAgrees
  <2>1. dManual \in BOOLEAN /\ dFailed = FALSE /\ dWorker.pc \in {"idle", "apply"}
    BY DEF DInv, DTyped
  <2>2. dManual = TRUE <=> dFans # {}
    BY <2>1 DEF DInv, DControl
  <2> QED
    BY <2>1, <2>2
<1> QED
  BY <1>1, DellInvariant, PTL

-----------------------------------------------------------------------------
(* The startup, whose proofs are in SmcStartup_proofs.                     *)
StartupProofs == INSTANCE SmcStartup_proofs WITH
  generation <- uGeneration, callbacks <- uCallbacks, start <- uStart,
  instance <- uInstance, pending <- uPending, servicingReady <- uServicing,
  mmioReady <- uMmio, patched <- uPatched, trapped <- uTrapped,
  firstGeneration <- uFirst, kext <- uKext, shouldMmioInit <- uShould,
  monitored <- uMonitored, registrations <- uRegistrations,
  publications <- uPublications, overlap <- uOverlap

(* The two instances of SmcStartup take the same steps.                    *)
LEMMA SameStartup ==
  /\ Startup!Init <=> StartupProofs!Init
  /\ Startup!Next <=> StartupProofs!Next
  /\ UNCHANGED Startup!vars <=> UNCHANGED StartupProofs!vars
<1>1. Startup!Next <=> StartupProofs!Next
  BY DEF Startup!Next, StartupProofs!Next,
         Startup!FailStart, Startup!Prepare, Startup!StoreServicingReady,
         Startup!DrainStore, Startup!LoadMmioReady, Startup!StartRegisters,
         Startup!StartPublishes, Startup!OnPatcherLoad, Startup!OnKextLoad,
         Startup!SetMonitor, Startup!LoadServicingReady,
         Startup!StoreMmioReady, Startup!MmioRegisters,
         Startup!MmioPublishes, Startup!Start, Startup!PostMmioReady,
         Startup!KnownFirstGeneration, Startup!ShouldServicingInit,
         Startup!MonitorsNothing, Startup!MmioRegistersService,
         Startup!service, Startup!provider, Startup!device,
         StartupProofs!FailStart, StartupProofs!Prepare,
         StartupProofs!StoreServicingReady, StartupProofs!DrainStore,
         StartupProofs!LoadMmioReady, StartupProofs!StartRegisters,
         StartupProofs!StartPublishes, StartupProofs!OnPatcherLoad,
         StartupProofs!OnKextLoad, StartupProofs!SetMonitor,
         StartupProofs!LoadServicingReady, StartupProofs!StoreMmioReady,
         StartupProofs!MmioRegisters, StartupProofs!MmioPublishes,
         StartupProofs!Start, StartupProofs!PostMmioReady,
         StartupProofs!KnownFirstGeneration,
         StartupProofs!ShouldServicingInit, StartupProofs!MonitorsNothing,
         StartupProofs!MmioRegistersService, StartupProofs!service,
         StartupProofs!provider, StartupProofs!device
<1> QED
  BY <1>1 DEF Startup!Init, StartupProofs!Init, Startup!vars, StartupProofs!vars

(* So they have the same behaviours.                                       *)
LEMMA SameStartupSpec == Startup!Spec => StartupProofs!Spec
BY SameStartup, PTL DEF Startup!Spec, StartupProofs!Spec

(* Nothing is registered or published more than twice.                     *)
LEMMA StartupTyped == Startup!Spec => []Startup!TypeOK
<1>1. StartupProofs!TypeOK => Startup!TypeOK
  BY DEF Startup!TypeOK, StartupProofs!TypeOK
<1> QED
  BY <1>1, SameStartupSpec, StartupProofs!TypeCorrect, PTL

(* A first generation device is published by start alone, once             *)
(* (VirtualSMC::start, postMmioReady).                                     *)
THEOREM FirstGenerationIsPrivate == Startup!Spec => []FirstGenerationPrivate
<1>1. StartupProofs!FirstGenerationPrivate => FirstGenerationPrivate
  BY DEF FirstGenerationPrivate, Startup!FirstGenerationPrivate,
         StartupProofs!FirstGenerationPrivate
<1> QED
  BY <1>1, SameStartupSpec, StartupProofs!FirstGenerationIsPrivate, PTL

(* Without an overlap the second of the two threads publishes a later      *)
(* generation device, once (VirtualSMC::start, postMmioReady).             *)
THEOREM SecondThreadPublishes == Startup!Spec => []SecondPublishes
<1>1. StartupProofs!SecondPublishes => SecondPublishes
  BY DEF SecondPublishes, Startup!SecondPublishes, StartupProofs!SecondPublishes,
         Startup!MmioDone, StartupProofs!MmioDone
<1> QED
  BY <1>1, SameStartupSpec, StartupProofs!SecondThreadPublishes, PTL

(* Nothing is registered before the instance and the windows are ready     *)
(* (VirtualSMC::start, onKextLoad).                                        *)
THEOREM NeverTooEarly == Startup!Spec => []RegisteredWhenReady
<1>1. StartupProofs!RegisteredWhenReady => RegisteredWhenReady
  BY DEF RegisteredWhenReady, Startup!RegisteredWhenReady,
         StartupProofs!RegisteredWhenReady
<1> QED
  BY <1>1, SameStartupSpec, StartupProofs!NeverTooEarly, PTL

-----------------------------------------------------------------------------
(* The battery manager, whose proofs are in SmcBattery_proofs.             *)
BatteryProofs == INSTANCE SmcBattery_proofs WITH
  bt <- bBt, average <- bAverage, quick <- bQuick, poll <- bPoll,
  lock <- bLock, check <- bCheck, pc <- bPc, told <- bTold

(* The two instances of SmcBattery take the same steps.                    *)
LEMMA SameBattery ==
  /\ Battery!BatteryAssumption <=> BatteryProofs!BatteryAssumption
  /\ Battery!Init <=> BatteryProofs!Init
  /\ Battery!Next <=> BatteryProofs!Next
  /\ UNCHANGED Battery!vars <=> UNCHANGED BatteryProofs!vars
<1>1. Battery!Next <=> BatteryProofs!Next
  BY DEF Battery!Next, Battery!BeginCheck, Battery!CheckDevices,
         Battery!UpdateStaticStatus, Battery!Static, Battery!UpdateAdapters,
         Battery!Asked, Battery!RealTime, Battery!NoMorePoll,
         Battery!UpdateRealTimeStatus, Battery!Notify, Battery!LoadQuickPoll,
         Battery!Swaps, Battery!SwapQuickPoll, Battery!Interval,
         Battery!ArmPoll, Battery!AfterCheck, Battery!EndCheck, Battery!Fire,
         Battery!RefillQuickPoll, Battery!AcpiNotification,
         Battery!Registered, Battery!SetPowerStateOn,
         Battery!SetPowerStateOff, Battery!Sleep, Battery!AfterHandler,
         Battery!LoadHandler, Battery!CallHandler, Battery!Wake,
         Battery!First, Battery!Subscribe, Battery!Goto, Battery!CheckAt,
         Battery!NoInfo, Battery!NoCheck, Battery!Batteries, Battery!Threads,
         Battery!Nobody,
         BatteryProofs!Next, BatteryProofs!BeginCheck, BatteryProofs!CheckDevices,
         BatteryProofs!UpdateStaticStatus, BatteryProofs!Static,
         BatteryProofs!UpdateAdapters, BatteryProofs!Asked,
         BatteryProofs!RealTime, BatteryProofs!NoMorePoll,
         BatteryProofs!UpdateRealTimeStatus, BatteryProofs!Notify,
         BatteryProofs!LoadQuickPoll, BatteryProofs!Swaps,
         BatteryProofs!SwapQuickPoll, BatteryProofs!Interval,
         BatteryProofs!ArmPoll, BatteryProofs!AfterCheck,
         BatteryProofs!EndCheck, BatteryProofs!Fire,
         BatteryProofs!RefillQuickPoll, BatteryProofs!AcpiNotification,
         BatteryProofs!Registered, BatteryProofs!SetPowerStateOn,
         BatteryProofs!SetPowerStateOff, BatteryProofs!Sleep,
         BatteryProofs!AfterHandler, BatteryProofs!LoadHandler,
         BatteryProofs!CallHandler, BatteryProofs!Wake, BatteryProofs!First,
         BatteryProofs!Subscribe, BatteryProofs!Goto, BatteryProofs!CheckAt,
         BatteryProofs!NoInfo, BatteryProofs!NoCheck, BatteryProofs!Batteries,
         BatteryProofs!Threads, BatteryProofs!Nobody
<1> QED
  BY <1>1 DEF Battery!BatteryAssumption, BatteryProofs!BatteryAssumption,
     Battery!Init, BatteryProofs!Init, Battery!NoInfo, BatteryProofs!NoInfo,
     Battery!NoCheck, BatteryProofs!NoCheck, Battery!Batteries,
     BatteryProofs!Batteries, Battery!Threads, BatteryProofs!Threads,
     Battery!Nobody, BatteryProofs!Nobody, Battery!vars, BatteryProofs!vars

(* So their specifications are the same.                                   *)
LEMMA SameBatterySpec == Battery!Spec => BatteryProofs!Spec
BY SameBattery, PTL DEF Battery!Spec, BatteryProofs!Spec

(* A battery whose static data must be read again gets its poll            *)
(* (checkDevices), in whatever order four threads cancel and set it.       *)
THEOREM NoUpdateForgotten ==
  ASSUME Battery!BatteryAssumption PROVE Battery!Spec => []UpdateScheduled
<1>1. BatteryProofs!Spec => []BatteryProofs!UpdateScheduled
  BY SameBattery, BatteryProofs!NoUpdateForgotten
<1>2. BatteryProofs!UpdateScheduled => UpdateScheduled
  BY DEF UpdateScheduled, Battery!UpdateScheduled, BatteryProofs!UpdateScheduled,
         Battery!Batteries, BatteryProofs!Batteries, Battery!Threads,
         BatteryProofs!Threads, Battery!Nobody, BatteryProofs!Nobody
<1> QED
  BY <1>1, <1>2, SameBatterySpec, PTL

(* The handler is never called without its target (subscribe).             *)
THEOREM HandlerHasTarget ==
  ASSUME Battery!BatteryAssumption PROVE Battery!Spec => []CalledWithTarget
<1>1. BatteryProofs!Spec => []BatteryProofs!CalledWithTarget
  BY SameBattery, BatteryProofs!HandlerHasTarget
<1>2. BatteryProofs!CalledWithTarget => CalledWithTarget
  BY DEF CalledWithTarget, Battery!CalledWithTarget, BatteryProofs!CalledWithTarget,
         Battery!Threads, BatteryProofs!Threads
<1> QED
  BY <1>1, <1>2, SameBatterySpec, PTL

(* A count that sleep has set to zero only starts again from the full one  *)
(* (setPowerState, decrementQuickPoll).                                    *)
THEOREM QuickPollsStop ==
  ASSUME Battery!BatteryAssumption PROVE Battery!Spec => SleepStopsQuickPolls
<1>1. BatteryProofs!Spec => BatteryProofs!SleepStopsQuickPolls
  BY SameBattery, BatteryProofs!QuickPollsStop
<1> QED
  BY <1>1, SameBattery, SameBatterySpec, PTL
     DEF SleepStopsQuickPolls, Battery!SleepStopsQuickPolls,
         BatteryProofs!SleepStopsQuickPolls

-----------------------------------------------------------------------------
(* The types of every part.                                                *)

(* The jobs, the threads that post them and the timer's action.            *)
LEMMA WatchdogTyped == Watchdog!Spec => []Watchdog!TypeOK
<1> USE DEF Watchdog!TypeOK
<1>1. Watchdog!Init => Watchdog!TypeOK
  BY DEF Watchdog!Init, Watchdog!Idle
<1>2. Watchdog!TypeOK /\ [Watchdog!Next]_(Watchdog!vars) => Watchdog!TypeOK'
  <2> SUFFICES ASSUME Watchdog!TypeOK, [Watchdog!Next]_(Watchdog!vars)
               PROVE  Watchdog!TypeOK'
    OBVIOUS
  <2>1. ASSUME NEW p \in Watchdog!Posters, Watchdog!PostWatchDogJob(p)
        PROVE  Watchdog!TypeOK'
    <3> DEFINE T == [at : 0 .. 4, code : WCodes]
    <3>1. wPoster \in [Watchdog!Posters -> T] /\ wPoster[p] \in T
      BY DEF WCodes
    <3>2. CASE Watchdog!Enter(p)
      BY <3>2 DEF Watchdog!Enter, Watchdog!Codes
    <3>3. CASE Watchdog!Leave(p)
      BY <3>3 DEF Watchdog!Leave, Watchdog!Idle
    <3>4. ASSUME Watchdog!At(p, "cancel") \/ Watchdog!At(p, "store") \/ Watchdog!At(p, "arm"),
                 Watchdog!Done(p)
          PROVE  wPoster' \in [Watchdog!Posters -> T]
      <4>1. wPoster[p].at \in 0 .. 3
        BY <3>1, <3>4 DEF Watchdog!At, Watchdog!Steps
      <4>2. wPoster' = [wPoster EXCEPT ![p] = [wPoster[p] EXCEPT !.at = wPoster[p].at + 1]]
        BY <3>1, <3>4 DEF Watchdog!Done
      <4>3. [wPoster[p] EXCEPT !.at = wPoster[p].at + 1] \in T
        BY <3>1, <4>1
      <4> QED
        BY <3>1, <4>2, <4>3
    <3>5. CASE Watchdog!Cancel(p)
      BY <3>4, <3>5 DEF Watchdog!Cancel, WCodes
    <3>6. CASE Watchdog!Store(p)
      BY <3>1, <3>4, <3>6 DEF Watchdog!Store, WCodes
    <3>7. CASE Watchdog!Arm(p)
      BY <3>4, <3>7 DEF Watchdog!Arm, WCodes
    <3> QED
      BY <2>1, <3>2, <3>3, <3>5, <3>6, <3>7 DEF Watchdog!PostWatchDogJob
  <2>2. CASE Watchdog!WatchDogAction
    BY <2>2 DEF Watchdog!WatchDogAction, Watchdog!Fire, Watchdog!LoadJob,
       Watchdog!ResetJob, Watchdog!Act
  <2>3. CASE UNCHANGED Watchdog!vars
    BY <2>3 DEF Watchdog!vars
  <2> QED
    BY <2>1, <2>2, <2>3 DEF Watchdog!Next
<1> QED
  BY <1>1, <1>2, PTL DEF Watchdog!Spec

(* The firmware's key and the memories it is kept in.                      *)
LEMMA EfiTyped ==
  ASSUME Efi!EfiAssumption PROVE Efi!Spec => []Efi!TypeOK
<1> DEFINE Submits == [pc : {"off", "idle", "private", "rtc", "out", "sync"},
                       key : 0 .. MaxKeys, value : BOOLEAN]
<1>1. 0 \in 0 .. MaxKeys /\ 0 \in 0 .. MaxBoots /\ MaxKeys \in Nat /\ MaxBoots \in Nat
  BY DEF Efi!EfiAssumption
<1>2. Efi!Off \in Submits /\ Efi!Idle \in Submits /\ Efi!Plain \in Efi!Record
  BY <1>1 DEF Efi!Off, Efi!Idle, Efi!Plain, Efi!Record
<1>3. ASSUME eSubmit \in Submits,
             NEW pc \in {"off", "idle", "private", "rtc", "out", "sync"},
             NEW value \in BOOLEAN
      PROVE  /\ [eSubmit EXCEPT !.pc = pc] \in Submits
             /\ [eSubmit EXCEPT !.pc = pc, !.value = value] \in Submits
  BY <1>3
<1>4. Efi!Init => Efi!TypeOK
  <2> SUFFICES ASSUME Efi!Init PROVE Efi!TypeOK
    OBVIOUS
  <2>1. eHbkp \in [dump : BOOLEAN, encrypted : BOOLEAN] /\ eLasting \in BOOLEAN
    BY DEF Efi!Init
  <2> HIDE DEF Submits
  <2> QED
    BY <1>1, <1>2, <2>1 DEF Efi!Init, Efi!TypeOK, Submits
<1>5. Efi!TypeOK /\ [Efi!Next]_(Efi!vars) => Efi!TypeOK'
  <2> SUFFICES ASSUME Efi!TypeOK, [Efi!Next]_(Efi!vars) PROVE Efi!TypeOK'
    OBVIOUS
  <2>1. /\ eBoots \in 0 .. MaxBoots /\ eKeys \in 0 .. MaxKeys /\ eRtc \in 0 .. MaxKeys
        /\ eHbkp \in [dump : BOOLEAN, encrypted : BOOLEAN]
        /\ eStaged \in Efi!Record /\ eNvram \in Efi!Record
        /\ eSubmit \in Submits /\ eLasting \in BOOLEAN
    BY DEF Efi!TypeOK
  <2>2. ASSUME eBoots' \in 0 .. MaxBoots, eKeys' \in 0 .. MaxKeys, eRtc' \in 0 .. MaxKeys,
               eHbkp' \in [dump : BOOLEAN, encrypted : BOOLEAN],
               eStaged' \in Efi!Record, eNvram' \in Efi!Record,
               eSubmit' \in Submits, eLasting' \in BOOLEAN
        PROVE  Efi!TypeOK'
    BY <2>2 DEF Efi!TypeOK, Efi!Record
  <2>3. CASE Efi!Boot
    <3>1. eRtc' \in {0, eRtc}
      BY <2>3 DEF Efi!Boot, Efi!EraseTempEncryptionKey
    <3>2. PICK storage, efi, resized, memory \in BOOLEAN, answer \in {"valid", "big", "bad"},
               arg \in {Efi!DumpOff, Efi!DumpNormal, Efi!DumpUnencrypted} :
            eHbkp' = Efi!WithDump(Efi!DetectFirmwareBackend(storage, efi, answer, resized),
                                  arg, memory)
      BY <2>3 DEF Efi!Boot, Efi!EraseTempEncryptionKey
    <3>3. eHbkp' \in [dump : BOOLEAN, encrypted : BOOLEAN]
      BY <3>2, Zenon DEF Efi!WithDump, Efi!DetectFirmwareBackend
    <3>4. /\ eBoots' \in 0 .. MaxBoots /\ eSubmit' = Efi!Idle /\ eLasting' = FALSE
          /\ UNCHANGED <<eStaged, eNvram, eKeys>>
      BY <1>1, <2>1, <2>3 DEF Efi!Boot
    <3> HIDE DEF Submits
    <3> QED
      BY <1>1, <1>2, <2>1, <2>2, <3>1, <3>3, <3>4
  <2>4. CASE Efi!PowerOff
    <3> HIDE DEF Submits
    <3> QED
      BY <1>2, <2>1, <2>2, <2>4 DEF Efi!PowerOff
  <2>5. CASE Efi!UpdateHBKP
    <3>1. eSubmit' \in Submits
      BY <1>3, <2>1, <2>5 DEF Efi!UpdateHBKP
    <3> HIDE DEF Submits
    <3> QED
      BY <2>1, <2>2, <2>5, <3>1 DEF Efi!UpdateHBKP
  <2>6. CASE Efi!Encrypt
    <3>1. eKeys < MaxKeys /\ eKeys + 1 \in 0 .. MaxKeys
      BY <1>1, <2>1, <2>6 DEF Efi!Encrypt
    <3>2. [pc |-> "rtc", key |-> eKeys + 1, value |-> TRUE] \in Submits
          /\ [eSubmit EXCEPT !.pc = "out"] \in Submits
      BY <1>3, <2>1, <3>1
    <3>3. eSubmit' \in Submits /\ eKeys' \in 0 .. MaxKeys
      BY <2>1, <2>6, <3>1, <3>2 DEF Efi!Encrypt
    <3> HIDE DEF Submits
    <3> QED
      BY <2>1, <2>2, <2>6, <3>3 DEF Efi!Encrypt
  <2>7. CASE Efi!WriteRtc
    <3>1. PICK written \in BOOLEAN :
            /\ eRtc' = IF written THEN eSubmit.key ELSE eRtc
            /\ eSubmit' = [eSubmit EXCEPT !.pc = "out", !.value = written]
      BY <2>7 DEF Efi!WriteRtc, Efi!Kept
    <3>2. eSubmit' \in Submits
      BY <1>3, <2>1, <3>1
    <3>3. eRtc' \in 0 .. MaxKeys
      BY <2>1, <3>1
    <3> HIDE DEF Submits
    <3> QED
      BY <2>1, <2>2, <2>7, <3>2, <3>3 DEF Efi!WriteRtc
  <2>8. CASE Efi!WriteStorage
    <3>1. [encrypted |-> TRUE, key |-> eSubmit.key] \in Efi!Record
      BY <2>1 DEF Efi!Record
    <3>2. eStaged' \in Efi!Record
      BY <1>2, <2>1, <2>8, <3>1 DEF Efi!WriteStorage
    <3>3. [eSubmit EXCEPT !.pc = "sync"] \in Submits
      BY <1>3, <2>1
    <3>4. eSubmit' = [eSubmit EXCEPT !.pc = "sync"] \/ eSubmit' = Efi!Idle
      BY <2>8 DEF Efi!WriteStorage
    <3> HIDE DEF Submits
    <3> QED
      BY <1>2, <2>1, <2>2, <2>8, <3>2, <3>3, <3>4 DEF Efi!WriteStorage
  <2>9. CASE Efi!Sync \/ UNCHANGED Efi!vars
    <3> HIDE DEF Submits
    <3> QED
      BY <1>2, <2>1, <2>2, <2>9 DEF Efi!Sync, Efi!vars
  <2> QED
    BY <2>3, <2>4, <2>5, <2>6, <2>7, <2>8, <2>9 DEF Efi!Next
<1> QED
  BY <1>4, <1>5, PTL DEF Efi!Spec

(* The states of the two sensors' timers, and who holds the lock.          *)
LEMMA SensorsTyped == Sensors!Spec => []Sensors!TypeOK
<1> USE DEF Sensors!TypeOK
<1>1. Sensors!Init => Sensors!TypeOK
  BY DEF Sensors!Init, Sensors!Started
<1>2. Sensors!TypeOK /\ [Sensors!Next]_(Sensors!vars) => Sensors!TypeOK'
  <2> SUFFICES ASSUME Sensors!TypeOK, [Sensors!Next]_(Sensors!vars)
               PROVE  Sensors!TypeOK'
    OBVIOUS
  <2>1. /\ sCpu \in CpuStates /\ sSio \in SioStates
        /\ sReader \in [Readers -> {"idle", "cpu", "arm"}]
        /\ sLock \in Readers \cup {Sensors!Action, Sensors!Nobody}
    BY DEF CpuStates, SioStates
  <2>2. ASSUME NEW r \in Readers,
               \/ Sensors!ReadCpu(r) \/ Sensors!QuickReschedule(r)
               \/ Sensors!TestAndSet(r) \/ Sensors!ArmQuick(r)
        PROVE  Sensors!TypeOK'
    <3>1. sCpu' \in CpuStates
      <4>1. \/ sCpu' = sCpu
            \/ sCpu' = [sCpu EXCEPT !.flag = TRUE, !.timer = "quick"]
        BY <2>2 DEF Sensors!ReadCpu, Sensors!QuickReschedule, Sensors!TestAndSet,
           Sensors!ArmQuick
      <4> QED
        BY <2>1, <4>1 DEF CpuStates
    <3>2. sSio' \in SioStates
      <4>1. \/ sSio' = sSio
            \/ sSio' = [sSio EXCEPT !.flag = TRUE]
            \/ sSio' = [sSio EXCEPT !.timer = "quick"]
            \/ sSio' = [sSio EXCEPT !.failed = @ \cup {"quick"}]
        BY <2>2 DEF Sensors!ReadCpu, Sensors!QuickReschedule, Sensors!TestAndSet,
           Sensors!ArmQuick, Sensors!SetTimeout
      <4> USE <2>1 DEF SioStates
      <4>2. CASE sSio' = sSio
        BY <4>2
      <4>3. CASE sSio' = [sSio EXCEPT !.flag = TRUE]
        BY <4>3
      <4>4. CASE sSio' = [sSio EXCEPT !.timer = "quick"]
        BY <4>4
      <4>5. CASE sSio' = [sSio EXCEPT !.failed = @ \cup {"quick"}]
        BY <4>5
      <4> QED
        BY <4>1, <4>2, <4>3, <4>4, <4>5
    <3>3. /\ sReader' \in [Readers -> {"idle", "cpu", "arm"}]
          /\ sLock' \in Readers \cup {Sensors!Action, Sensors!Nobody}
      BY <2>1, <2>2 DEF Sensors!ReadCpu, Sensors!QuickReschedule, Sensors!TestAndSet,
         Sensors!ArmQuick, Sensors!Goto
    <3> QED
      BY <3>1, <3>2, <3>3 DEF CpuStates, SioStates
  <2>3. CASE Sensors!FireCpu \/ Sensors!LockCpu \/ Sensors!UpdateCpu
    BY <2>3 DEF Sensors!FireCpu, Sensors!LockCpu, Sensors!UpdateCpu, Sensors!Rested
  <2>4. CASE Sensors!FireSio \/ Sensors!ArmSio \/ Sensors!ClearSio
    <3>1. sSio' \in SioStates
      <4>1. \/ sSio' = [sSio EXCEPT !.timer = "off", !.pc = "arm"]
            \/ sSio' = [[sSio EXCEPT !.pc = "clear"] EXCEPT !.timer = "slow"]
            \/ sSio' = [[sSio EXCEPT !.pc = "clear"] EXCEPT !.failed = @ \cup {"slow"}]
            \/ sSio' = [[sSio EXCEPT !.flag = FALSE] EXCEPT !.pc = "idle"]
        BY <2>4 DEF Sensors!FireSio, Sensors!ArmSio, Sensors!ClearSio,
           Sensors!SetTimeout, Sensors!Rested
      <4> USE <2>1 DEF SioStates
      <4>2. CASE sSio' = [sSio EXCEPT !.timer = "off", !.pc = "arm"]
        BY <4>2
      <4>3. CASE sSio' = [[sSio EXCEPT !.pc = "clear"] EXCEPT !.timer = "slow"]
        BY <4>3
      <4>4. CASE sSio' = [[sSio EXCEPT !.pc = "clear"] EXCEPT !.failed = @ \cup {"slow"}]
        BY <4>4
      <4>5. CASE sSio' = [[sSio EXCEPT !.flag = FALSE] EXCEPT !.pc = "idle"]
        BY <4>5
      <4> QED
        BY <4>1, <4>2, <4>3, <4>4, <4>5
    <3> QED
      BY <2>1, <2>4, <3>1
         DEF Sensors!FireSio, Sensors!ArmSio, Sensors!ClearSio, CpuStates, SioStates
  <2>5. CASE UNCHANGED Sensors!vars
    BY <2>5 DEF Sensors!vars
  <2> QED
    BY <2>2, <2>3, <2>4, <2>5 DEF Sensors!Next
<1> QED
  BY <1>1, <1>2, PTL DEF Sensors!Spec

(* What CLKT shows is a time of the day, whatever its offset (OfDay).       *)
LEMMA OfDayTyped ==
  ASSUME Clock!ClockAssumption, NEW time \in Int, -Day <= time
  PROVE  Clock!OfDay(time) \in 0 .. Day - 1
<1>1. time + Day \in Nat /\ Day \in Nat \ {0}
  BY DEF Clock!ClockAssumption
<1>2. (time + Day) % Day \in 0 .. Day - 1
  BY <1>1
<1> QED
  BY <1>1, <1>2 DEF Clock!OfDay, Clock!Remainder

(* Both keys of the time and the clock they read.                          *)
LEMMA ClockTyped ==
  ASSUME Clock!ClockAssumption PROVE Clock!Spec => []Clock!TypeOK
<1> DEFINE Behind == Clock!TypeOK /\ cLastWake <= cNow
           Counts == [counter : 0 .. MaxCounter, pending : BOOLEAN, halt : BOOLEAN,
                      wake : 0 .. ClockMaxTime]
           Days == [data : 0 .. Day - 1, delta : -Day .. Day]
<1>1. ClockMaxTime \in Nat \ {0} /\ MaxCounter \in Nat /\ Day \in Nat \ {0}
  BY DEF Clock!ClockAssumption
<1>2. Clock!Init => Behind
  BY <1>1 DEF Clock!Init, Clock!TypeOK
<1>3. Behind /\ [Clock!Next]_(Clock!vars) => Behind'
  <2> SUFFICES ASSUME Behind, [Clock!Next]_(Clock!vars) PROVE Behind'
    OBVIOUS
  <2>1. /\ cNow \in 1 .. ClockMaxTime /\ cLastWake \in 0 .. ClockMaxTime
        /\ cLastWake <= cNow /\ cClwk \in Counts /\ cClkt \in Days
    BY DEF Clock!TypeOK
  <2>2. ASSUME cNow' \in 1 .. ClockMaxTime, cLastWake' \in 0 .. ClockMaxTime,
               cLastWake' <= cNow', cClwk' \in Counts, cClkt' \in Days
        PROVE  Behind'
    BY <2>2 DEF Clock!TypeOK
  <2>3. Clock!ReadTime \in 0 .. Day - 1
    BY <1>1, <2>1 DEF Clock!ReadTime
  <2> HIDE DEF Behind
  <2>4. CASE Clock!Tick \/ Clock!Wake
    <3> HIDE DEF Counts, Days
    <3> QED
      BY <1>1, <2>1, <2>2, <2>4 DEF Clock!Tick, Clock!Wake
  <2>5. CASE Clock!ReadCLWK
    <3>1. Clock!Capped(cNow - cLastWake) \in 0 .. MaxCounter
      BY <1>1, <2>1 DEF Clock!Capped
    <3>2. cClwk' \in Counts
      <4> DEFINE woken == cLastWake > 0 /\ cLastWake # cClwk.wake
                 c == IF woken THEN [cClwk EXCEPT !.wake = cLastWake, !.pending = FALSE,
                                                  !.halt = FALSE]
                      ELSE cClwk
      <4>1. c \in Counts
        BY <2>1
      <4>2. cClwk' = IF c.pending \/ c.halt THEN c
                     ELSE [c EXCEPT !.counter = Clock!Capped(cNow - cLastWake)]
        BY <2>5 DEF Clock!ReadCLWK
      <4> HIDE DEF c
      <4> QED
        BY <3>1, <4>1, <4>2
    <3> HIDE DEF Counts, Days
    <3> QED
      BY <2>1, <2>2, <2>5, <3>2 DEF Clock!ReadCLWK
  <2>6. ASSUME NEW one \in BOOLEAN, Clock!UpdateCLWK(one) PROVE Behind'
    <3>1. ASSUME NEW n \in 0 .. MaxCounter, NEW pending \in BOOLEAN, NEW halt \in BOOLEAN
          PROVE  [cClwk EXCEPT !.counter = n, !.pending = pending, !.halt = halt] \in Counts
      BY <2>1
    <3>2. [cClwk EXCEPT !.halt = TRUE] \in Counts
      BY <2>1
    <3>3. 0 \in 0 .. MaxCounter
      BY <1>1
    <3>4. [cClwk EXCEPT !.counter = 0, !.pending = TRUE, !.halt = FALSE] \in Counts
      BY <3>1, <3>3
    <3>5. cClwk' \in Counts
      BY <2>6, <3>2, <3>4 DEF Clock!UpdateCLWK
    <3> HIDE DEF Counts, Days
    <3> QED
      BY <2>1, <2>2, <2>6, <3>5 DEF Clock!UpdateCLWK
  <2>7. CASE Clock!ReadCLKT
    <3>1. Clock!OfDay(Clock!ReadTime + cClkt.delta) \in 0 .. Day - 1
      BY <1>1, <2>1, <2>3, OfDayTyped
    <3>2. cClkt' \in Days
      BY <2>1, <2>7, <3>1 DEF Clock!ReadCLKT
    <3> HIDE DEF Counts, Days
    <3> QED
      BY <2>1, <2>2, <2>7, <3>2 DEF Clock!ReadCLKT
  <2>8. CASE Clock!UpdateCLKT
    <3>1. Clock!ReadTime - cClkt.data \in -Day .. Day
      BY <1>1, <2>1, <2>3
    <3>2. cClkt' \in Days
      BY <2>1, <2>8, <3>1 DEF Clock!UpdateCLKT
    <3> HIDE DEF Counts, Days
    <3> QED
      BY <2>1, <2>2, <2>8, <3>2 DEF Clock!UpdateCLKT
  <2>9. CASE UNCHANGED Clock!vars
    <3> HIDE DEF Counts, Days
    <3> QED
      BY <2>1, <2>2, <2>9 DEF Clock!vars
  <2> QED
    BY <2>4, <2>5, <2>6, <2>7, <2>8, <2>9 DEF Clock!Next
<1>4. Behind => Clock!TypeOK
  OBVIOUS
<1> QED
  BY <1>2, <1>3, <1>4, PTL DEF Clock!Spec

(* The seconds left are no more than those counted from.                   *)
LEMMA LeftTyped ==
  ASSUME Timers!TimerAssumption, NEW t \in Timers!Timers,
         tNow \in Nat, tKey[t].data \in Nat, tKey[t].start \in 0 .. tNow
  PROVE  Timers!Left(tKey[t]) \in 0 .. tKey[t].data
<1> DEFINE d == tKey[t].data
           e == tNow - tKey[t].start
<1>1. d \in Nat /\ e \in Nat /\ Second \in Nat \ {0} /\ d * Second \in Nat
  BY DEF Timers!TimerAssumption
<1>2. Timers!Left(tKey[t]) = IF d * Second - e <= 0 THEN 0 ELSE (d * Second - e) \div Second
  BY DEF Timers!Left
<1> HIDE DEF d, e
<1>3. CASE d * Second - e <= 0
  BY <1>1, <1>2, <1>3 DEF d
<1>4. CASE d * Second - e > 0
  <2> DEFINE q == (d * Second - e) \div Second
  <2>1. d * Second - e \in Nat
    BY <1>1, <1>4
  <2>2. q \in Nat /\ q * Second <= d * Second - e
    BY <1>1, <2>1, RoundsDown
  <2> HIDE DEF q
  <2>3. q * Second <= d * Second
    BY <1>1, <2>2
  <2>4. q <= d
    <3>1. SUFFICES ASSUME q > d PROVE FALSE
      BY <1>1, <2>2
    <3>2. \A k \in Nat, s \in Nat \ {0} : k > 0 => k * s > 0
      OBVIOUS
    <3>3. (q - d) * Second > 0
      BY <1>1, <2>2, <3>1, <3>2
    <3>4. (q - d) * Second = q * Second - d * Second
      BY <1>1, <2>2
    <3> QED
      BY <1>1, <2>2, <2>3, <3>3, <3>4
  <2>5. Timers!Left(tKey[t]) = q
    BY <1>1, <1>2, <1>4 DEF q
  <2> QED
    BY <1>1, <2>2, <2>4, <2>5 DEF d
<1> QED
  BY <1>1, <1>3, <1>4

(* A job is due no later than the longest countdown from the last moment.  *)
LEMMA DueTyped ==
  ASSUME Timers!TimerAssumption, tNow \in 1 .. TimersMaxTime, NEW s \in 0 .. MaxSeconds
  PROVE  tNow + s * Second \in 0 .. TimersMaxTime + MaxSeconds * Second
<1>1. /\ Second \in Nat \ {0} /\ MaxSeconds \in Nat /\ TimersMaxTime \in Nat
      /\ s \in Nat /\ MaxSeconds - s \in Nat
  BY DEF Timers!TimerAssumption
<1>2. \A a, b \in Nat : a * b \in Nat
  OBVIOUS
<1>3. s * Second \in Nat /\ MaxSeconds * Second \in Nat /\ (MaxSeconds - s) * Second \in Nat
  BY <1>1, <1>2
<1>4. (MaxSeconds - s) * Second = MaxSeconds * Second - s * Second
  BY <1>1
<1> QED
  BY <1>1, <1>3, <1>4

(* The countdown keys and the job they start.                              *)
LEMMA TimersTyped ==
  ASSUME Timers!TimerAssumption PROVE Timers!Spec => []Timers!TypeOK
<1> DEFINE Keys == [Timers!Timers -> [data : 0 .. MaxSeconds, start : 0 .. TimersMaxTime]]
           Counted == [job : Timers!Jobs \cup {DoNothing},
                       due : 0 .. TimersMaxTime + MaxSeconds * Second, by : Timers!Timers]
           Started == Timers!TypeOK /\ \A t \in Timers!Timers : tKey[t].start <= tNow
<1>1. /\ Second \in Nat \ {0} /\ MaxSeconds \in Nat /\ TimersMaxTime \in Nat \ {0}
      /\ MaxSeconds * Second \in Nat
  BY DEF Timers!TimerAssumption
<1>2. Timers!NoJob \in Counted
  BY <1>1 DEF Timers!NoJob, Timers!Timers
<1>3. Timers!Init => Started
  <2> SUFFICES ASSUME Timers!Init PROVE Started
    OBVIOUS
  <2>1. tNow \in 1 .. TimersMaxTime /\ tKey \in Keys
    BY <1>1 DEF Timers!Init
  <2>2. \A t \in Timers!Timers : tKey[t].start <= tNow
    BY DEF Timers!Init
  <2> QED
    BY <1>2, <2>1, <2>2 DEF Timers!Init, Timers!TypeOK
<1>4. Started /\ [Timers!Next]_(Timers!vars) => Started'
  <2> SUFFICES ASSUME Started, [Timers!Next]_(Timers!vars) PROVE Started'
    OBVIOUS
  <2>1. /\ tNow \in 1 .. TimersMaxTime /\ tKey \in Keys /\ tWatchdog \in Counted
        /\ \A t \in Timers!Timers : tKey[t].start <= tNow
    BY DEF Timers!TypeOK
  <2>2. ASSUME tNow' \in 1 .. TimersMaxTime, tKey' \in Keys, tWatchdog' \in Counted,
               \A t \in Timers!Timers : tKey'[t].start <= tNow'
        PROVE  Started'
    BY <2>2 DEF Timers!TypeOK
  <2>3. ASSUME NEW t \in Timers!Timers,
               NEW new \in [data : 0 .. MaxSeconds, start : 0 .. TimersMaxTime],
               new.start <= tNow, tKey' = [tKey EXCEPT ![t] = new]
        PROVE  tKey' \in Keys /\ \A u \in Timers!Timers : tKey'[u].start <= tNow
    BY <2>1, <2>3
  <2>4. ASSUME NEW s \in 0 .. MaxSeconds
        PROVE  /\ Timers!StartCountdown(s) \in [data : 0 .. MaxSeconds, start : 0 .. TimersMaxTime]
               /\ Timers!StartCountdown(s).start <= tNow
    BY <1>1, <2>1, <2>4 DEF Timers!StartCountdown
  <2>5. ASSUME NEW s \in 0 .. MaxSeconds, NEW code \in Timers!Jobs \cup {DoNothing},
               NEW by \in Timers!Timers, Timers!Post(code, s, by)
        PROVE  tWatchdog' \in Counted
    <3>1. tNow + s * Second \in 0 .. TimersMaxTime + MaxSeconds * Second
      BY <2>1, DueTyped
    <3>2. [job |-> code, due |-> tNow + s * Second, by |-> by] \in Counted
      BY <3>1
    <3> HIDE DEF Counted
    <3> QED
      BY <1>2, <2>5, <3>2 DEF Timers!Post
  <2>6. "OSWD" \in Timers!Timers /\ "NATi" \in Timers!Timers
    BY DEF Timers!Timers
  <2> HIDE DEF Started
  <2>7. CASE Timers!Tick
    <3>1. /\ tNow' \in 1 .. TimersMaxTime /\ tNow' = tNow + 1
          /\ tKey' = tKey /\ tWatchdog' = tWatchdog
      BY <1>1, <2>1, <2>7 DEF Timers!Tick
    <3>2. \A t \in Timers!Timers : tKey[t].start \in Nat /\ tNow \in Nat
      BY <2>1
    <3>3. \A t \in Timers!Timers : tKey[t].start <= tNow + 1
      BY <2>1, <3>2
    <3> HIDE DEF Keys, Counted
    <3> QED
      BY <2>1, <2>2, <3>1, <3>3
  <2>8. CASE Timers!Fire
    <3>1. [tWatchdog EXCEPT !.due = 0] \in Counted
      BY <1>1, <2>1
    <3> HIDE DEF Keys, Counted
    <3> QED
      BY <1>2, <2>1, <2>2, <2>8, <3>1 DEF Timers!Fire
  <2>9. ASSUME NEW t \in Timers!Timers, Timers!ReadTimer(t) PROVE Started'
    <3> DEFINE new == IF tKey[t].start = 0 THEN tKey[t]
                      ELSE Timers!StartCountdown(Timers!Left(tKey[t]))
    <3>1. /\ tKey[t] \in [data : 0 .. MaxSeconds, start : 0 .. TimersMaxTime]
          /\ tKey[t].start <= tNow
      BY <2>1
    <3>2. Timers!Left(tKey[t]) \in 0 .. tKey[t].data
      BY <2>1, <3>1, LeftTyped
    <3>3. Timers!Left(tKey[t]) \in 0 .. MaxSeconds
      BY <1>1, <3>1, <3>2
    <3>4. /\ new \in [data : 0 .. MaxSeconds, start : 0 .. TimersMaxTime]
          /\ new.start <= tNow
      BY <2>4, <3>1, <3>3
    <3>5. tKey' = [tKey EXCEPT ![t] = new] /\ UNCHANGED <<tNow, tWatchdog>>
      BY <2>1, <2>9 DEF Timers!ReadTimer
    <3> HIDE DEF new
    <3>6. tKey' \in Keys /\ \A u \in Timers!Timers : tKey'[u].start <= tNow
      BY <2>3, <3>4, <3>5
    <3> HIDE DEF Keys, Counted
    <3> QED
      BY <2>1, <2>2, <3>5, <3>6
  <2>10. ASSUME NEW s \in 0 .. MaxSeconds, Timers!UpdateOSWD(s) PROVE Started'
    <3>1. tWatchdog' \in Counted
      <4>1. PICK reset \in Resets :
              Timers!Post(IF s > 0 THEN reset ELSE DoNothing, s, "OSWD")
        BY <2>10 DEF Timers!UpdateOSWD
      <4>2. (IF s > 0 THEN reset ELSE DoNothing) \in Timers!Jobs \cup {DoNothing}
        BY DEF Timers!Jobs
      <4> HIDE DEF Counted
      <4> QED
        BY <2>5, <2>6, <4>1, <4>2
    <3>2. tKey' = [tKey EXCEPT !["OSWD"] = Timers!StartCountdown(s)] /\ tNow' = tNow
      BY <2>10 DEF Timers!UpdateOSWD
    <3>3. tKey' \in Keys /\ \A u \in Timers!Timers : tKey'[u].start <= tNow
      BY <2>3, <2>4, <2>6, <3>2
    <3> HIDE DEF Keys, Counted
    <3> QED
      BY <2>1, <2>2, <3>1, <3>2, <3>3
  <2>11. ASSUME NEW s \in 0 .. MaxSeconds, Timers!UpdateNATi(s) PROVE Started'
    <3>1. /\ [data |-> s, start |-> 0] \in [data : 0 .. MaxSeconds, start : 0 .. TimersMaxTime]
          /\ [data |-> s, start |-> 0].start <= tNow
      BY <1>1, <2>1
    <3>2. /\ tKey' = [tKey EXCEPT !["NATi"] = [data |-> s, start |-> 0]]
          /\ UNCHANGED <<tNow, tWatchdog>>
      BY <2>11 DEF Timers!UpdateNATi
    <3>3. tKey' \in Keys /\ \A u \in Timers!Timers : tKey'[u].start <= tNow
      BY <2>3, <2>6, <3>1, <3>2
    <3> HIDE DEF Keys, Counted
    <3> QED
      BY <2>1, <2>2, <3>2, <3>3
  <2>12. ASSUME NEW code \in Timers!Jobs \cup {DoNothing}, Timers!UpdateNATJ(code)
         PROVE  Started'
    <3>1. tKey["NATi"].data \in 0 .. MaxSeconds
      BY <2>1, <2>6
    <3>2. /\ tKey' = [tKey EXCEPT !["NATi"] = Timers!StartCountdown(tKey["NATi"].data)]
          /\ tNow' = tNow /\ Timers!Post(code, tKey["NATi"].data, "NATi")
      BY <2>1, <2>6, <2>12 DEF Timers!UpdateNATJ
    <3>3. tWatchdog' \in Counted
      BY <2>5, <2>6, <3>1, <3>2
    <3>4. tKey' \in Keys /\ \A u \in Timers!Timers : tKey'[u].start <= tNow
      BY <2>3, <2>4, <2>6, <3>1, <3>2
    <3> HIDE DEF Keys, Counted
    <3> QED
      BY <2>1, <2>2, <3>2, <3>3, <3>4
  <2>13. CASE UNCHANGED Timers!vars
    <3> HIDE DEF Keys, Counted
    <3> QED
      BY <2>1, <2>2, <2>13 DEF Timers!vars
  <2> QED
    BY <2>7, <2>8, <2>9, <2>10, <2>11, <2>12, <2>13 DEF Timers!Next
<1>5. Started => Timers!TypeOK
  OBVIOUS
<1> QED
  BY <1>3, <1>4, <1>5, PTL DEF Timers!Spec

(* The fans, the queue with no more updates than it has room for, and what *)
(* the threads are doing (postSmcUpdate, IOSleepHandler).                  *)
LEMMA DellTyped ==
  ASSUME Dell!DellAssumption
  PROVE  DSpec => []Dell!TypeOK
<1> DEFINE Room == Len(dQueue) <= MaxUpdates
           Flags == /\ dAwake \in BOOLEAN /\ dIgnore \in BOOLEAN /\ dWakeTimer \in BOOLEAN
                    /\ dPoster \in [DellPosters -> {"idle", "store"}]
                    /\ dPower \in {"up", "down", "post", "force", "drain"}
                    /\ dWaker \in {"idle", "awake", "heed"}
<1>1. Dell!Init => Room /\ Flags
  <2> SUFFICES ASSUME Dell!Init PROVE Room /\ Flags
    OBVIOUS
  <2>1. dQueue = <<>> /\ MaxUpdates \in Nat
    BY DEF Dell!Init, Dell!DellAssumption
  <2>2. Room
    BY <2>1
  <2>3. Flags
    BY DEF Dell!Init
  <2> QED
    BY <2>2, <2>3
<1>2. ASSUME DInv, Flags, [Dell!Next]_(Dell!vars) PROVE Flags'
  <2>1. CASE \E p \in DellPosters : Dell!Post(p) \/ Dell!StoreUpdate(p)
    BY <1>2, <2>1 DEF Dell!Post, Dell!StoreUpdate
  <2>2. CASE Dell!Worker
    BY <1>2, <2>2 DEF Dell!Worker, Dell!ForceAuto, Dell!TakeUpdate, Dell!CallSmm,
       Dell!StoreStatus, Dell!SetTarget
  <2>3. CASE Dell!WillSleep
    BY <1>2, <2>3 DEF Dell!WillSleep
  <2>4. CASE Dell!PostAuto \/ Dell!ForceUpdate \/ Dell!Drained \/ Dell!HasPoweredOn
    BY <1>2, <2>4 DEF Dell!PostAuto, Dell!ForceUpdate, Dell!Drained, Dell!HasPoweredOn
  <2>5. CASE Dell!Fire \/ Dell!WakeUp \/ Dell!HeedUpdates \/ UNCHANGED Dell!vars
    BY <1>2, <2>5 DEF Dell!Fire, Dell!WakeUp, Dell!HeedUpdates, Dell!vars
  <2> QED
    BY <1>2, <2>1, <2>2, <2>3, <2>4, <2>5 DEF Dell!Next, Dell!Power
<1>3. ASSUME DInv, Room, NEW u, Dell!Store(u) PROVE Room'
  <2>1. dQueue \in Seq(DUpdates) /\ Len(dQueue) \in Nat /\ DOMAIN dQueue = 1 .. Len(dQueue)
    BY <1>3 DEF DInv, DTyped
  <2>2. CASE Dell!Pending(u.slot) # {}
    <3>1. dQueue' = [i \in 1 .. Len(dQueue) |->
                       IF i \in Dell!Pending(u.slot) THEN u ELSE dQueue[i]]
      BY <1>3, <2>1, <2>2 DEF Dell!Store, Dell!Overwritten
    <3>2. Len(dQueue') = Len(dQueue)
      BY <2>1, <3>1
    <3> QED
      BY <1>3, <3>2
  <2>3. CASE Dell!Pending(u.slot) = {} /\ Len(dQueue) < MaxUpdates
    <3>1. dQueue' = Append(dQueue, u)
      BY <1>3, <2>3 DEF Dell!Store, Dell!Room
    <3> QED
      BY <2>1, <2>3, <3>1 DEF Dell!DellAssumption
  <2>4. CASE Dell!Pending(u.slot) = {} /\ ~(Len(dQueue) < MaxUpdates)
    BY <1>3, <2>4 DEF Dell!Store, Dell!Room
  <2> QED
    BY <2>2, <2>3, <2>4
<1>4. ASSUME DInv, Room, [Dell!Next]_(Dell!vars) PROVE Room'
  <2>1. CASE dQueue' = dQueue
    BY <1>4, <2>1
  <2>2. CASE \E u : Dell!Store(u)
    BY <1>3, <1>4, <2>2
  <2>3. CASE Dell!TakeUpdate
    BY <1>4, <2>3 DEF Dell!TakeUpdate, DInv, DTyped, Dell!DellAssumption
  <2>4. dQueue' = dQueue \/ (\E u : Dell!Store(u)) \/ Dell!TakeUpdate
    <3>1. ASSUME NEW p \in DellPosters, Dell!StoreUpdate(p) PROVE \E u : Dell!Store(u)
      BY <3>1 DEF Dell!StoreUpdate
    <3>2. Dell!ForceUpdate => \E u : Dell!Store(u)
      BY DEF Dell!ForceUpdate
    <3>3. CASE Dell!Power /\ ~Dell!ForceUpdate
      BY <3>3 DEF Dell!Power, Dell!WillSleep, Dell!PostAuto, Dell!Drained,
         Dell!HasPoweredOn, Dell!Fire, Dell!WakeUp, Dell!HeedUpdates
    <3>4. CASE Dell!Worker /\ ~Dell!TakeUpdate
      BY <3>4 DEF Dell!Worker, Dell!ForceAuto, Dell!CallSmm, Dell!StoreStatus,
         Dell!SetTarget
    <3>5. ASSUME NEW p \in DellPosters, Dell!Post(p) PROVE dQueue' = dQueue
      BY <3>5 DEF Dell!Post
    <3>6. UNCHANGED Dell!vars => dQueue' = dQueue
      BY DEF Dell!vars
    <3> QED
      BY <1>4, <3>1, <3>2, <3>3, <3>4, <3>5, <3>6 DEF Dell!Next
  <2> QED
    BY <2>1, <2>2, <2>3, <2>4
<1>5. DInv /\ Room /\ Flags => Dell!TypeOK
  <2> SUFFICES ASSUME DInv, Room, Flags PROVE Dell!TypeOK
    OBVIOUS
  <2>1. DUpdates = Dell!Update
    BY DEF DUpdates, Dell!Update
  <2>2. {dManual, dAwake, dIgnore, dWakeTimer, dFailed} \subseteq BOOLEAN
    BY DEF DInv, DTyped
  <2>3. dWorker \in [pc : {"start", "idle", "apply", "status"}, update : Dell!Update]
    BY <2>1 DEF DInv, DTyped
  <2>4. dQueue \in Seq(Dell!Update) /\ DOnce
    BY <2>1 DEF DInv, DTyped
  <2>5. dFans \subseteq Fans /\ dTarget \subseteq Fans /\ dAsked \subseteq Fans
    BY DEF DInv, DTyped
  <2> QED
    BY <2>2, <2>3, <2>4, <2>5, Zenon DEF Dell!TypeOK, DOnce
<1> HIDE DEF Room, Flags
<1> QED
  BY <1>1, <1>2, <1>4, <1>5, DellInvariant, PTL DEF DSpec

(* No step is taken but those of the part that moves: every part behaves   *)
(* as its own specification says, the Dell plugin without its fairness.    *)
LEMMA PartsBehave ==
  Spec => /\ Watchdog!Spec /\ Timers!Spec /\ Clock!Spec /\ Startup!Spec
          /\ Efi!Spec /\ Battery!Spec /\ Sensors!Spec /\ DSpec
<1>1. Init => /\ Watchdog!Init /\ Timers!Init /\ Clock!Init /\ Startup!Init
              /\ Efi!Init /\ Battery!Init /\ Dell!Init /\ Sensors!Init
  BY DEF Init
<1>2. [Next]_vars => /\ [Watchdog!Next]_(Watchdog!vars) /\ [Timers!Next]_(Timers!vars)
                     /\ [Clock!Next]_(Clock!vars) /\ [Startup!Next]_(Startup!vars)
                     /\ [Efi!Next]_(Efi!vars) /\ [Battery!Next]_(Battery!vars)
                     /\ [Dell!Next]_(Dell!vars) /\ [Sensors!Next]_(Sensors!vars)
  <2>1. /\ UNCHANGED wVars => UNCHANGED Watchdog!vars
        /\ UNCHANGED tVars => UNCHANGED Timers!vars
        /\ UNCHANGED cVars => UNCHANGED Clock!vars
        /\ UNCHANGED uVars => UNCHANGED Startup!vars
        /\ UNCHANGED eVars => UNCHANGED Efi!vars
        /\ UNCHANGED bVars => UNCHANGED Battery!vars
        /\ UNCHANGED dVars => UNCHANGED Dell!vars
        /\ UNCHANGED sVars => UNCHANGED Sensors!vars
    BY DEF wVars, tVars, cVars, uVars, eVars, bVars, dVars, sVars, Watchdog!vars,
       Timers!vars, Clock!vars, Startup!vars, Efi!vars, Battery!vars, Dell!vars,
       Sensors!vars
  <2> QED
    BY <2>1 DEF Next, vars, OnlyWatchdog, OnlyTimers, OnlyClock, OnlyStartup, OnlyEfi,
       OnlyBattery, OnlyDell, OnlySensors
<1> QED
  BY <1>1, <1>2, PTL DEF Spec, Watchdog!Spec, Timers!Spec, Clock!Spec, Startup!Spec,
     Efi!Spec, Battery!Spec, Sensors!Spec, DSpec

(* Every variable of the part that moves keeps its type: no counter leaves *)
(* its range, no queue its length and no thread the steps of its routine.  *)
THEOREM TypesCorrect == Spec => []TypeOK
<1>1. /\ Startup!Spec => []Startup!TypeOK
      /\ Battery!Spec => []Battery!TypeOK
  <2>1. BatteryProofs!Spec => []BatteryProofs!TypeOK
    BY DevicesAssumption, SameBattery, BatteryProofs!TypeCorrect
  <2>2. BatteryProofs!TypeOK => Battery!TypeOK
    BY DEF BatteryProofs!TypeOK, Battery!TypeOK, Battery!Batteries,
       BatteryProofs!Batteries, Battery!Threads, BatteryProofs!Threads,
       Battery!Nobody, BatteryProofs!Nobody
  <2> QED
    BY <2>1, <2>2, StartupTyped, SameBatterySpec, PTL
<1>2. /\ Watchdog!Spec => []Watchdog!TypeOK
      /\ Timers!Spec => []Timers!TypeOK
      /\ Clock!Spec => []Clock!TypeOK
      /\ Efi!Spec => []Efi!TypeOK
      /\ Sensors!Spec => []Sensors!TypeOK
      /\ DSpec => []Dell!TypeOK
  BY DevicesAssumption, WatchdogTyped, TimersTyped, ClockTyped, EfiTyped,
     SensorsTyped, DellTyped
<1>3. Init => part \in Parts
  BY DEF Init
<1>4. part \in Parts /\ [Next]_vars => (part \in Parts)'
  BY DEF Next, vars, OnlyWatchdog, OnlyTimers, OnlyClock, OnlyStartup, OnlyEfi,
     OnlyBattery, OnlyDell, OnlySensors
<1>5. part \in Parts /\ Watchdog!TypeOK /\ Timers!TypeOK /\ Clock!TypeOK
      /\ Startup!TypeOK /\ Efi!TypeOK /\ Battery!TypeOK /\ Dell!TypeOK
      /\ Sensors!TypeOK => TypeOK
  BY DEF TypeOK
<1>6. Spec => []Watchdog!TypeOK /\ []Timers!TypeOK /\ []Clock!TypeOK /\ []Startup!TypeOK
              /\ []Efi!TypeOK /\ []Battery!TypeOK /\ []Dell!TypeOK /\ []Sensors!TypeOK
  BY <1>1, <1>2, PartsBehave
<1>7. Spec => [](part \in Parts)
  BY <1>3, <1>4, PTL DEF Spec
<1> QED
  BY <1>5, <1>6, <1>7, PTL

(* What the theorems above say of each part holds of the devices together: *)
(* every safety property that is checked of them.                          *)
THEOREM DevicesSafe ==
  Spec => /\ [](JobHasTimer /\ CountdownHonest)
          /\ [](FirstGenerationPrivate /\ SecondPublishes /\ RegisteredWhenReady)
          /\ [](SubmittedReadable /\ UpdateScheduled /\ CalledWithTarget)
          /\ [](LastTargetApplied /\ ControlAgrees /\ RefreshComes)
          /\ WakeCounterGrows /\ SleepStopsQuickPolls
<1>1. Spec => /\ []JobHasTimer /\ []CountdownHonest
              /\ []FirstGenerationPrivate /\ []SecondPublishes /\ []RegisteredWhenReady
              /\ []SubmittedReadable /\ []UpdateScheduled /\ []CalledWithTarget
              /\ []LastTargetApplied /\ []ControlAgrees /\ []RefreshComes
              /\ WakeCounterGrows /\ SleepStopsQuickPolls
  BY DevicesAssumption, PartsBehave, StoredJobHasTimer, CountdownsAreHonest,
     FirstGenerationIsPrivate, SecondThreadPublishes, NeverTooEarly,
     SubmissionReadable, NoUpdateForgotten,
     HandlerHasTarget, LastTargetWins, ModeAgreesWithStatus, RefreshAlwaysComes,
     WakeCounterOnlyGrows, QuickPollsStop
<1> QED
  BY <1>1, PTL
=============================================================================
