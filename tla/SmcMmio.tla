------------------------------- MODULE SmcMmio -------------------------------
(***************************************************************************)
(* The memory mapped protocol of the emulated SMC (kern_mmio.cpp),         *)
(* together with the event queue it posts to and is read through.          *)
(*                                                                         *)
(* Two threads of AppleSMC touch the window: the one that issues commands  *)
(* (AppleSMC serialises them) and the event thread.  A write of the        *)
(* command register runs handleWrite after the page fault is over, a read  *)
(* of a status register runs handleRead before the faulting instruction    *)
(* reads the window; both outside every lock, so the two threads           *)
(* interleave between any two accesses to the shared members.              *)
(***************************************************************************)
EXTENDS SmcKeyAccess

CONSTANTS
  Posters, Driver, Codes, NoEvent, Data, Oversize, NoData, MaxActiveInterrupts,
  Commander,   \* AppleSMC's command thread, which posts SmcEventKeyDone
  KeyDone      \* SmcEventKeyDone

ASSUME MmioAssumption ==
  /\ Commander \in Posters
  /\ Driver \notin Posters
  /\ KeyDone \in Codes
  /\ NoEvent \notin Codes
  /\ Data # {}

VARIABLES
  interruptsEnabled, storedInterrupts, registration, pc, signal, currentEvent,
  missed,               \* the event queue, see SmcEvents
  window,               \* the registers and the data area the driver sees
  currentResult, currentStatus, currentEventStatus, dataBuffer, dataSize,
  store,                \* the values in the key store
  at,                   \* where the two threads are in their handlers
  code,                 \* local of handleRead: the event it took
  undelivered           \* history: the driver has not seen the completion

queue == <<interruptsEnabled, storedInterrupts, registration, pc, signal,
           currentEvent, missed>>

device == <<currentResult, currentStatus, currentEventStatus, dataBuffer,
            dataSize, store>>

vars == <<queue, window, device, at, code, undelivered>>

Events == INSTANCE SmcEvents

(* The status flag SMC_STATUS_KEY_DONE, and no flag.                       *)
Statuses == {"KEY_DONE", "none"}

Init ==
  /\ Events!Init
  /\ window = [result |-> "none", size |-> 0, data |-> Zeros(MaxDataSize),
               keyStatus |-> "none", eventStatus |-> "none"]
  /\ currentResult = "Success"
  /\ currentStatus = "none" /\ currentEventStatus = "none"
  /\ dataBuffer = Zeros(MaxDataSize) /\ dataSize = 0
  /\ store = Initial
  /\ at = [t \in {Commander, Driver} |-> "idle"]
  /\ code = NoEvent
  /\ undelivered = FALSE

Goto(t, from, to) == at[t] = from /\ at' = [at EXCEPT ![t] = to]

(* A handler goes on once its call into the event queue has returned.      *)
Returned(t) == pc[t] = "idle"

-----------------------------------------------------------------------------
(* handleWrite: the command runs, then submitData in steps of its own.     *)

(* The buffer with the bytes copied to its front.                          *)
Filled(buffer, bytes) ==
  [i \in 1..MaxDataSize |-> IF i <= Len(bytes) THEN bytes[i] ELSE buffer[i]]

(* The buffer after bzero of its first n bytes.                            *)
ErasedMutant(buffer, n) == buffer

Erased(buffer, n) ==
  [i \in 1..MaxDataSize |-> IF i <= n THEN 0 ELSE buffer[i]]

CountedMutant(bytes) == Len(bytes) + 1

Counted(bytes) == Len(bytes)

(* A successful query is copied to the buffer and counted; a refused one   *)
(* leaves the buffer and its size alone.                                   *)
Prepare(answer) ==
  /\ currentResult' = answer.result
  /\ IF answer.result = "Success"
       THEN /\ dataBuffer' = Filled(dataBuffer, answer.bytes)
            /\ dataSize' = Counted(answer.bytes)
       ELSE UNCHANGED <<dataBuffer, dataSize>>
  /\ UNCHANGED <<window, store>>

ReadValue(k) == Prepare(ReadKey(store, k))

GetKeyFromIndex(i) == Prepare(NameByIndex(i))

(* The information is copied, but not counted.                             *)
GetKeyInfo(k) ==
  /\ currentResult' = InfoByName(k).result
  /\ dataBuffer' = IF k \in Keys THEN Filled(dataBuffer, InfoOf[k])
                   ELSE dataBuffer
  /\ UNCHANGED <<window, dataSize, store>>

(* The driver has written its bytes to the data area of the window, over   *)
(* the previous reply; the key takes as many bytes as it has from there.   *)
WriteValue(k, bytes) ==
  LET area == Filled(window.data, bytes)
  IN /\ \E r \in WriteResults(k) :
          /\ currentResult' = r
          /\ store' = WriteKey(store, k, area, r)
     /\ window' = [window EXCEPT !.data = area]
     /\ UNCHANGED <<dataBuffer, dataSize>>

(* Attributes that are not zero, a reset, an unknown command, and a write  *)
(* of more bytes than the data area has.                                   *)
Refuse(result) ==
  /\ currentResult' = result
  /\ UNCHANGED <<window, dataBuffer, dataSize, store>>

HandleWrite ==
  /\ Goto(Commander, "idle", "submit")
  /\ \/ \E k \in Strings(KeyLen) : ReadValue(k) \/ GetKeyInfo(k)
     \/ \E i \in Strings(IndexLen) : GetKeyFromIndex(i)
     \/ \E k \in Strings(KeyLen), n \in 0..MaxDataSize :
          \E bytes \in Strings(n) : WriteValue(k, bytes)
     \/ \E r \in {"BadCommand", "KeySizeMismatch"} : Refuse(r)
  /\ UNCHANGED <<queue, currentStatus, currentEventStatus, code, undelivered>>

(* submitData copies result, size and the whole buffer to the window, and  *)
(* clears as many bytes of the buffer as were counted.                     *)
SubmitData ==
  /\ Goto(Commander, "submit", "status")
  /\ window' = [window EXCEPT !.result = currentResult, !.size = dataSize,
                              !.data = dataBuffer]
  /\ dataBuffer' = Erased(dataBuffer, dataSize)
  /\ dataSize' = 0
  /\ UNCHANGED <<queue, currentResult, currentStatus, currentEventStatus,
                 store, code, undelivered>>

SetStatus ==
  /\ Goto(Commander, "status", "post")
  /\ currentStatus' = "KEY_DONE"
  /\ undelivered' = TRUE
  /\ UNCHANGED <<queue, window, currentResult, currentEventStatus, dataBuffer,
                 dataSize, store, code>>

(* The completion carries no data.                                         *)
NoBytes == CHOOSE d \in Data : TRUE

(* postInterrupt would not take the completion now.                        *)
Refused ==
  \/ ~interruptsEnabled
  \/ Events!Holds(KeyDone) = {} /\ ~Events!HasFreeSlot

PostDone ==
  /\ Goto(Commander, "post", "return")
  /\ \/ Events!Post(Commander, KeyDone, NoBytes)
     \/ Refused /\ UNCHANGED queue
  /\ UNCHANGED <<window, device, code, undelivered>>

Return ==
  /\ Goto(Commander, "return", "idle")
  /\ Returned(Commander)
  /\ UNCHANGED <<queue, window, device, code, undelivered>>

-----------------------------------------------------------------------------
(* handleRead of the key status register, by the command thread.           *)

ShowStatus ==
  /\ Goto(Commander, "idle", "clear")
  /\ window' = [window EXCEPT !.keyStatus = currentStatus]
  /\ UNCHANGED <<queue, device, code, undelivered>>

ClearStatus ==
  /\ Goto(Commander, "clear", "take")
  /\ currentStatus' = "none"
  /\ UNCHANGED <<queue, window, currentResult, currentEventStatus, dataBuffer,
                 dataSize, store, code, undelivered>>

(* The faulting instruction reads what the handler left.                   *)
TakeStatus ==
  /\ Goto(Commander, "take", "idle")
  /\ undelivered' = (undelivered /\ window.keyStatus # "KEY_DONE")
  /\ UNCHANGED <<queue, window, device, code>>

-----------------------------------------------------------------------------
(* handleRead of the event status register, by the event thread.           *)

EnterRead ==
  /\ Goto(Driver, "idle", "get")
  /\ Events!TakeSignal \/ Events!PollEvent
  /\ UNCHANGED <<window, device, code, undelivered>>

(* Only the event of a completed command stands for the key status.        *)
ClearsKeyStatusMutant(c) == c # NoEvent

ClearsKeyStatus(c) == c = KeyDone

(* getInterrupt; setInterrupt, which it calls, sets the event status.      *)
GetInterrupt ==
  LET taken == IF storedInterrupts = <<>> THEN NoEvent
               ELSE Head(storedInterrupts).code
  IN /\ Goto(Driver, "get",
             IF ClearsKeyStatus(taken) THEN "clear" ELSE "publish")
     /\ Events!Read
     /\ code' = taken
     /\ currentEventStatus' = IF taken = NoEvent THEN currentEventStatus
                              ELSE "KEY_DONE"
     /\ UNCHANGED <<window, currentResult, currentStatus, dataBuffer, dataSize,
                    store, undelivered>>

ClearKeyStatus ==
  /\ Goto(Driver, "clear", "publish")
  /\ Returned(Driver)
  /\ currentStatus' = "none"
  /\ UNCHANGED <<queue, window, currentResult, currentEventStatus, dataBuffer,
                 dataSize, store, code, undelivered>>

ShowEventStatus ==
  /\ Goto(Driver, "publish", "reset")
  /\ Returned(Driver)
  /\ window' = [window EXCEPT !.eventStatus = currentEventStatus]
  /\ UNCHANGED <<queue, device, code, undelivered>>

StatusAfterReadMutant == currentEventStatus

StatusAfterRead == "none"

ResetEventStatus ==
  /\ Goto(Driver, "reset", "take")
  /\ currentEventStatus' = StatusAfterRead
  /\ UNCHANGED <<queue, window, currentResult, currentStatus, dataBuffer,
                 dataSize, store, code, undelivered>>

(* The faulting instruction reads the register.  AppleSMC remembers a      *)
(* completion it has read for the command thread that waits for it.        *)
TakeEvent ==
  /\ Goto(Driver, "take", "idle")
  /\ undelivered' = (undelivered /\ ~(window.eventStatus = "KEY_DONE"
                                      /\ code = KeyDone))
  /\ code' = NoEvent
  /\ UNCHANGED <<queue, window, device>>

-----------------------------------------------------------------------------
(* Whatever else uses the queue: the registration calls, a write of NTOK,  *)
(* the other posters, and the threads inside causeInterrupt.               *)
QueueOnly ==
  /\ \/ Events!Sources
     \/ \E t \in Posters \ {Commander}, c \in Codes, d \in Data :
          Events!Post(t, c, d)
     \/ \E t \in Events!Threads : Events!Deliver(t)
  /\ UNCHANGED <<window, device, at, code, undelivered>>

ValueChanges(k) ==
  /\ \E v \in Readings[k] : store' = Refreshed(store, k, v)
  /\ UNCHANGED <<queue, window, currentResult, currentStatus,
                 currentEventStatus, dataBuffer, dataSize, at, code,
                 undelivered>>

Command == SubmitData \/ SetStatus \/ PostDone \/ Return

StatusRead == ClearStatus \/ TakeStatus

EventRead ==
  \/ GetInterrupt
  \/ ClearKeyStatus
  \/ ShowEventStatus
  \/ ResetEventStatus
  \/ TakeEvent

Next ==
  \/ HandleWrite
  \/ Command
  \/ ShowStatus
  \/ StatusRead
  \/ EnterRead
  \/ EventRead
  \/ QueueOnly
  \/ \E k \in Keys : ValueChanges(k)

Spec == Init /\ [][Next]_vars

-----------------------------------------------------------------------------
Results == {"Success", "BadCommand", "KeySizeMismatch", "NotFound",
            "NotReadable", "NotWritable", "BadParameter"}

(* Type correctness of the registers, the members and the store; the       *)
(* counted bytes never exceed the data area.                               *)
TypeOK ==
  /\ window \in [result : Results \cup {"none"}, size : 0..MaxDataSize,
                 data : Strings(MaxDataSize), keyStatus : Statuses,
                 eventStatus : Statuses]
  /\ currentResult \in Results
  /\ currentStatus \in Statuses /\ currentEventStatus \in Statuses
  /\ dataBuffer \in Strings(MaxDataSize) /\ dataSize \in 0..MaxDataSize
  /\ DOMAIN store = Keys /\ \A k \in Keys : store[k] \in Strings(SizeOf[k])
  /\ DOMAIN at = {Commander, Driver}
  /\ at[Commander] \in {"idle", "submit", "status", "post", "return", "clear",
                        "take"}
  /\ at[Driver] \in {"idle", "get", "clear", "publish", "reset", "take"}
  /\ code \in Codes \cup {NoEvent}
  /\ undelivered \in BOOLEAN

(* A status or event read that will show the completion is under way.      *)
CompletionUnderWay ==
  \/ at[Commander] \in {"clear", "take"} /\ window.keyStatus = "KEY_DONE"
  \/ at[Driver] \in {"clear", "publish", "reset", "take"} /\ code = KeyDone

(* A completed command stays visible until the driver has seen it: in the  *)
(* key status, in the queue, or in a register read under way, although     *)
(* both kinds of read clear the key status and either may overlap the      *)
(* command, and although the post may be refused.                          *)
CompletionVisible ==
  undelivered =>
    \/ currentStatus = "KEY_DONE"
    \/ Events!Holds(KeyDone) # {}
    \/ CompletionUnderWay

(* The event status the driver reads tells of this very read: it is set    *)
(* exactly when the read took an event, never left over from an earlier    *)
(* read that found one.                                                    *)
EventStatusFresh ==
  at[Driver] = "take" =>
    (window.eventStatus = "KEY_DONE" <=> code # NoEvent)

(* Whatever the order of commands, no byte of a value survives in the      *)
(* buffer into a later reply: what lies beyond the counted bytes is zero   *)
(* or belongs to the information on a key.                                 *)
NoValueLeft ==
  \A i \in 1..MaxDataSize : i > dataSize /\ dataBuffer[i] # 0 =>
    i <= InfoLen /\ \E k \in Keys : dataBuffer[i] = InfoOf[k][i]

(* The protocol uses the queue only through its critical sections, so what *)
(* is proved of the queue holds here.                                      *)
QueueSpec == Events!Spec
=============================================================================
