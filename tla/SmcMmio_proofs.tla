---------------------------- MODULE SmcMmio_proofs ----------------------------
(***************************************************************************)
(* Proofs about SmcMmio for every set of threads and codes, every number   *)
(* of slots and every key store.                                           *)
(***************************************************************************)
EXTENDS SmcMmio, SequenceTheorems, TLAPS

-----------------------------------------------------------------------------
(* The protocol and the queue.                                             *)

(* The next-state relation, action by action.                              *)
LEMMA NextCases ==
  ASSUME NEW P, [Next]_vars,
         HandleWrite => P, SubmitData => P, SetStatus => P, PostDone => P,
         Return => P, ShowStatus => P, ClearStatus => P, TakeStatus => P,
         EnterRead => P, GetInterrupt => P, ClearKeyStatus => P,
         ShowEventStatus => P, ResetEventStatus => P, TakeEvent => P,
         QueueOnly => P, \A k \in Keys : ValueChanges(k) => P,
         UNCHANGED vars => P
  PROVE  P
BY DEF Next, Command, StatusRead, EventRead

(* The steps that leave the queue alone.                                   *)
LEMMA QueueUntouched ==
  ASSUME HandleWrite \/ SubmitData \/ SetStatus \/ Return \/ ShowStatus
           \/ ClearStatus \/ TakeStatus \/ ClearKeyStatus \/ ShowEventStatus
           \/ ResetEventStatus \/ TakeEvent
           \/ (\E k \in Keys : ValueChanges(k)) \/ UNCHANGED vars
  PROVE  UNCHANGED queue
BY DEF HandleWrite, SubmitData, SetStatus, Return, ShowStatus, ClearStatus,
       TakeStatus, ClearKeyStatus, ShowEventStatus, ResetEventStatus,
       TakeEvent, ValueChanges, vars

(* The completion event carries no data.                                    *)
LEMMA NoBytesIsData == NoBytes \in Data
BY MmioAssumption DEF NoBytes

(* The protocol uses the queue through its critical sections only: every   *)
(* step is a step of SmcEvents or leaves the queue alone, so whatever is   *)
(* proved of SmcEvents holds of the queue under the protocol.              *)
THEOREM UsesQueue == Spec => QueueSpec
<1>1. Init => Events!Init
  BY DEF Init
<1>2. [Next]_vars => [Events!Next]_(Events!vars)
  <2> SUFFICES ASSUME [Next]_vars PROVE [Events!Next]_(Events!vars)
    OBVIOUS
  <2>1. ASSUME UNCHANGED queue PROVE UNCHANGED Events!vars
    BY <2>1 DEF queue, Events!vars
  <2>2. ASSUME PostDone PROVE [Events!Next]_(Events!vars)
    <3>1. ASSUME Events!Post(Commander, KeyDone, NoBytes) PROVE Events!Next
      BY <3>1, MmioAssumption, NoBytesIsData DEF Events!Next
    <3> QED
      BY <2>1, <2>2, <3>1 DEF PostDone
  <2>3. ASSUME EnterRead PROVE Events!Next
    BY <2>3 DEF EnterRead, Events!Next
  <2>4. ASSUME GetInterrupt PROVE Events!Next
    BY <2>4 DEF GetInterrupt, Events!Next
  <2>5. ASSUME QueueOnly PROVE Events!Next
    BY <2>5 DEF QueueOnly, Events!Next
  <2> QED
    BY <2>1, <2>2, <2>3, <2>4, <2>5, QueueUntouched, NextCases
<1> QED
  BY <1>1, <1>2, PTL DEF Spec, QueueSpec, Events!Spec

-----------------------------------------------------------------------------
(* The completion of a command.                                            *)

Steps == {"idle", "submit", "status", "post", "return", "clear", "take",
          "get", "publish", "reset"}

Places == at \in [{Commander, Driver} -> Steps]

Fields == /\ "keyStatus" \in DOMAIN window /\ "eventStatus" \in DOMAIN window
          /\ "data" \in DOMAIN window /\ "result" \in DOMAIN window
          /\ "size" \in DOMAIN window

QueueTyped == storedInterrupts \in Seq(Events!Event)

(* How the event status travels from setInterrupt to the driver.           *)
EventFlow ==
  /\ at[Driver] \in {"idle", "get", "take"} => currentEventStatus = "none"
  /\ at[Driver] \in {"clear", "publish", "reset"} =>
       (currentEventStatus = "KEY_DONE" <=> code # NoEvent)
  /\ at[Driver] \in {"reset", "take"} =>
       (window.eventStatus = "KEY_DONE" <=> code # NoEvent)
  /\ at[Driver] = "clear" => code = KeyDone

(* A status read clears no completion it does not show.                    *)
StatusFlow ==
  at[Commander] = "clear" /\ currentStatus = "KEY_DONE" =>
    window.keyStatus = "KEY_DONE"

IInv ==
  /\ Places
  /\ Fields
  /\ QueueTyped
  /\ EventFlow
  /\ StatusFlow
  /\ CompletionVisible

HasKeyDone == Events!Holds(KeyDone) # {}

(* A post keeps the queue typed and every stored code stored.              *)
LEMMA PostKeeps ==
  ASSUME QueueTyped, NEW t, NEW c \in Codes, NEW d \in Data,
         Events!Post(t, c, d)
  PROVE  QueueTyped' /\ (HasKeyDone => HasKeyDone')
<1>1. CASE Events!PostAgain(t, c, d)
  <2>1. /\ storedInterrupts' =
             [i \in DOMAIN storedInterrupts |->
                IF i \in Events!Holds(c) THEN [code |-> c, data |-> d]
                ELSE storedInterrupts[i]]
        /\ DOMAIN storedInterrupts = 1..Len(storedInterrupts)
        /\ Len(storedInterrupts) \in Nat
    BY <1>1 DEF Events!PostAgain, Events!Merged, QueueTyped
  <2>2. QueueTyped'
    <3>1. [code |-> c, data |-> d] \in Events!Event
      BY DEF Events!Event
    <3>2. storedInterrupts' \in [1..Len(storedInterrupts) -> Events!Event]
      BY <2>1, <3>1 DEF QueueTyped
    <3> QED
      BY <2>1, <3>2 DEF QueueTyped
  <2>3. \A i \in DOMAIN storedInterrupts :
          storedInterrupts'[i].code = storedInterrupts[i].code
    BY <2>1 DEF Events!Holds
  <2> QED
    <3>1. DOMAIN storedInterrupts' = DOMAIN storedInterrupts
      BY <2>1
    <3> QED
      BY <2>2, <2>3, <3>1 DEF HasKeyDone, Events!Holds
<1>2. CASE Events!PostNew(t, c, d)
  <2>1. storedInterrupts' = Append(storedInterrupts, [code |-> c, data |-> d])
    BY <1>2 DEF Events!PostNew
  <2>2. [code |-> c, data |-> d] \in Events!Event
    BY DEF Events!Event
  <2> QED
    BY <2>1, <2>2 DEF QueueTyped, HasKeyDone, Events!Holds
<1> QED
  BY <1>1, <1>2 DEF Events!Post

(* Taking the oldest event leaves a stored completion stored unless it is  *)
(* the one taken.                                                          *)
LEMMA TakeKeeps ==
  ASSUME QueueTyped, Events!GetInterrupt
  PROVE  /\ QueueTyped'
         /\ Head(storedInterrupts).code \in Codes
         /\ HasKeyDone /\ Head(storedInterrupts).code # KeyDone => HasKeyDone'
<1>1. /\ storedInterrupts # <<>>
      /\ storedInterrupts' = Tail(storedInterrupts)
  BY DEF Events!GetInterrupt
<1>2. /\ Len(storedInterrupts) \in Nat \ {0}
      /\ Len(storedInterrupts') = Len(storedInterrupts) - 1
      /\ Head(storedInterrupts) = storedInterrupts[1]
      /\ \A i \in 1..Len(storedInterrupts') :
           storedInterrupts'[i] = storedInterrupts[i + 1]
  BY <1>1 DEF QueueTyped
<1>3. ASSUME NEW i \in DOMAIN storedInterrupts,
             storedInterrupts[i].code = KeyDone,
             Head(storedInterrupts).code # KeyDone
      PROVE  HasKeyDone'
  <2>1. i - 1 \in 1..Len(storedInterrupts') /\ i = (i - 1) + 1
    BY <1>2, <1>3 DEF QueueTyped
  <2>2. i - 1 \in DOMAIN storedInterrupts'
        /\ storedInterrupts'[i - 1].code = KeyDone
    BY <1>1, <1>2, <1>3, <2>1 DEF QueueTyped
  <2> QED
    BY <2>2 DEF HasKeyDone, Events!Holds
<1>4. QueueTyped' /\ Head(storedInterrupts).code \in Codes
  <2>1. QueueTyped' /\ Head(storedInterrupts) \in Events!Event
    BY <1>1, HeadTailProperties DEF QueueTyped
  <2> QED
    BY <2>1 DEF Events!Event
<1>5. ASSUME HasKeyDone, Head(storedInterrupts).code # KeyDone
      PROVE  HasKeyDone'
  <2>1. PICK i \in DOMAIN storedInterrupts :
          storedInterrupts[i].code = KeyDone
    BY <1>5 DEF HasKeyDone, Events!Holds
  <2> QED
    BY <1>3, <1>5, <2>1
<1> QED
  BY <1>4, <1>5

(* The other users of the queue.                                           *)
LEMMA QueueOnlyKeeps ==
  ASSUME QueueTyped, QueueOnly
  PROVE  QueueTyped' /\ (HasKeyDone => HasKeyDone')
<1>1. ASSUME UNCHANGED storedInterrupts
      PROVE  QueueTyped' /\ (HasKeyDone => HasKeyDone')
  BY <1>1 DEF QueueTyped, HasKeyDone, Events!Holds
<1>2. Events!Sources \/ (\E t \in Events!Threads : Events!Deliver(t))
        => UNCHANGED storedInterrupts
  BY DEF Events!Sources, Events!RegisterInterrupt, Events!UnregisterInterrupt,
         Events!EnableInterrupt, Events!DisableInterrupt,
         Events!SetRegistration, Events!SetInterrupts, Events!Deliver,
         Events!CauseInterrupt, Events!CallHandler
<1> QED
  BY <1>1, <1>2, PostKeeps DEF QueueOnly

-----------------------------------------------------------------------------
(* The invariant holds initially and every action keeps it.                *)

LEMMA InitOK == Init => IInv
<1> SUFFICES ASSUME Init PROVE IInv
  OBVIOUS
<1>1. storedInterrupts = <<>>
  BY DEF Init, Events!Init
<1>2. Places /\ Fields /\ EventFlow /\ StatusFlow /\ CompletionVisible
  BY DEF Init, Places, Steps, Fields, EventFlow, StatusFlow, CompletionVisible
<1>3. QueueTyped
  BY <1>1, EmptySeq DEF QueueTyped
<1> QED
  BY <1>2, <1>3 DEF IInv

(* What the steps that do not enter the queue have in common.              *)
LEMMA SameQueue ==
  ASSUME QueueTyped, UNCHANGED queue
  PROVE  QueueTyped' /\ HasKeyDone' = HasKeyDone
BY DEF queue, QueueTyped, HasKeyDone, Events!Holds

(* The two threads of the driver are two.                                   *)
LEMMA Distinct == Commander # Driver
BY MmioAssumption

(* The command thread's own steps.                                         *)
LEMMA CommanderKeeps ==
  ASSUME IInv,
         HandleWrite \/ SubmitData \/ SetStatus \/ Return \/ ShowStatus
           \/ ClearStatus \/ TakeStatus
  PROVE  IInv'
<1>1. UNCHANGED queue
  BY QueueUntouched
<1>2. QueueTyped' /\ HasKeyDone' = HasKeyDone
  BY <1>1, SameQueue DEF IInv
<1> USE Distinct DEF IInv, Places, Steps, Fields, EventFlow, StatusFlow,
                     CompletionVisible, CompletionUnderWay, HasKeyDone, Goto
<1>3. CASE HandleWrite
  <2>1. Fields' /\ window'.keyStatus = window.keyStatus
                /\ window'.eventStatus = window.eventStatus
    BY <1>3 DEF HandleWrite, ReadValue, GetKeyInfo, GetKeyFromIndex,
                WriteValue, Refuse, Prepare
  <2> QED
    BY <1>2, <1>3, <2>1 DEF HandleWrite
<1>4. CASE SubmitData
  BY <1>2, <1>4 DEF SubmitData
<1>5. CASE SetStatus
  BY <1>2, <1>5 DEF SetStatus
<1>6. CASE Return
  BY <1>2, <1>6 DEF Return, device
<1>7. CASE ShowStatus
  BY <1>2, <1>7 DEF ShowStatus, device
<1>8. CASE ClearStatus
  BY <1>2, <1>8 DEF ClearStatus
<1>9. CASE TakeStatus
  BY <1>2, <1>9 DEF TakeStatus, device
<1> QED
  BY <1>3, <1>4, <1>5, <1>6, <1>7, <1>8, <1>9

(* The event thread's steps outside the queue.                             *)
LEMMA EventThreadKeeps ==
  ASSUME IInv,
         ClearKeyStatus \/ ShowEventStatus \/ ResetEventStatus \/ TakeEvent
  PROVE  IInv'
<1>1. UNCHANGED queue
  BY QueueUntouched
<1>2. QueueTyped' /\ HasKeyDone' = HasKeyDone
  BY <1>1, SameQueue DEF IInv
<1> USE Distinct DEF IInv, Places, Steps, Fields, EventFlow, StatusFlow,
                     CompletionVisible, CompletionUnderWay, HasKeyDone, Goto
<1>3. CASE ClearKeyStatus
  BY <1>2, <1>3 DEF ClearKeyStatus
<1>4. CASE ShowEventStatus
  BY <1>2, <1>4 DEF ShowEventStatus, device
<1>5. CASE ResetEventStatus
  BY <1>2, <1>5 DEF ResetEventStatus, StatusAfterRead
<1>6. CASE TakeEvent
  BY <1>2, <1>6, MmioAssumption DEF TakeEvent, device
<1> QED
  BY <1>3, <1>4, <1>5, <1>6

(* The steps that use the queue.                                           *)
LEMMA QueueStepsKeep ==
  ASSUME IInv, PostDone \/ EnterRead \/ QueueOnly
  PROVE  IInv'
<1> USE Distinct DEF IInv, Places, Steps, Fields, EventFlow, StatusFlow,
                     CompletionVisible, CompletionUnderWay, HasKeyDone, Goto
<1>1. CASE PostDone
  <2>1. QueueTyped' /\ (HasKeyDone => HasKeyDone')
    BY <1>1, SameQueue, PostKeeps, NoBytesIsData, MmioAssumption DEF PostDone
  <2> QED
    BY <1>1, <2>1 DEF PostDone, device
<1>2. CASE EnterRead
  <2>1. UNCHANGED storedInterrupts
    BY <1>2 DEF EnterRead, Events!TakeSignal, Events!PollEvent
  <2>2. QueueTyped' /\ HasKeyDone' = HasKeyDone
    BY <2>1 DEF QueueTyped, Events!Holds
  <2> QED
    BY <1>2, <2>2 DEF EnterRead, device
<1>3. CASE QueueOnly
  <2>1. QueueTyped' /\ (HasKeyDone => HasKeyDone')
    BY <1>3, QueueOnlyKeeps
  <2> QED
    BY <1>3, <2>1 DEF QueueOnly, device
<1> QED
  BY <1>1, <1>2, <1>3

(* A register read that enters the queue: the taken completion is under    *)
(* way to the driver before the key status is cleared.                     *)
LEMMA GetInterruptKeeps ==
  ASSUME IInv, GetInterrupt PROVE IInv'
<1> DEFINE taken == IF storedInterrupts = <<>> THEN NoEvent
                    ELSE Head(storedInterrupts).code
<1>1. /\ at[Driver] = "get"
      /\ at' = [at EXCEPT ![Driver] = IF taken = KeyDone THEN "clear"
                                      ELSE "publish"]
      /\ code' = taken
      /\ currentEventStatus' = IF taken = NoEvent THEN currentEventStatus
                               ELSE "KEY_DONE"
      /\ UNCHANGED <<window, currentStatus, undelivered>>
  BY DEF GetInterrupt, Goto, ClearsKeyStatus
<1>2. /\ QueueTyped'
      /\ taken \in Codes \cup {NoEvent}
      /\ storedInterrupts = <<>> <=> taken = NoEvent
      /\ HasKeyDone => HasKeyDone' \/ taken = KeyDone
  <2>1. CASE Events!GetNothing
    BY <2>1 DEF Events!GetNothing, IInv, QueueTyped, HasKeyDone, Events!Holds
  <2>2. CASE Events!GetInterrupt
    <3>1. storedInterrupts # <<>> /\ taken = Head(storedInterrupts).code
      BY <2>2 DEF Events!GetInterrupt
    <3> HIDE DEF taken
    <3> QED
      BY <2>2, <3>1, TakeKeeps, MmioAssumption DEF IInv
  <2> QED
    BY <2>1, <2>2 DEF GetInterrupt, Events!Read
<1> HIDE DEF taken
<1> QED
  BY <1>1, <1>2, Distinct, MmioAssumption
     DEF IInv, Places, Steps, Fields, EventFlow, StatusFlow,
         CompletionVisible, CompletionUnderWay, HasKeyDone

(* A completed command stays visible to the driver until it is seen.       *)
THEOREM Invariant == Spec => []IInv
<1>1. IInv /\ [Next]_vars => IInv'
  <2> SUFFICES ASSUME IInv, [Next]_vars PROVE IInv'
    OBVIOUS
  <2>1. ASSUME NEW k \in Keys, ValueChanges(k) PROVE IInv'
    BY <2>1 DEF ValueChanges, queue, IInv, Places, Fields, QueueTyped,
                EventFlow, StatusFlow, CompletionVisible, CompletionUnderWay,
                Events!Holds
  <2>2. ASSUME UNCHANGED vars PROVE IInv'
    BY <2>2 DEF vars, device, queue, IInv, Places, Fields, QueueTyped,
                EventFlow, StatusFlow, CompletionVisible, CompletionUnderWay,
                Events!Holds
  <2> QED
    BY <2>1, <2>2, CommanderKeeps, EventThreadKeeps, QueueStepsKeep,
       GetInterruptKeeps, NextCases
<1> QED
  BY <1>1, InitOK, PTL DEF Spec

(* The completion of a command stays visible until the driver has seen it, *)
(* whatever the two threads and the queue do in between.                   *)
THEOREM CompletionStaysVisible == Spec => []CompletionVisible
<1>1. IInv => CompletionVisible
  BY DEF IInv
<1> QED
  BY <1>1, Invariant, PTL

(* An event status the driver reads is that of its own read.               *)
THEOREM EventStatusIsFresh == Spec => []EventStatusFresh
<1>1. IInv => EventStatusFresh
  BY DEF IInv, EventFlow, EventStatusFresh
<1> QED
  BY <1>1, Invariant, PTL

-----------------------------------------------------------------------------
(* The buffer.                                                             *)

(* Nothing is counted outside a command that has yet to submit.            *)
Uncounted == at[Commander] # "submit" => dataSize = 0

BufferInv == TypeOK /\ Uncounted /\ NoValueLeft

(* The types in three groups.                                              *)
WindowTyped ==
  window \in [result : Results \cup {"none"}, size : 0..MaxDataSize,
              data : Strings(MaxDataSize), keyStatus : Statuses,
              eventStatus : Statuses]

BufferTyped ==
  /\ currentResult \in Results
  /\ dataBuffer \in Strings(MaxDataSize) /\ dataSize \in 0..MaxDataSize

StoreTyped == DOMAIN store = Keys /\ \A k \in Keys : store[k] \in Strings(SizeOf[k])

ThreadsTyped ==
  /\ currentStatus \in Statuses /\ currentEventStatus \in Statuses
  /\ DOMAIN at = {Commander, Driver}
  /\ at[Commander] \in {"idle", "submit", "status", "post", "return", "clear",
                        "take"}
  /\ at[Driver] \in {"idle", "get", "clear", "publish", "reset", "take"}
  /\ code \in Codes \cup {NoEvent}
  /\ undelivered \in BOOLEAN

(* The types are those of the three groups.                                 *)
LEMMA TypeParts ==
  /\ TypeOK <=> WindowTyped /\ BufferTyped /\ StoreTyped /\ ThreadsTyped
  /\ TypeOK' <=> WindowTyped' /\ BufferTyped' /\ StoreTyped' /\ ThreadsTyped'
BY DEF TypeOK, WindowTyped, BufferTyped, StoreTyped, ThreadsTyped

(* A string of n bytes is a sequence of length n.                          *)
LEMMA StringIsSequence ==
  ASSUME NEW n \in Nat, NEW s \in Strings(n)
  PROVE  s \in Seq(Bytes) /\ Len(s) = n
BY DEF Strings

(* Copying bytes to the front of a buffer that takes them.                 *)
LEMMA FilledTyped ==
  ASSUME NEW buffer \in Strings(MaxDataSize), NEW n \in 0..MaxDataSize,
         NEW bytes \in Strings(n)
  PROVE  /\ Filled(buffer, bytes) \in Strings(MaxDataSize)
         /\ \A i \in 1..MaxDataSize :
              Filled(buffer, bytes)[i] = IF i <= n THEN bytes[i] ELSE buffer[i]
<1>1. n \in Nat /\ Len(bytes) = n /\ \A i \in 1..n : bytes[i] \in Bytes
  BY StringIsSequence, KeyAccessAssumption DEF Strings
<1> QED
  BY <1>1, KeyAccessAssumption DEF Filled, Strings

(* What Prepare leaves: the answer is counted, the rest of the buffer is   *)
(* as it was.                                                              *)
LEMMA PrepareKeeps ==
  ASSUME BufferTyped, NoValueLeft, dataSize = 0,
         NEW answer, NEW n \in 0..MaxDataSize, answer.result \in Results,
         answer.result = "Success" => answer.bytes \in Strings(n),
         Prepare(answer)
  PROVE  BufferTyped' /\ NoValueLeft'
<1>1. CASE answer.result = "Success"
  <2>1. /\ dataBuffer' = Filled(dataBuffer, answer.bytes)
        /\ dataSize' = Len(answer.bytes) /\ currentResult' = answer.result
    BY <1>1 DEF Prepare, Counted
  <2>2. n \in Nat /\ Len(answer.bytes) = n
    BY <1>1, StringIsSequence, KeyAccessAssumption
  <2>3. /\ dataBuffer' \in Strings(MaxDataSize)
        /\ \A i \in 1..MaxDataSize : i > n => dataBuffer'[i] = dataBuffer[i]
    BY <1>1, <2>1, <2>2, FilledTyped DEF BufferTyped
  <2> QED
    BY <2>1, <2>2, <2>3 DEF BufferTyped, NoValueLeft
<1>2. CASE answer.result # "Success"
  BY <1>2 DEF Prepare, BufferTyped, NoValueLeft
<1> QED
  BY <1>1, <1>2

(* A command prepares an answer in an empty buffer.                         *)
LEMMA HandleWriteKeeps ==
  ASSUME BufferInv, HandleWrite PROVE BufferInv'
<1>1. /\ at[Commander] = "idle" /\ at' = [at EXCEPT ![Commander] = "submit"]
      /\ UNCHANGED <<currentStatus, currentEventStatus, code, undelivered>>
  BY DEF HandleWrite, Goto
<1>2. ThreadsTyped' /\ Uncounted'
  BY <1>1, Distinct, TypeParts DEF BufferInv, ThreadsTyped, Uncounted
<1>3. dataSize = 0 /\ WindowTyped /\ BufferTyped /\ StoreTyped /\ NoValueLeft
  BY <1>1, TypeParts DEF BufferInv, Uncounted
<1>4. ASSUME WindowTyped', BufferTyped', StoreTyped', NoValueLeft' PROVE BufferInv'
  BY <1>2, <1>4, TypeParts DEF BufferInv
<1>5. ASSUME NEW k \in Strings(KeyLen), ReadValue(k) PROVE BufferInv'
  <2> DEFINE answer == ReadKey(store, k)
             n == IF k \in Keys THEN SizeOf[k] ELSE 0
  <2>1. /\ answer.result \in Results /\ n \in 0..MaxDataSize
        /\ answer.result = "Success" => answer.bytes \in Strings(n)
    BY <1>3, KeyAccessAssumption DEF ReadKey, StoreTyped, Results
  <2>2. Prepare(answer)
    BY <1>5 DEF ReadValue
  <2> HIDE DEF answer, n
  <2>3. BufferTyped' /\ NoValueLeft'
    BY <1>3, <2>1, <2>2, PrepareKeeps
  <2> QED
    BY <1>3, <1>4, <2>2, <2>3 DEF Prepare, WindowTyped, StoreTyped
<1>6. ASSUME NEW i \in Strings(IndexLen), GetKeyFromIndex(i) PROVE BufferInv'
  <2> DEFINE answer == NameByIndex(i)
  <2>1. /\ answer.result \in Results /\ KeyLen \in 0..MaxDataSize
        /\ answer.result = "Success" => answer.bytes \in Strings(KeyLen)
    BY KeyAccessAssumption DEF NameByIndex, Results
  <2>2. Prepare(answer)
    BY <1>6 DEF GetKeyFromIndex
  <2> HIDE DEF answer
  <2>3. BufferTyped' /\ NoValueLeft'
    BY <1>3, <2>1, <2>2, PrepareKeeps
  <2> QED
    BY <1>3, <1>4, <2>2, <2>3 DEF Prepare, WindowTyped, StoreTyped
<1>7. ASSUME NEW k \in Strings(KeyLen), GetKeyInfo(k) PROVE BufferInv'
  <2>1. UNCHANGED <<window, dataSize, store>> /\ currentResult' \in Results
    BY <1>7 DEF GetKeyInfo, InfoByName, Results
  <2>2. CASE k \in Keys
    <3>1. InfoOf[k] \in Strings(InfoLen) /\ InfoLen \in 0..MaxDataSize
      BY <2>2, KeyAccessAssumption
    <3>2. dataBuffer' = Filled(dataBuffer, InfoOf[k])
      BY <1>7, <2>2 DEF GetKeyInfo
    <3>3. /\ dataBuffer' \in Strings(MaxDataSize)
          /\ \A i \in 1..MaxDataSize :
               dataBuffer'[i] = IF i <= InfoLen THEN InfoOf[k][i] ELSE dataBuffer[i]
      BY <1>3, <3>1, <3>2, FilledTyped DEF BufferTyped
    <3>4. NoValueLeft'
      BY <1>3, <2>1, <2>2, <3>3 DEF NoValueLeft
    <3> QED
      BY <1>3, <1>4, <2>1, <3>3, <3>4 DEF WindowTyped, StoreTyped, BufferTyped
  <2>3. CASE k \notin Keys
    <3>1. dataBuffer' = dataBuffer
      BY <1>7, <2>3 DEF GetKeyInfo
    <3> QED
      BY <1>3, <1>4, <2>1, <3>1 DEF WindowTyped, StoreTyped, BufferTyped, NoValueLeft
  <2> QED
    BY <2>2, <2>3
<1>8. ASSUME NEW k \in Strings(KeyLen), NEW n \in 0..MaxDataSize,
             NEW bytes \in Strings(n), WriteValue(k, bytes)
      PROVE  BufferInv'
  <2> DEFINE area == Filled(window.data, bytes)
  <2>1. area \in Strings(MaxDataSize)
    BY <1>3, FilledTyped DEF WindowTyped
  <2>2. PICK r \in WriteResults(k) :
          currentResult' = r /\ store' = WriteKey(store, k, area, r)
    BY <1>8 DEF WriteValue
  <2>3. window' = [window EXCEPT !.data = area] /\ UNCHANGED <<dataBuffer, dataSize>>
    BY <1>8 DEF WriteValue
  <2> HIDE DEF area
  <2>4. r \in Results
    BY DEF WriteResults, Results
  <2>5. WindowTyped'
    BY <1>3, <2>1, <2>3 DEF WindowTyped
  <2>6. StoreTyped'
    <3>1. CASE r = "Success" /\ k \in Writable \ Special
      <4>1. k \in Keys /\ SizeOf[k] \in 0..MaxDataSize
        BY <3>1, KeyAccessAssumption
      <4>2. [i \in 1..SizeOf[k] |-> area[i]] \in Strings(SizeOf[k])
        BY <2>1, <4>1, KeyAccessAssumption DEF Strings
      <4>3. store' = [store EXCEPT ![k] = [i \in 1..SizeOf[k] |-> area[i]]]
        BY <2>2, <3>1 DEF WriteKey
      <4> QED
        BY <1>3, <4>1, <4>2, <4>3 DEF StoreTyped
    <3>2. CASE ~(r = "Success" /\ k \in Writable \ Special)
      BY <1>3, <2>2, <3>2 DEF StoreTyped, WriteKey
    <3> QED
      BY <3>1, <3>2
  <2> QED
    BY <1>3, <1>4, <2>2, <2>3, <2>4, <2>5, <2>6 DEF BufferTyped, NoValueLeft
<1>9. ASSUME NEW r \in {"BadCommand", "KeySizeMismatch"}, Refuse(r) PROVE BufferInv'
  BY <1>3, <1>4, <1>9
     DEF Refuse, WindowTyped, BufferTyped, StoreTyped, NoValueLeft, Results
<1> QED
  BY <1>5, <1>6, <1>7, <1>8, <1>9 DEF HandleWrite

(* submitData erases what was counted.                                      *)
LEMMA SubmitDataKeeps ==
  ASSUME BufferInv, SubmitData PROVE BufferInv'
<1>1. WindowTyped /\ BufferTyped /\ StoreTyped /\ ThreadsTyped /\ NoValueLeft
  BY TypeParts DEF BufferInv
<1>2. /\ at[Commander] = "submit" /\ at' = [at EXCEPT ![Commander] = "status"]
      /\ window' = [window EXCEPT !.result = currentResult, !.size = dataSize,
                                  !.data = dataBuffer]
      /\ dataBuffer' = Erased(dataBuffer, dataSize) /\ dataSize' = 0
      /\ UNCHANGED <<currentResult, currentStatus, currentEventStatus, store, code,
                     undelivered>>
  BY DEF SubmitData, Goto
<1>3. /\ dataBuffer' \in Strings(MaxDataSize)
      /\ \A i \in 1..MaxDataSize :
           dataBuffer'[i] = IF i <= dataSize THEN 0 ELSE dataBuffer[i]
  BY <1>1, <1>2, KeyAccessAssumption DEF Erased, BufferTyped, Strings
<1>4. WindowTyped'
  BY <1>1, <1>2 DEF WindowTyped, BufferTyped
<1>5. BufferTyped'
  BY <1>1, <1>2, <1>3, KeyAccessAssumption DEF BufferTyped
<1>6. StoreTyped' /\ ThreadsTyped' /\ Uncounted'
  BY <1>1, <1>2, Distinct DEF StoreTyped, ThreadsTyped, Uncounted
<1>7. NoValueLeft'
  BY <1>1, <1>2, <1>3, KeyAccessAssumption DEF NoValueLeft, BufferTyped
<1> QED
  BY <1>4, <1>5, <1>6, <1>7, TypeParts DEF BufferInv

(* The other steps leave the buffer and the store's sizes alone.           *)
LEMMA BufferUntouched ==
  ASSUME BufferInv, UNCHANGED <<dataBuffer, dataSize, currentResult>>,
         WindowTyped', StoreTyped', ThreadsTyped',
         \/ at[Commander] # "submit" /\ at'[Commander] # "submit"
         \/ at'[Commander] = at[Commander]
  PROVE  BufferInv'
<1>1. BufferTyped' /\ Uncounted' /\ NoValueLeft'
  BY TypeParts DEF BufferInv, BufferTyped, Uncounted, NoValueLeft
<1> QED
  BY <1>1, TypeParts DEF BufferInv

(* The other steps leave the buffer alone.                                  *)
LEMMA OtherStepsKeep ==
  ASSUME IInv, BufferInv, [Next]_vars PROVE HandleWrite \/ SubmitData \/ BufferInv'
<1>1. WindowTyped /\ BufferTyped /\ StoreTyped /\ ThreadsTyped
  BY TypeParts DEF BufferInv
<1> USE <1>1, Distinct, BufferUntouched DEF Goto
<1>2. ASSUME SetStatus \/ ClearStatus PROVE BufferInv'
  BY <1>2 DEF SetStatus, ClearStatus, WindowTyped, StoreTyped, ThreadsTyped, Statuses
<1>3. ASSUME PostDone \/ Return \/ TakeStatus PROVE BufferInv'
  BY <1>3 DEF PostDone, Return, TakeStatus, device, WindowTyped, StoreTyped,
     ThreadsTyped
<1>4. ASSUME ShowStatus PROVE BufferInv'
  BY <1>4 DEF ShowStatus, device, WindowTyped, StoreTyped, ThreadsTyped
<1>5. ASSUME ShowEventStatus PROVE BufferInv'
  BY <1>5 DEF ShowEventStatus, device, WindowTyped, StoreTyped, ThreadsTyped
<1>6. ASSUME EnterRead \/ TakeEvent PROVE BufferInv'
  BY <1>6 DEF EnterRead, TakeEvent, device, WindowTyped, StoreTyped, ThreadsTyped
<1>7. ASSUME ClearKeyStatus \/ ResetEventStatus PROVE BufferInv'
  BY <1>7 DEF ClearKeyStatus, ResetEventStatus, StatusAfterRead, WindowTyped,
     StoreTyped, ThreadsTyped, Statuses
<1>8. ASSUME GetInterrupt PROVE BufferInv'
  <2>1. code' \in Codes \cup {NoEvent}
    <3>1. CASE storedInterrupts = <<>>
      BY <1>8, <3>1 DEF GetInterrupt
    <3>2. CASE storedInterrupts # <<>>
      <4>1. Head(storedInterrupts) \in Events!Event
        BY <3>2 DEF IInv, QueueTyped
      <4> QED
        BY <1>8, <3>2, <4>1 DEF GetInterrupt, Events!Event
    <3> QED
      BY <3>1, <3>2
  <2> QED
    BY <1>8, <2>1 DEF GetInterrupt, WindowTyped, StoreTyped, ThreadsTyped, Statuses
<1>9. ASSUME QueueOnly \/ UNCHANGED vars PROVE BufferInv'
  BY <1>9 DEF QueueOnly, vars, device, WindowTyped, StoreTyped, ThreadsTyped
<1>10. ASSUME NEW k \in Keys, ValueChanges(k) PROVE BufferInv'
  <2>1. StoreTyped'
    BY <1>10, KeyAccessAssumption DEF ValueChanges, Refreshed, StoreTyped
  <2> QED
    BY <1>10, <2>1 DEF ValueChanges, WindowTyped, ThreadsTyped
<1> QED
  BY <1>2, <1>3, <1>4, <1>5, <1>6, <1>7, <1>8, <1>9, <1>10, NextCases

(* The buffer under every sequence of commands.                             *)
LEMMA BufferInvariant == Spec => []BufferInv
<1>1. Init => BufferInv
  <2> SUFFICES ASSUME Init PROVE BufferInv
    OBVIOUS
  <2>1. /\ Zeros(MaxDataSize) \in Strings(MaxDataSize)
        /\ \A i \in 1..MaxDataSize : Zeros(MaxDataSize)[i] = 0
        /\ 0 \in 0..MaxDataSize
    BY KeyAccessAssumption DEF Zeros, Strings
  <2>2. WindowTyped /\ BufferTyped
    BY <2>1 DEF Init, WindowTyped, BufferTyped, Statuses, Results
  <2>3. StoreTyped /\ ThreadsTyped
    BY KeyAccessAssumption, Distinct DEF Init, StoreTyped, ThreadsTyped, Statuses
  <2>4. Uncounted /\ NoValueLeft
    BY <2>1 DEF Init, Uncounted, NoValueLeft
  <2> QED
    BY <2>2, <2>3, <2>4, TypeParts DEF BufferInv
<1>2. IInv /\ BufferInv /\ [Next]_vars => BufferInv'
  BY HandleWriteKeeps, SubmitDataKeeps, OtherStepsKeep
<1> QED
  BY <1>1, <1>2, Invariant, PTL DEF Spec

(* Type correctness of SmcMmio.                                            *)
THEOREM TypeCorrect == Spec => []TypeOK
<1>1. BufferInv => TypeOK
  BY DEF BufferInv
<1> QED
  BY <1>1, BufferInvariant, PTL

(* No byte of a value survives in the buffer into a later reply, whatever  *)
(* the order of commands and their outcomes (handleWrite, submitData).     *)
THEOREM NoValueSurvives == Spec => []NoValueLeft
<1>1. BufferInv => NoValueLeft
  BY DEF BufferInv
<1> QED
  BY <1>1, BufferInvariant, PTL
=============================================================================
