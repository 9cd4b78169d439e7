------------------------------- MODULE SmcPmio -------------------------------
(***************************************************************************)
(* The port protocol of the emulated SMC (kern_pmio.cpp): a command port,  *)
(* a data port, a status and a result register, one byte at a time.  The   *)
(* driver may touch any port at any time; every port access is one action. *)
(*                                                                         *)
(* The status register is the set of its flags.  The buffer is written and *)
(* read from index 1 (from 0 in the code).                                 *)
(***************************************************************************)
EXTENDS SmcKeyAccess

VARIABLES
  currentCommand, currentStatus, currentResult, currentKey, currentKeyIndex,
  currentSize, dataBuffer, dataIndex, dataSize,
  store,      \* the values in the key store
  panicked    \* an unreachable PANIC was reached

vars == <<currentCommand, currentStatus, currentResult, currentKey,
          currentKeyIndex, currentSize, dataBuffer, dataIndex, dataSize, store,
          panicked>>

Commands == {"ReadValue", "WriteValue", "GetKeyFromIndex", "GetKeyInfo", "Reset"}

Flags == {"READY", "BUSY", "GOT_COMMAND", "AWAITING_DATA", "KEY_DONE"}

Init ==
  /\ currentCommand = "none" /\ currentStatus = {"READY"}
  /\ currentResult = "Success"
  /\ currentKey = Zeros(KeyLen) /\ currentKeyIndex = Zeros(IndexLen)
  /\ currentSize = 0
  /\ dataBuffer = Zeros(MaxDataSize) /\ dataIndex = 0 /\ dataSize = 0
  /\ store = Initial
  /\ panicked = FALSE

-----------------------------------------------------------------------------
(* The buffer.                                                             *)

(* The buffer after bzero of its first n bytes.                            *)
ErasedMutant(buffer, n) == buffer

Erased(buffer, n) ==
  [i \in 1..MaxDataSize |-> IF i <= n THEN 0 ELSE buffer[i]]

(* resetBuffer, of a buffer with n bytes in use.                           *)
ResetBuffer(buffer, n) ==
  /\ dataBuffer' = Erased(buffer, n)
  /\ dataIndex' = 0 /\ dataSize' = 0

(* The load methods: resetBuffer, then the answer's bytes are copied in    *)
(* and counted.  A refusal is counted as the driver announced it, which    *)
(* may be more than the buffer holds: only as much as fits is cleared.     *)
LoadBuffer(buffer, n, answer) ==
  /\ dataBuffer' = [i \in 1..MaxDataSize |->
                      IF i <= Len(answer.bytes) THEN answer.bytes[i]
                      ELSE Erased(buffer, n)[i]]
  /\ dataIndex' = 0 /\ dataSize' = Len(answer.bytes)
  /\ currentResult' = answer.result

(* loadValueInBuffer: the size the driver announced must be the value's.   *)
ValueAnswer(k, n) ==
  LET r == ReadKey(store, k)
  IN IF r.result # "Success" THEN [result |-> r.result, bytes |-> Refusal(n)]
     ELSE IF Len(r.bytes) # n
       THEN [result |-> "KeySizeMismatch", bytes |-> Refusal(n)]
     ELSE r

-----------------------------------------------------------------------------
(* writeCommand: resetDevice, then the command is registered or refused.   *)

ResetDeviceMutant(status, command, result) ==
  /\ currentCommand' = command /\ currentStatus' = status
  /\ currentResult' = result
  /\ currentKey' = Zeros(KeyLen) /\ currentKeyIndex' = Zeros(IndexLen)
  /\ UNCHANGED currentSize
  /\ ResetBuffer(dataBuffer, dataSize)

ResetDevice(status, command, result) ==
  /\ currentCommand' = command /\ currentStatus' = status
  /\ currentResult' = result
  /\ currentKey' = Zeros(KeyLen) /\ currentKeyIndex' = Zeros(IndexLen)
  /\ currentSize' = 0
  /\ ResetBuffer(dataBuffer, dataSize)

(* A status of KEY_DONE alone counts as ready (a fixup).                   *)
WriteCommand(c) ==
  /\ IF currentStatus \notin {{"READY"}, {"KEY_DONE"}}
       THEN ResetDevice({"READY"}, "none", "CommCollision")
     ELSE IF c \notin Commands
       THEN ResetDevice({"READY"}, "none", "BadCommand")
     ELSE ResetDevice({"READY", "BUSY", "GOT_COMMAND"}, c, "Success")
  /\ UNCHANGED <<store, panicked>>

-----------------------------------------------------------------------------
(* writeData.                                                              *)

(* Any access to the data port removes this flag.                          *)
Touched == currentStatus \ {"GOT_COMMAND"}

BufferFullMutant == dataSize > MaxDataSize

BufferFull == dataSize >= MaxDataSize

(* The status in which argument bytes are accepted.                        *)
CollectingMutant == "READY" \in Touched

Collecting == Touched = {"READY", "BUSY"}

(* An unexpected byte: it only changes the result.                         *)
WriteUnexpected ==
  /\ BufferFull \/ ~Collecting
  /\ currentStatus' = Touched
  /\ currentResult' = IF BufferFull THEN "SpuriousData" ELSE "CommCollision"
  /\ UNCHANGED <<currentCommand, currentKey, currentKeyIndex, currentSize,
                 dataBuffer, dataIndex, dataSize, store, panicked>>

HeaderLen == KeyLen + 1

KeyIn(buffer) == [i \in 1..KeyLen |-> buffer[i]]

IndexIn(buffer) == [i \in 1..IndexLen |-> buffer[i]]

(* The byte is kept and the command waits for more of them.                *)
Keep(buffer, size) ==
  /\ dataBuffer' = buffer /\ dataSize' = size /\ dataIndex' = dataIndex + 1
  /\ currentStatus' = Touched
  /\ UNCHANGED <<currentResult, currentKey, currentKeyIndex, currentSize, store>>

(* The arguments are complete and the reply is loaded over them.           *)
Reply(buffer, size, answer) ==
  /\ currentStatus' = Touched \cup {"AWAITING_DATA"}
  /\ LoadBuffer(buffer, size, answer)
  /\ UNCHANGED store

ReadValue(buffer, size) ==
  IF size = HeaderLen
    THEN /\ currentKey' = KeyIn(buffer)
         /\ currentSize' = buffer[HeaderLen]
         /\ Reply(buffer, size, ValueAnswer(KeyIn(buffer), buffer[HeaderLen]))
         /\ UNCHANGED currentKeyIndex
    ELSE Keep(buffer, size)

(* The bytes after the header are counted against the announced size; a    *)
(* size of zero leaves the next bytes to be taken for another header.      *)
WriteValue(buffer, size) ==
  IF currentSize = size
    THEN /\ currentStatus' = {"READY"}
         /\ \E r \in WriteResults(currentKey) :
              /\ currentResult' = r
              /\ store' = WriteKey(store, currentKey, buffer, r)
         /\ ResetBuffer(buffer, size)
         /\ UNCHANGED <<currentKey, currentKeyIndex, currentSize>>
  ELSE IF currentSize = 0 /\ size = HeaderLen
    THEN /\ currentKey' = KeyIn(buffer)
         /\ currentSize' = buffer[HeaderLen]
         /\ ResetBuffer(buffer, size)
         /\ currentStatus' = Touched
         /\ UNCHANGED <<currentKeyIndex, currentResult, store>>
  ELSE Keep(buffer, size)

GetKeyFromIndex(buffer, size) ==
  IF size = IndexLen
    THEN /\ currentKeyIndex' = IndexIn(buffer)
         /\ Reply(buffer, size, NameByIndex(IndexIn(buffer)))
         /\ UNCHANGED <<currentKey, currentSize>>
    ELSE Keep(buffer, size)

GetKeyInfo(buffer, size) ==
  IF size = KeyLen
    THEN /\ currentKey' = KeyIn(buffer)
         /\ Reply(buffer, size, InfoByName(KeyIn(buffer)))
         /\ UNCHANGED <<currentKeyIndex, currentSize>>
    ELSE Keep(buffer, size)

(* The one byte of a reset, sizeof(SMC_RESET_MODE), completes it.          *)
Reset(buffer, size) ==
  /\ dataBuffer' = buffer /\ dataSize' = size /\ dataIndex' = dataIndex + 1
  /\ currentStatus' = IF size = 1 THEN {"READY"} ELSE Touched
  /\ currentResult' = IF size = 1 THEN "Success" ELSE currentResult
  /\ UNCHANGED <<currentKey, currentKeyIndex, currentSize, store>>

WriteExpected(v) ==
  LET buffer == [dataBuffer EXCEPT ![dataIndex + 1] = v]
      size   == dataSize + 1
  IN /\ ~BufferFull
     /\ Collecting
     /\ CASE currentCommand = "ReadValue"       -> ReadValue(buffer, size)
          [] currentCommand = "WriteValue"      -> WriteValue(buffer, size)
          [] currentCommand = "GetKeyFromIndex" -> GetKeyFromIndex(buffer, size)
          [] currentCommand = "GetKeyInfo"      -> GetKeyInfo(buffer, size)
          [] currentCommand = "Reset"           -> Reset(buffer, size)
          [] OTHER                              -> Keep(buffer, size)
     /\ panicked' = IF currentCommand \in Commands THEN panicked ELSE TRUE
     /\ UNCHANGED currentCommand

WriteData(v) == WriteUnexpected \/ WriteExpected(v)

-----------------------------------------------------------------------------
(* readData.                                                               *)

ReadSpurious ==
  /\ dataIndex >= dataSize
  /\ currentStatus' = Touched
  /\ currentResult' = "SpuriousData"
  /\ UNCHANGED <<currentCommand, currentKey, currentKeyIndex, currentSize,
                 dataBuffer, dataIndex, dataSize, store, panicked>>

Replying == Touched = {"READY", "BUSY", "AWAITING_DATA"}

Queries == {"ReadValue", "GetKeyFromIndex", "GetKeyInfo"}

LastByteMutant == dataIndex = dataSize

LastByte == dataIndex + 1 = dataSize

(* A byte is consumed before the status is looked at; outside a reply it   *)
(* is lost and the driver is told.                                         *)
ReadByte ==
  /\ dataIndex < dataSize
  /\ dataIndex' = dataIndex + 1
  /\ IF ~Replying
       THEN /\ currentStatus' = Touched
            /\ currentResult' = "CommCollision"
            /\ UNCHANGED panicked
       ELSE /\ currentStatus' = IF currentCommand \in Queries /\ LastByte
                                  THEN {"READY"} ELSE Touched
            /\ panicked' = IF currentCommand \in Queries THEN panicked ELSE TRUE
            /\ UNCHANGED currentResult
  /\ UNCHANGED <<currentCommand, currentKey, currentKeyIndex, currentSize,
                 dataBuffer, dataSize, store>>

ReadData == ReadSpurious \/ ReadByte

-----------------------------------------------------------------------------
(* A value is refreshed by the code behind its key between two accesses.   *)
ValueChanges(k) ==
  /\ \E v \in Readings[k] : store' = Refreshed(store, k, v)
  /\ UNCHANGED <<currentCommand, currentStatus, currentResult, currentKey,
                 currentKeyIndex, currentSize, dataBuffer, dataIndex, dataSize,
                 panicked>>

Next ==
  \/ \E c \in Commands \cup {"unsupported"} : WriteCommand(c)
  \/ \E v \in Bytes : WriteData(v)
  \/ ReadData
  \/ \E k \in Keys : ValueChanges(k)

Spec == Init /\ [][Next]_vars

-----------------------------------------------------------------------------
Results == {"Success", "CommCollision", "SpuriousData", "BadCommand",
            "BadParameter", "NotFound", "NotReadable", "NotWritable",
            "KeySizeMismatch"}

(* A refused read that announced more bytes than the buffer holds.         *)
Oversized == currentCommand = "ReadValue" /\ currentSize = dataSize

(* Type correctness; a byte is never stored beyond the end of the buffer,  *)
(* the bytes counted pass it only after a refused read that announced too  *)
(* many (readData and resetBuffer do go beyond it then), and every value   *)
(* in the store keeps the size of its key.                                 *)
TypeOK ==
  /\ currentCommand \in Commands \cup {"none"}
  /\ currentStatus \subseteq Flags
  /\ currentResult \in Results
  /\ currentKey \in Strings(KeyLen) /\ currentKeyIndex \in Strings(IndexLen)
  /\ currentSize \in Bytes
  /\ dataBuffer \in Strings(MaxDataSize)
  /\ dataSize \in Nat /\ dataIndex \in 0..dataSize
  /\ dataSize > MaxDataSize => Oversized
  /\ DOMAIN store = Keys /\ \A k \in Keys : store[k] \in Strings(SizeOf[k])
  /\ panicked \in BOOLEAN

(* The two switches over the command in progress never reach the default   *)
(* that writes "This should not be reachable" (kern_pmio.cpp:155, 224),    *)
(* whatever the order of port accesses.                                    *)
NotPanicked == ~panicked

(* Beyond the bytes in use the buffer holds zeros, whatever was written,   *)
(* read, refused or abandoned before: a short write is padded with zeros   *)
(* and never with bytes of an earlier key.                                 *)
NoStaleBytes ==
  \A i \in 1..MaxDataSize : i > dataSize => dataBuffer[i] = 0

InReply == "AWAITING_DATA" \in currentStatus

InCollect == "BUSY" \in currentStatus /\ ~InReply

(* How many bytes in the buffer complete the next stage of the command.    *)
Needed ==
  CASE currentCommand = "ReadValue"       -> HeaderLen
    [] currentCommand = "WriteValue"      -> IF currentSize = 0 THEN HeaderLen
                                             ELSE currentSize
    [] currentCommand = "GetKeyFromIndex" -> IndexLen
    [] currentCommand = "GetKeyInfo"      -> KeyLen
    [] OTHER                              -> 1

(* Status, command and buffer agree: the status register only shows the    *)
(* four values a driver polls for, arguments are collected only for a      *)
(* command that still needs some, in the order they come, and a reply      *)
(* belongs to a query and is not used up.                                  *)
PhaseConsistent ==
  /\ currentStatus \in {{"READY"}, {"READY", "BUSY", "GOT_COMMAND"},
                        {"READY", "BUSY"}, {"READY", "BUSY", "AWAITING_DATA"}}
  /\ InCollect =>
       /\ currentCommand \in Commands
       /\ dataIndex = dataSize /\ dataSize < Needed
       /\ currentSize # 0 => currentCommand = "WriteValue"
  /\ InReply =>
       /\ currentCommand \in Queries
       /\ dataSize # 0 => dataIndex < dataSize

(* What the device remembers of the arguments so far, and what is left of  *)
(* the reply.                                                              *)
Header ==
  IF currentSize # 0 THEN Append(currentKey, currentSize) ELSE <<>>

Pending == IF InCollect THEN currentCommand ELSE "none"

Arguments ==
  IF InCollect THEN Header \o SubSeq(dataBuffer, 1, dataSize) ELSE <<>>

(* The buffer and what lies behind it.                                     *)
Memory ==
  [i \in 1..MaxDataSize + dataSize |->
     IF i <= MaxDataSize THEN dataBuffer[i] ELSE Beyond]

Unread ==
  IF InReply THEN SubSeq(Memory, dataIndex + 1, dataSize) ELSE <<>>

(* The port protocol implements transactions: the arguments are what the   *)
(* driver wrote since the command, the effect on the store happens once,   *)
(* at their last byte, and the reply is the answer fixed at that moment,   *)
(* fetched in order, however the values change meanwhile.  The reply to a  *)
(* read that announced more than the buffer holds is a refusal, and runs   *)
(* on into the memory behind the buffer (kern_pmio.cpp:47).                *)
Transaction == INSTANCE SmcTransaction WITH
  command <- Pending,
  args    <- Arguments,
  reply   <- Unread,
  busy    <- "BUSY" \in currentStatus,
  result  <- currentResult

TransactionSpec == Transaction!Spec
=============================================================================
