---------------------------- MODULE SmcPmio_proofs ----------------------------
(***************************************************************************)
(* Proofs about SmcPmio for every key store, every buffer size and every   *)
(* set of bytes.                                                           *)
(***************************************************************************)
EXTENDS SmcPmio, SequenceTheorems, TLAPS

(* A string of n bytes is a sequence of length n.                          *)
LEMMA StringIsSequence ==
  ASSUME NEW n \in Nat, NEW s \in Strings(n)
  PROVE  s \in Seq(Bytes) /\ Len(s) = n
BY DEF Strings

LEMMA ZerosAreBytes ==
  ASSUME NEW n \in Nat
  PROVE  Zeros(n) \in Strings(n)
BY KeyAccessAssumption DEF Zeros, Strings

(* What an answer looks like: bytes as far as the buffer goes, and what    *)
(* lies behind the buffer after them.                                      *)
Answer(a) ==
  /\ a.result \in Results
  /\ Len(a.bytes) \in Nat
  /\ a.bytes = [i \in 1..Len(a.bytes) |-> a.bytes[i]]
  /\ \A i \in 1..Len(a.bytes) : IF i <= MaxDataSize THEN a.bytes[i] \in Bytes
                                                   ELSE a.bytes[i] = Beyond

(* Most answers fit the buffer.                                            *)
LEMMA StringIsAnswer ==
  ASSUME NEW n \in 0..MaxDataSize, NEW a,
         a.result \in Results, a.bytes \in Strings(n)
  PROVE  Answer(a) /\ Len(a.bytes) = n
<1>1. Len(a.bytes) = n /\ n \in Nat
  BY StringIsSequence, KeyAccessAssumption
<1>2. \A i \in 1..n : i <= MaxDataSize /\ a.bytes[i] \in Bytes
  BY KeyAccessAssumption DEF Strings
<1>3. a.bytes = [i \in 1..n |-> a.bytes[i]]
  BY DEF Strings
<1> QED
  BY <1>1, <1>2, <1>3 DEF Answer

(* A refusal is as long as the read announced.                             *)
LEMMA RefusalIs ==
  ASSUME NEW n \in Nat
  PROVE  /\ Len(Refusal(n)) = n
         /\ Refusal(n) = [i \in 1..n |-> Refusal(n)[i]]
         /\ \A i \in 1..n : IF i <= MaxDataSize THEN Refusal(n)[i] \in Bytes
                                               ELSE Refusal(n)[i] = Beyond
BY KeyAccessAssumption DEF Refusal

LEMMA NameIsAnswer ==
  ASSUME NEW i
  PROVE  Answer(NameByIndex(i)) /\ ~(Len(NameByIndex(i).bytes) > MaxDataSize)
<1>1. NameByIndex(i).bytes \in Strings(KeyLen)
  BY ZerosAreBytes, KeyAccessAssumption DEF NameByIndex
<1>2. NameByIndex(i).result \in Results
  BY DEF NameByIndex, Results
<1>3. KeyLen \in 0..MaxDataSize
  BY KeyAccessAssumption
<1> QED
  BY <1>1, <1>2, <1>3, StringIsAnswer, KeyAccessAssumption

LEMMA InfoIsAnswer ==
  ASSUME NEW k
  PROVE  Answer(InfoByName(k)) /\ ~(Len(InfoByName(k).bytes) > MaxDataSize)
<1>1. InfoByName(k).bytes \in Strings(InfoLen)
  BY ZerosAreBytes, KeyAccessAssumption DEF InfoByName
<1>2. InfoByName(k).result \in Results
  BY DEF InfoByName, Results
<1>3. InfoLen \in 0..MaxDataSize
  BY KeyAccessAssumption
<1> QED
  BY <1>1, <1>2, <1>3, StringIsAnswer, KeyAccessAssumption

(* A read is answered with as many bytes as it announced.                  *)
LEMMA ValueIsAnswer ==
  ASSUME TypeOK, NEW k, NEW n \in Nat
  PROVE  Answer(ValueAnswer(k, n)) /\ Len(ValueAnswer(k, n).bytes) = n
<1>1. ASSUME ReadKey(store, k).result = "Success", Len(ReadKey(store, k).bytes) = n
      PROVE  Answer(ReadKey(store, k))
  <2>1. k \in Keys /\ ReadKey(store, k) = [result |-> "Success", bytes |-> store[k]]
    BY <1>1 DEF ReadKey
  <2>2. store[k] \in Strings(SizeOf[k]) /\ SizeOf[k] \in 0..MaxDataSize
    BY <2>1, KeyAccessAssumption DEF TypeOK
  <2>3. "Success" \in Results
    BY DEF Results
  <2> QED
    BY <2>1, <2>2, <2>3, StringIsAnswer
<1>2. ReadKey(store, k).result \in {"Success", "NotFound", "NotReadable"}
  BY DEF ReadKey
<1>3. ASSUME NEW r \in Results
      PROVE  LET a == [result |-> r, bytes |-> Refusal(n)]
             IN Answer(a) /\ Len(a.bytes) = n
  BY RefusalIs DEF Answer
<1>4. CASE ReadKey(store, k).result = "Success"
  <2>1. "KeySizeMismatch" \in Results
    BY DEF Results
  <2> QED
    BY <1>1, <1>3, <1>4, <2>1 DEF ValueAnswer
<1>5. CASE ReadKey(store, k).result # "Success"
  <2>1. ReadKey(store, k).result \in Results
    BY <1>2 DEF Results
  <2> QED
    BY <1>3, <1>5, <2>1 DEF ValueAnswer
<1> QED
  BY <1>4, <1>5

(* Every byte after the first n is zero.                                   *)
ZeroBeyond(buffer, n) == \A i \in 1..MaxDataSize : i > n => buffer[i] = 0

(* A device whose buffer is well formed.                                   *)
BufferOK ==
  /\ dataBuffer \in Strings(MaxDataSize)
  /\ dataSize \in Nat /\ dataIndex \in 0..dataSize
  /\ dataSize > MaxDataSize => Oversized
  /\ ZeroBeyond(dataBuffer, dataSize)

LEMMA ResetBufferClears ==
  ASSUME NEW buffer \in Strings(MaxDataSize), NEW n \in Nat,
         ZeroBeyond(buffer, n), ResetBuffer(buffer, n)
  PROVE  BufferOK' /\ dataBuffer' = Zeros(MaxDataSize)
                   /\ dataIndex' = 0 /\ dataSize' = 0
<1>1. dataBuffer' = Zeros(MaxDataSize)
  BY KeyAccessAssumption DEF ResetBuffer, Erased, Zeros, ZeroBeyond
<1>2. Zeros(MaxDataSize) \in Strings(MaxDataSize)
      /\ ZeroBeyond(Zeros(MaxDataSize), 0)
  BY KeyAccessAssumption, ZerosAreBytes DEF Zeros, ZeroBeyond
<1>3. dataIndex' = 0 /\ dataSize' = 0
  BY DEF ResetBuffer
<1> QED
  BY <1>1, <1>2, <1>3, KeyAccessAssumption DEF BufferOK

LEMMA LoadBufferFills ==
  ASSUME NEW buffer \in Strings(MaxDataSize), NEW n \in 0..MaxDataSize,
         ZeroBeyond(buffer, n), NEW a, Answer(a), LoadBuffer(buffer, n, a),
         Len(a.bytes) > MaxDataSize => Oversized'
  PROVE  /\ BufferOK'
         /\ dataBuffer' = [i \in 1..MaxDataSize |->
                             IF i <= Len(a.bytes) THEN a.bytes[i] ELSE 0]
         /\ dataIndex' = 0 /\ dataSize' = Len(a.bytes)
         /\ currentResult' = a.result /\ currentResult' \in Results
<1> DEFINE m == Len(a.bytes)
           filled == [i \in 1..MaxDataSize |-> IF i <= m THEN a.bytes[i] ELSE 0]
<1>1. /\ m \in Nat /\ a.result \in Results
      /\ \A i \in 1..m : i <= MaxDataSize => a.bytes[i] \in Bytes
  BY DEF Answer
<1>2. \A i \in 1..MaxDataSize : Erased(buffer, n)[i] = 0
  BY DEF Erased, ZeroBeyond
<1>3. dataBuffer' = filled
  BY <1>2 DEF LoadBuffer
<1>4. filled \in Strings(MaxDataSize)
  BY <1>1, KeyAccessAssumption DEF Strings
<1>5. ZeroBeyond(filled, m)
  BY <1>1 DEF ZeroBeyond
<1>6. dataIndex' = 0 /\ dataSize' = m /\ currentResult' = a.result
  BY DEF LoadBuffer
<1>7. BufferOK'
  BY <1>1, <1>3, <1>4, <1>5, <1>6, KeyAccessAssumption DEF BufferOK
<1> QED
  BY <1>1, <1>3, <1>6, <1>7

(* A byte stored at the end of the bytes in use.                           *)
LEMMA StoredByte ==
  ASSUME BufferOK, dataIndex = dataSize, dataSize < MaxDataSize,
         NEW v \in Bytes
  PROVE  LET buffer == [dataBuffer EXCEPT ![dataIndex + 1] = v]
         IN /\ buffer \in Strings(MaxDataSize)
            /\ ZeroBeyond(buffer, dataSize + 1)
            /\ buffer[dataSize + 1] = v
            /\ dataSize + 1 \in 1..MaxDataSize
BY KeyAccessAssumption DEF BufferOK, Strings, ZeroBeyond

LEMMA HeaderTypes ==
  ASSUME NEW buffer \in Strings(MaxDataSize)
  PROVE  /\ KeyIn(buffer) \in Strings(KeyLen)
         /\ IndexIn(buffer) \in Strings(IndexLen)
         /\ buffer[HeaderLen] \in Bytes
BY KeyAccessAssumption DEF KeyIn, IndexIn, HeaderLen, Strings

(* What the proofs carry from state to state.                              *)
IInv == TypeOK /\ NotPanicked /\ NoStaleBytes /\ PhaseConsistent

LEMMA InitOK == Init => IInv
<1> SUFFICES ASSUME Init PROVE IInv
  OBVIOUS
<1>1. /\ Zeros(KeyLen) \in Strings(KeyLen)
      /\ Zeros(IndexLen) \in Strings(IndexLen)
      /\ Zeros(MaxDataSize) \in Strings(MaxDataSize)
  BY ZerosAreBytes, KeyAccessAssumption
<1>2. TypeOK
  <2>1. DOMAIN store = Keys /\ \A k \in Keys : store[k] \in Strings(SizeOf[k])
    BY KeyAccessAssumption DEF Init
  <2>2. currentStatus \subseteq Flags /\ currentResult \in Results
    BY DEF Init, Flags, Results
  <2>3. /\ dataSize \in Nat /\ dataIndex \in 0..dataSize
        /\ ~(dataSize > MaxDataSize) /\ currentSize \in Bytes
    BY KeyAccessAssumption DEF Init
  <2> QED
    BY <1>1, <2>1, <2>2, <2>3 DEF Init, TypeOK
<1>3. NoStaleBytes
  BY DEF Init, NoStaleBytes, Zeros
<1>4. PhaseConsistent
  BY DEF Init, PhaseConsistent, InReply, InCollect
<1> QED
  BY <1>2, <1>3, <1>4 DEF IInv, NotPanicked, Init

LEMMA WriteCommandKeeps ==
  ASSUME IInv, NEW c, WriteCommand(c) PROVE IInv'
<1> USE DEF IInv
<1>1. PICK status, command, result :
        /\ ResetDevice(status, command, result)
        /\ \/ status = {"READY"} /\ command = "none"
           \/ status = {"READY", "BUSY", "GOT_COMMAND"} /\ command \in Commands
        /\ result \in Results
  BY DEF WriteCommand, Results
<1>2. BufferOK /\ ResetBuffer(dataBuffer, dataSize)
  BY <1>1 DEF ResetDevice, BufferOK, TypeOK, NoStaleBytes, ZeroBeyond
<1>3. BufferOK' /\ dataIndex' = 0 /\ dataSize' = 0
  BY <1>2, ResetBufferClears DEF BufferOK
<1>4. Zeros(KeyLen) \in Strings(KeyLen) /\ Zeros(IndexLen) \in Strings(IndexLen)
  BY ZerosAreBytes, KeyAccessAssumption
<1>5. TypeOK'
  BY <1>1, <1>3, <1>4, KeyAccessAssumption
  DEF ResetDevice, WriteCommand, TypeOK, BufferOK, Commands, Flags
<1>6. NoStaleBytes' /\ NotPanicked'
  BY <1>3 DEF NoStaleBytes, BufferOK, ZeroBeyond, NotPanicked, WriteCommand
<1>7. PhaseConsistent'
  <2>1. currentSize' = 0 /\ 0 < Needed'
    BY <1>1, KeyAccessAssumption DEF ResetDevice, Needed, HeaderLen, Commands
  <2> QED
    BY <1>1, <1>3, <2>1 DEF ResetDevice, PhaseConsistent, InReply, InCollect
<1> QED
  BY <1>5, <1>6, <1>7

LEMMA WriteUnexpectedKeeps ==
  ASSUME IInv, WriteUnexpected PROVE IInv'
<1> USE DEF IInv
<1>1. TypeOK'
  BY DEF WriteUnexpected, TypeOK, Results, Touched, Oversized
<1>2. NoStaleBytes' /\ NotPanicked'
  BY DEF WriteUnexpected, NoStaleBytes, NotPanicked
<1>3. PhaseConsistent'
  <2>1. Needed' = Needed
    BY DEF WriteUnexpected, Needed
  <2>2. /\ InCollect' = InCollect /\ InReply' = InReply
        /\ currentStatus' \in {{"READY"}, {"READY", "BUSY"},
                               {"READY", "BUSY", "AWAITING_DATA"}}
    BY DEF WriteUnexpected, Touched, InCollect, InReply, PhaseConsistent
  <2> QED
    BY <2>1, <2>2 DEF WriteUnexpected, PhaseConsistent
<1> QED
  BY <1>1, <1>2, <1>3

(* In the state that accepts an argument byte.                             *)
LEMMA CollectingState ==
  ASSUME IInv, Collecting, ~BufferFull
  PROVE  /\ BufferOK /\ InCollect /\ ~InReply
         /\ dataIndex = dataSize /\ dataSize < MaxDataSize
         /\ dataSize < Needed /\ currentCommand \in Commands
         /\ (currentSize # 0 => currentCommand = "WriteValue")
         /\ Touched = {"READY", "BUSY"}
<1>1. InCollect /\ ~InReply
  BY DEF Collecting, Touched, InCollect, InReply
<1>2. BufferOK /\ dataSize < MaxDataSize
  BY KeyAccessAssumption
  DEF IInv, TypeOK, NoStaleBytes, BufferOK, ZeroBeyond, BufferFull
<1> QED
  BY <1>1, <1>2 DEF IInv, PhaseConsistent, Collecting

(* A byte that leaves the command incomplete.                              *)
LEMMA KeepKeeps ==
  ASSUME IInv, Collecting, ~BufferFull, NEW v \in Bytes,
         Keep([dataBuffer EXCEPT ![dataIndex + 1] = v], dataSize + 1),
         dataSize + 1 # Needed,
         UNCHANGED <<currentCommand, panicked>>
  PROVE  IInv'
<1> USE DEF IInv
<1>1. /\ BufferOK /\ dataIndex = dataSize /\ dataSize < MaxDataSize
      /\ dataSize < Needed /\ currentCommand \in Commands
      /\ (currentSize # 0 => currentCommand = "WriteValue")
      /\ Touched = {"READY", "BUSY"}
  BY CollectingState
<1>2. BufferOK' /\ dataSize' = dataSize + 1 /\ dataIndex' = dataSize + 1
  <2> DEFINE buffer == [dataBuffer EXCEPT ![dataIndex + 1] = v]
  <2>1. /\ buffer \in Strings(MaxDataSize) /\ ZeroBeyond(buffer, dataSize + 1)
        /\ dataSize + 1 \in 0..MaxDataSize
    BY <1>1, StoredByte
  <2>2. /\ dataBuffer' = buffer /\ dataSize' = dataSize + 1
        /\ dataIndex' = dataSize + 1
    BY <1>1 DEF Keep
  <2> HIDE DEF buffer
  <2> QED
    BY <1>1, <2>1, <2>2, KeyAccessAssumption DEF BufferOK
<1>3. TypeOK'
  BY <1>1, <1>2 DEF TypeOK, BufferOK, Keep, Flags
<1>4. NoStaleBytes' /\ NotPanicked'
  BY <1>2 DEF NoStaleBytes, NotPanicked, BufferOK, ZeroBeyond
<1>5. PhaseConsistent'
  <2>1. Needed' = Needed /\ Needed \in Nat
    BY KeyAccessAssumption DEF Keep, Needed, TypeOK, HeaderLen
  <2>2. dataSize' < Needed'
    BY <1>1, <1>2, <2>1 DEF BufferOK
  <2> QED
    BY <1>1, <1>2, <2>2 DEF Keep, PhaseConsistent, InReply, InCollect
<1> QED
  BY <1>3, <1>4, <1>5

(* The byte that completes a query and loads its reply.                    *)
LEMMA ReplyKeeps ==
  ASSUME IInv, Collecting, ~BufferFull, NEW v \in Bytes, NEW a, Answer(a),
         Reply([dataBuffer EXCEPT ![dataIndex + 1] = v], dataSize + 1, a),
         currentKey' \in Strings(KeyLen), currentKeyIndex' \in Strings(IndexLen),
         currentSize' \in Bytes, currentCommand \in Queries,
         Len(a.bytes) > MaxDataSize =>
           currentCommand = "ReadValue" /\ currentSize' = Len(a.bytes),
         UNCHANGED <<currentCommand, panicked>>
  PROVE  IInv'
<1> USE DEF IInv
<1>1. /\ BufferOK /\ dataIndex = dataSize /\ dataSize < MaxDataSize
      /\ Touched = {"READY", "BUSY"}
  BY CollectingState
<1> DEFINE buffer == [dataBuffer EXCEPT ![dataIndex + 1] = v]
<1>2. /\ buffer \in Strings(MaxDataSize) /\ ZeroBeyond(buffer, dataSize + 1)
      /\ dataSize + 1 \in 0..MaxDataSize
  BY <1>1, StoredByte
<1>3. LoadBuffer(buffer, dataSize + 1, a)
  BY DEF Reply
<1> HIDE DEF buffer
<1>4. /\ BufferOK' /\ dataIndex' = 0 /\ dataSize' = Len(a.bytes)
      /\ currentResult' \in Results
  <2>1. Len(a.bytes) > MaxDataSize => Oversized'
    BY <1>3 DEF LoadBuffer, Oversized
  <2> QED
    BY <1>2, <1>3, <2>1, LoadBufferFills
<1>5. currentStatus' = {"READY", "BUSY", "AWAITING_DATA"}
  BY <1>1 DEF Reply
<1>6. TypeOK'
  BY <1>4, <1>5 DEF TypeOK, BufferOK, Reply, Flags
<1>7. NoStaleBytes' /\ NotPanicked'
  BY <1>4 DEF NoStaleBytes, NotPanicked, BufferOK, ZeroBeyond
<1>8. PhaseConsistent'
  BY <1>4, <1>5 DEF PhaseConsistent, InReply, InCollect, BufferOK
<1> QED
  BY <1>6, <1>7, <1>8

LEMMA ReadValueKeeps ==
  ASSUME IInv, Collecting, ~BufferFull, NEW v \in Bytes,
         currentCommand = "ReadValue",
         ReadValue([dataBuffer EXCEPT ![dataIndex + 1] = v], dataSize + 1),
         UNCHANGED <<currentCommand, panicked>>
  PROVE  IInv'
<1> DEFINE buffer == [dataBuffer EXCEPT ![dataIndex + 1] = v]
<1>1. /\ BufferOK /\ dataIndex = dataSize /\ dataSize < MaxDataSize
  BY CollectingState
<1>2. buffer \in Strings(MaxDataSize) /\ buffer[dataSize + 1] = v
  BY <1>1, StoredByte
<1>3. Needed = HeaderLen
  BY DEF Needed
<1>4. CASE dataSize + 1 = HeaderLen
  <2>1. v \in Nat /\ buffer[HeaderLen] = v
    BY <1>2, <1>4, KeyAccessAssumption
  <2>2. KeyIn(buffer) \in Strings(KeyLen) /\ v \in Bytes
    BY <1>2, HeaderTypes
  <2>3. /\ Answer(ValueAnswer(KeyIn(buffer), v))
        /\ Len(ValueAnswer(KeyIn(buffer), v).bytes) = v
    BY <2>1, ValueIsAnswer DEF IInv
  <2>4. /\ currentKey' = KeyIn(buffer) /\ currentSize' = v
        /\ currentKeyIndex' = currentKeyIndex
        /\ Reply(buffer, dataSize + 1, ValueAnswer(KeyIn(buffer), v))
    BY <1>4, <2>1 DEF ReadValue
  <2>5. currentKeyIndex' \in Strings(IndexLen) /\ currentCommand \in Queries
    BY <2>4 DEF IInv, TypeOK, Queries
  <2> QED
    BY <2>2, <2>3, <2>4, <2>5, ReplyKeeps
<1>5. CASE dataSize + 1 # HeaderLen
  BY <1>3, <1>5, KeepKeeps DEF ReadValue
<1> QED
  BY <1>4, <1>5

LEMMA GetKeyFromIndexKeeps ==
  ASSUME IInv, Collecting, ~BufferFull, NEW v \in Bytes,
         currentCommand = "GetKeyFromIndex",
         GetKeyFromIndex([dataBuffer EXCEPT ![dataIndex + 1] = v], dataSize + 1),
         UNCHANGED <<currentCommand, panicked>>
  PROVE  IInv'
<1> DEFINE buffer == [dataBuffer EXCEPT ![dataIndex + 1] = v]
<1>1. Needed = IndexLen
  BY DEF Needed
<1>2. CASE dataSize + 1 = IndexLen
  <2>1. IndexIn(buffer) \in Strings(IndexLen)
    BY CollectingState, StoredByte, HeaderTypes
  <2>2. /\ currentKeyIndex' = IndexIn(buffer)
        /\ Reply(buffer, dataSize + 1, NameByIndex(IndexIn(buffer)))
        /\ currentKey' = currentKey /\ currentSize' = currentSize
    BY <1>2 DEF GetKeyFromIndex
  <2>3. /\ currentKey' \in Strings(KeyLen) /\ currentSize' \in Bytes
        /\ currentCommand \in Queries
    BY <2>2 DEF IInv, TypeOK, Queries
  <2> QED
    BY <2>1, <2>2, <2>3, NameIsAnswer, ReplyKeeps
<1>3. CASE dataSize + 1 # IndexLen
  BY <1>1, <1>3, KeepKeeps DEF GetKeyFromIndex
<1> QED
  BY <1>2, <1>3

LEMMA GetKeyInfoKeeps ==
  ASSUME IInv, Collecting, ~BufferFull, NEW v \in Bytes,
         currentCommand = "GetKeyInfo",
         GetKeyInfo([dataBuffer EXCEPT ![dataIndex + 1] = v], dataSize + 1),
         UNCHANGED <<currentCommand, panicked>>
  PROVE  IInv'
<1> DEFINE buffer == [dataBuffer EXCEPT ![dataIndex + 1] = v]
<1>1. Needed = KeyLen
  BY DEF Needed
<1>2. CASE dataSize + 1 = KeyLen
  <2>1. KeyIn(buffer) \in Strings(KeyLen)
    BY CollectingState, StoredByte, HeaderTypes
  <2>2. /\ currentKey' = KeyIn(buffer)
        /\ Reply(buffer, dataSize + 1, InfoByName(KeyIn(buffer)))
        /\ currentKeyIndex' = currentKeyIndex /\ currentSize' = currentSize
    BY <1>2 DEF GetKeyInfo
  <2>3. /\ currentKeyIndex' \in Strings(IndexLen) /\ currentSize' \in Bytes
        /\ currentCommand \in Queries
    BY <2>2 DEF IInv, TypeOK, Queries
  <2> QED
    BY <2>1, <2>2, <2>3, InfoIsAnswer, ReplyKeeps
<1>3. CASE dataSize + 1 # KeyLen
  BY <1>1, <1>3, KeepKeeps DEF GetKeyInfo
<1> QED
  BY <1>2, <1>3

(* A store after a write has values of the right sizes.                    *)
LEMMA WriteKeyType ==
  ASSUME TypeOK, NEW k, NEW buffer \in Strings(MaxDataSize), NEW r
  PROVE  LET s == WriteKey(store, k, buffer, r)
         IN DOMAIN s = Keys /\ \A j \in Keys : s[j] \in Strings(SizeOf[j])
<1>1. CASE r = "Success" /\ k \in Writable \ Special
  <2>1. k \in Keys /\ SizeOf[k] \in 0..MaxDataSize
    BY <1>1, KeyAccessAssumption
  <2> DEFINE w == [i \in 1..SizeOf[k] |-> buffer[i]]
  <2>2. w \in Strings(SizeOf[k])
    BY <2>1, KeyAccessAssumption DEF Strings
  <2>3. WriteKey(store, k, buffer, r) = [store EXCEPT ![k] = w]
    BY <1>1 DEF WriteKey
  <2> HIDE DEF w
  <2> QED
    BY <2>1, <2>2, <2>3 DEF TypeOK
<1>2. CASE ~(r = "Success" /\ k \in Writable \ Special)
  BY <1>2 DEF WriteKey, TypeOK
<1> QED
  BY <1>1, <1>2

LEMMA WriteValueKeeps ==
  ASSUME IInv, Collecting, ~BufferFull, NEW v \in Bytes,
         currentCommand = "WriteValue",
         WriteValue([dataBuffer EXCEPT ![dataIndex + 1] = v], dataSize + 1),
         UNCHANGED <<currentCommand, panicked>>
  PROVE  IInv'
<1> DEFINE buffer == [dataBuffer EXCEPT ![dataIndex + 1] = v]
           size   == dataSize + 1
<1>1. /\ BufferOK /\ dataIndex = dataSize /\ dataSize < MaxDataSize
      /\ Touched = {"READY", "BUSY"} /\ dataSize < Needed
  BY CollectingState
<1>2. /\ buffer \in Strings(MaxDataSize) /\ ZeroBeyond(buffer, size)
      /\ size \in 1..MaxDataSize
  BY <1>1, StoredByte
<1>3. Needed = IF currentSize = 0 THEN HeaderLen ELSE currentSize
  BY DEF Needed
<1>4. CASE currentSize = size
  <2>1. PICK r \in WriteResults(currentKey) :
          currentResult' = r /\ store' = WriteKey(store, currentKey, buffer, r)
    BY <1>4 DEF WriteValue
  <2>2. /\ currentStatus' = {"READY"} /\ ResetBuffer(buffer, size)
        /\ UNCHANGED <<currentKey, currentKeyIndex, currentSize>>
    BY <1>4 DEF WriteValue
  <2> HIDE DEF buffer, size
  <2>3. r \in Results
    BY DEF WriteResults, Results
  <2>4. BufferOK'
    BY <1>2, <2>2, ResetBufferClears
  <2>5. DOMAIN store' = Keys /\ \A j \in Keys : store'[j] \in Strings(SizeOf[j])
    BY <1>2, <2>1, WriteKeyType DEF IInv
  <2>6. TypeOK'
    BY <2>1, <2>2, <2>3, <2>4, <2>5 DEF IInv, TypeOK, BufferOK, Flags
  <2>7. PhaseConsistent'
    BY <2>2 DEF PhaseConsistent, InReply, InCollect
  <2> QED
    BY <2>4, <2>6, <2>7
    DEF IInv, NoStaleBytes, NotPanicked, BufferOK, ZeroBeyond
<1>5. CASE currentSize # size /\ currentSize = 0 /\ size = HeaderLen
  <2>1. /\ currentKey' = KeyIn(buffer) /\ currentSize' = buffer[HeaderLen]
        /\ ResetBuffer(buffer, size) /\ currentStatus' = Touched
        /\ UNCHANGED <<currentKeyIndex, currentResult, store>>
    BY <1>5 DEF WriteValue
  <2> HIDE DEF buffer, size
  <2>2. KeyIn(buffer) \in Strings(KeyLen) /\ buffer[HeaderLen] \in Bytes
    BY <1>2, HeaderTypes
  <2>3. BufferOK' /\ dataIndex' = 0 /\ dataSize' = 0
    BY <1>2, <2>1, ResetBufferClears
  <2>4. TypeOK'
    BY <1>1, <2>1, <2>2, <2>3 DEF IInv, TypeOK, BufferOK, Flags
  <2>5. 0 < Needed'
    BY <2>1, <2>2, KeyAccessAssumption DEF Needed, HeaderLen
  <2>6. PhaseConsistent'
    BY <1>1, <2>1, <2>3, <2>5 DEF PhaseConsistent, InReply, InCollect, Commands
  <2> QED
    BY <2>3, <2>4, <2>6
    DEF IInv, NoStaleBytes, NotPanicked, BufferOK, ZeroBeyond
<1>6. CASE currentSize # size /\ ~(currentSize = 0 /\ size = HeaderLen)
  BY <1>3, <1>6, KeepKeeps DEF WriteValue
<1> QED
  BY <1>4, <1>5, <1>6

LEMMA ResetKeeps ==
  ASSUME IInv, Collecting, ~BufferFull, NEW v \in Bytes,
         currentCommand = "Reset",
         Reset([dataBuffer EXCEPT ![dataIndex + 1] = v], dataSize + 1),
         UNCHANGED <<currentCommand, panicked>>
  PROVE  IInv'
<1> DEFINE buffer == [dataBuffer EXCEPT ![dataIndex + 1] = v]
<1>1. /\ BufferOK /\ dataIndex = dataSize /\ dataSize < MaxDataSize
      /\ dataSize < Needed
  BY CollectingState
<1>2. /\ buffer \in Strings(MaxDataSize) /\ ZeroBeyond(buffer, dataSize + 1)
      /\ dataSize + 1 \in 1..MaxDataSize
  BY <1>1, StoredByte
<1>3. dataSize = 0
  BY <1>1 DEF Needed, BufferOK
<1>4. /\ dataBuffer' = buffer /\ dataSize' = dataSize + 1
      /\ dataIndex' = dataSize + 1
      /\ currentStatus' = {"READY"} /\ currentResult' = "Success"
      /\ UNCHANGED <<currentKey, currentKeyIndex, currentSize, store>>
  BY <1>1, <1>3 DEF Reset
<1> HIDE DEF buffer
<1>5. BufferOK'
  BY <1>2, <1>4, KeyAccessAssumption DEF BufferOK
<1>6. TypeOK'
  BY <1>4, <1>5 DEF IInv, TypeOK, BufferOK, Flags, Results
<1>7. PhaseConsistent'
  BY <1>4 DEF PhaseConsistent, InReply, InCollect
<1> QED
  BY <1>5, <1>6, <1>7
  DEF IInv, NoStaleBytes, NotPanicked, BufferOK, ZeroBeyond

LEMMA WriteExpectedKeeps ==
  ASSUME IInv, NEW v \in Bytes, WriteExpected(v) PROVE IInv'
<1>1. Collecting /\ ~BufferFull
  BY DEF WriteExpected
<1>2. currentCommand \in Commands
  BY <1>1, CollectingState
<1>3. UNCHANGED <<currentCommand, panicked>>
  BY <1>2 DEF WriteExpected, IInv, NotPanicked
<1>4. CASE currentCommand = "ReadValue"
  BY <1>1, <1>3, <1>4, ReadValueKeeps DEF WriteExpected
<1>5. CASE currentCommand = "WriteValue"
  BY <1>1, <1>3, <1>5, WriteValueKeeps DEF WriteExpected
<1>6. CASE currentCommand = "GetKeyFromIndex"
  BY <1>1, <1>3, <1>6, GetKeyFromIndexKeeps DEF WriteExpected
<1>7. CASE currentCommand = "GetKeyInfo"
  BY <1>1, <1>3, <1>7, GetKeyInfoKeeps DEF WriteExpected
<1>8. CASE currentCommand = "Reset"
  BY <1>1, <1>3, <1>8, ResetKeeps DEF WriteExpected
<1> QED
  BY <1>2, <1>4, <1>5, <1>6, <1>7, <1>8 DEF Commands

LEMMA ReadSpuriousKeeps ==
  ASSUME IInv, ReadSpurious PROVE IInv'
<1> USE DEF IInv
<1>1. TypeOK'
  BY DEF ReadSpurious, TypeOK, Results, Touched, Oversized
<1>2. NoStaleBytes' /\ NotPanicked'
  BY DEF ReadSpurious, NoStaleBytes, NotPanicked
<1>3. PhaseConsistent'
  <2>1. Needed' = Needed
    BY DEF ReadSpurious, Needed
  <2>2. /\ InCollect' = InCollect /\ InReply' = InReply
        /\ currentStatus' \in {{"READY"}, {"READY", "BUSY"},
                               {"READY", "BUSY", "AWAITING_DATA"}}
    BY DEF ReadSpurious, Touched, InCollect, InReply, PhaseConsistent
  <2> QED
    BY <2>1, <2>2 DEF ReadSpurious, PhaseConsistent
<1> QED
  BY <1>1, <1>2, <1>3

(* A byte left to read while arguments are collected would be a collision; *)
(* the position never lags behind then, so a byte is only ever fetched     *)
(* from a reply or after the last command is over.                         *)
LEMMA ReadByteKeeps ==
  ASSUME IInv, ReadByte PROVE IInv'
<1> USE DEF IInv
<1>1. ~InCollect /\ dataIndex < dataSize /\ dataIndex' = dataIndex + 1
  BY DEF ReadByte, PhaseConsistent, TypeOK
<1>2. dataIndex' \in 0..dataSize /\ dataSize' = dataSize
  BY <1>1, KeyAccessAssumption DEF TypeOK, ReadByte
<1>3. CASE ~Replying
  <2>1. currentStatus = {"READY"}
    BY <1>1, <1>3 DEF PhaseConsistent, Replying, Touched, InCollect, InReply
  <2>2. /\ currentStatus' = {"READY"} /\ currentResult' = "CommCollision"
        /\ panicked' = panicked
        /\ UNCHANGED <<currentCommand, currentKey, currentKeyIndex, currentSize,
                       dataBuffer, dataSize, store>>
    BY <1>3, <2>1 DEF ReadByte, Touched
  <2>3. TypeOK'
    BY <1>2, <2>2 DEF TypeOK, Results, Flags, Oversized
  <2>4. PhaseConsistent'
    BY <2>2 DEF PhaseConsistent, InReply, InCollect
  <2> QED
    BY <2>2, <2>3, <2>4 DEF NoStaleBytes, NotPanicked
<1>4. CASE Replying
  <2>1. InReply /\ currentCommand \in Queries
    BY <1>4 DEF PhaseConsistent, Replying, Touched, InReply
  <2>2. /\ currentStatus' = IF LastByte THEN {"READY"}
                            ELSE {"READY", "BUSY", "AWAITING_DATA"}
        /\ panicked' = panicked /\ currentResult' = currentResult
        /\ UNCHANGED <<currentCommand, currentKey, currentKeyIndex, currentSize,
                       dataBuffer, dataSize, store>>
    BY <1>4, <2>1 DEF ReadByte, Replying, NotPanicked
  <2>3. TypeOK'
    BY <1>2, <2>2 DEF TypeOK, Flags, Oversized
  <2>4. ~LastByte => dataIndex' < dataSize'
    BY <1>1, <1>2, KeyAccessAssumption DEF LastByte, TypeOK
  <2>5. PhaseConsistent'
    BY <2>1, <2>2, <2>4 DEF PhaseConsistent, InReply, InCollect
  <2> QED
    BY <2>2, <2>3, <2>5 DEF NoStaleBytes, NotPanicked
<1> QED
  BY <1>3, <1>4

LEMMA ValueChangesKeeps ==
  ASSUME IInv, NEW k \in Keys, ValueChanges(k) PROVE IInv'
<1> USE DEF IInv
<1>1. DOMAIN store' = Keys /\ \A j \in Keys : store'[j] \in Strings(SizeOf[j])
  BY KeyAccessAssumption DEF ValueChanges, Refreshed, TypeOK
<1>2. TypeOK'
  BY <1>1 DEF ValueChanges, TypeOK, Oversized
<1>3. Needed' = Needed
  BY DEF ValueChanges, Needed
<1> QED
  BY <1>2, <1>3
  DEF ValueChanges, NoStaleBytes, NotPanicked, PhaseConsistent, InCollect, InReply

LEMMA StutterKeeps ==
  ASSUME IInv, UNCHANGED vars PROVE IInv'
<1>1. Needed' = Needed
  BY DEF vars, Needed
<1> QED
  BY <1>1 DEF vars, IInv, TypeOK, Oversized, NoStaleBytes, NotPanicked, PhaseConsistent,
              InCollect, InReply

(* The inductive invariant.                                                *)
THEOREM Invariant == Spec => []IInv
<1>1. IInv /\ [Next]_vars => IInv'
  BY WriteCommandKeeps, WriteUnexpectedKeeps, WriteExpectedKeeps,
     ReadSpuriousKeeps, ReadByteKeeps, ValueChangesKeeps, StutterKeeps
  DEF Next, WriteData, ReadData
<1> QED
  BY <1>1, InitOK, PTL DEF Spec

(* Type correctness of SmcPmio, for every announced size: no byte is       *)
(* stored beyond the buffer, only a refused read that announced too many   *)
(* bytes leaves more of them counted than it holds, and no value in the    *)
(* store changes its size.                                                 *)
THEOREM TypeCorrect == Spec => []TypeOK
BY Invariant, PTL DEF IInv

(* The defaults of the two switches are not reachable, as their comments   *)
(* say (kern_pmio.cpp:155, 224).                                           *)
THEOREM NeverPanics == Spec => []NotPanicked
BY Invariant, PTL DEF IInv

(* The buffer holds nothing of an earlier command beyond its bytes in use. *)
THEOREM BufferIsClean == Spec => []NoStaleBytes
BY Invariant, PTL DEF IInv

(* Status, command and buffer agree after any sequence of port accesses.   *)
THEOREM PhasesAgree == Spec => []PhaseConsistent
BY Invariant, PTL DEF IInv

-----------------------------------------------------------------------------
(* The port protocol implements SmcTransaction.                            *)

LEMMA HeaderIs ==
  ASSUME TypeOK
  PROVE  /\ Header \in Seq(Bytes)
         /\ Len(Header) = IF currentSize = 0 THEN 0 ELSE HeaderLen
         /\ currentSize # 0 => /\ \A i \in 1..KeyLen : Header[i] = currentKey[i]
                               /\ Header[HeaderLen] = currentSize
<1>1. currentKey \in Seq(Bytes) /\ Len(currentKey) = KeyLen
  BY StringIsSequence, KeyAccessAssumption DEF TypeOK
<1>2. CASE currentSize = 0
  BY <1>2, EmptySeq DEF Header
<1>3. CASE currentSize # 0
  <2>1. Header = Append(currentKey, currentSize) /\ currentSize \in Bytes
    BY <1>3 DEF Header, TypeOK
  <2> QED
    BY <1>1, <1>3, <2>1, KeyAccessAssumption DEF HeaderLen
<1> QED
  BY <1>2, <1>3

LEMMA AppendIs ==
  ASSUME NEW s \in Seq(Bytes), NEW v \in Bytes
  PROVE  /\ Append(s, v) \in Seq(Bytes) /\ Len(Append(s, v)) = Len(s) + 1
         /\ \A i \in 1..Len(s) : Append(s, v)[i] = s[i]
         /\ Append(s, v)[Len(s) + 1] = v
OBVIOUS

(* The part of the buffer in use, as a sequence.                           *)
LEMMA UsedBytes ==
  ASSUME NEW buffer \in Strings(MaxDataSize), NEW n \in 0..MaxDataSize
  PROVE  LET s == SubSeq(buffer, 1, n)
         IN s \in Seq(Bytes) /\ Len(s) = n /\ \A i \in 1..n : s[i] = buffer[i]
<1>1. \A i \in 1..n : buffer[i] \in Bytes
  BY KeyAccessAssumption DEF Strings
<1> QED
  BY <1>1, SubSeqProperties, KeyAccessAssumption

(* One more byte in the buffer is one more argument.                       *)
Grown(A, buffer) ==
  /\ A \in Seq(Bytes)
  /\ Len(A) = Len(Header) + dataSize + 1
  /\ \A i \in 1..Len(A) : A[i] = IF i <= Len(Header) THEN Header[i]
                                ELSE buffer[i - Len(Header)]
  /\ A = Header \o SubSeq(buffer, 1, dataSize + 1)

LEMMA ArgumentsGrow ==
  ASSUME IInv, Collecting, ~BufferFull, NEW v \in Bytes,
         NEW buffer, buffer = [dataBuffer EXCEPT ![dataIndex + 1] = v],
         NEW A, A = Append(Arguments, v)
  PROVE  Grown(A, buffer)
<1>1. /\ BufferOK /\ dataIndex = dataSize /\ dataSize < MaxDataSize
      /\ InCollect /\ dataSize \in 0..MaxDataSize
  BY CollectingState, KeyAccessAssumption DEF BufferOK
<1>2. buffer \in Strings(MaxDataSize) /\ dataSize + 1 \in 0..MaxDataSize
  BY <1>1, KeyAccessAssumption DEF BufferOK, Strings
<1>3. /\ buffer[dataSize + 1] = v
      /\ \A i \in 1..dataSize : buffer[i] = dataBuffer[i]
  BY <1>1, KeyAccessAssumption DEF BufferOK, Strings
<1> DEFINE s == SubSeq(dataBuffer, 1, dataSize)
           t == SubSeq(buffer, 1, dataSize + 1)
<1>4. s \in Seq(Bytes) /\ Len(s) = dataSize /\ \A i \in 1..dataSize : s[i] = dataBuffer[i]
  BY <1>1, UsedBytes DEF BufferOK
<1>5. /\ t \in Seq(Bytes) /\ Len(t) = dataSize + 1
      /\ \A i \in 1..dataSize + 1 : t[i] = buffer[i]
  BY <1>2, UsedBytes
<1>6. Header \in Seq(Bytes) /\ Len(Header) \in Nat
  BY HeaderIs, LenProperties DEF IInv
<1>7. Arguments = Header \o s
  BY <1>1 DEF Arguments
<1> HIDE DEF s, t
<1>8. /\ Arguments \in Seq(Bytes) /\ Len(Arguments) = Len(Header) + dataSize
      /\ \A i \in 1..Len(Header) + dataSize :
           Arguments[i] = IF i <= Len(Header) THEN Header[i] ELSE s[i - Len(Header)]
  <2>1. /\ Header \o s \in Seq(Bytes) /\ Len(Header \o s) = Len(Header) + Len(s)
        /\ \A i \in 1..Len(Header) + Len(s) :
             (Header \o s)[i] = IF i <= Len(Header) THEN Header[i]
                                ELSE s[i - Len(Header)]
    BY <1>4, <1>6, ConcatProperties
  <2> QED
    BY <1>4, <1>7, <2>1
<1>9. /\ A \in Seq(Bytes) /\ Len(A) = Len(Header) + dataSize + 1
      /\ \A i \in 1..Len(Arguments) : A[i] = Arguments[i]
      /\ A[Len(A)] = v
  <2>1. /\ A \in Seq(Bytes) /\ Len(A) = Len(Arguments) + 1
        /\ \A i \in 1..Len(Arguments) : A[i] = Arguments[i]
        /\ A[Len(Arguments) + 1] = v
    BY <1>8, AppendIs
  <2> QED
    BY <1>1, <1>6, <1>8, <2>1
<1>10. ASSUME NEW i \in 1..Len(A)
       PROVE  A[i] = IF i <= Len(Header) THEN Header[i] ELSE buffer[i - Len(Header)]
  <2>1. CASE i <= Len(Header)
    BY <1>1, <1>6, <1>8, <1>9, <2>1
  <2>2. CASE i > Len(Header) /\ i # Len(A)
    BY <1>1, <1>3, <1>4, <1>6, <1>8, <1>9, <2>2
  <2>3. CASE i = Len(A)
    BY <1>1, <1>3, <1>6, <1>9, <2>3
  <2> QED
    BY <1>1, <1>6, <1>9, <2>1, <2>2, <2>3
<1>11. /\ Header \o t \in Seq(Bytes) /\ Len(Header \o t) = Len(A)
       /\ \A i \in 1..Len(A) :
            (Header \o t)[i] = IF i <= Len(Header) THEN Header[i]
                               ELSE t[i - Len(Header)]
  BY <1>1, <1>5, <1>6, <1>9, ConcatProperties
<1>12. \A i \in 1..Len(A) : A[i] = (Header \o t)[i]
  BY <1>1, <1>5, <1>6, <1>9, <1>10, <1>11
<1>13. A = Header \o t
  BY <1>9, <1>11, <1>12, SeqEqual
<1> QED
  BY <1>9, <1>10, <1>13 DEF t, Grown

Step == [Transaction!Next]_(Transaction!vars)

(* The mapped variables where no command is in progress, ...               *)
LEMMA IdleMap ==
  ASSUME currentStatus = {"READY"}
  PROVE  Pending = "none" /\ Arguments = <<>> /\ Unread = <<>>
BY DEF Pending, Arguments, Unread, InCollect, InReply

LEMMA IdleMapNext ==
  ASSUME currentStatus' = {"READY"}
  PROVE  Pending' = "none" /\ Arguments' = <<>> /\ Unread' = <<>>
BY DEF Pending, Arguments, Unread, InCollect, InReply

(* ... and where an access changed nothing but the result register.        *)
LEMMA SameMap ==
  ASSUME UNCHANGED <<currentCommand, currentKey, currentKeyIndex, currentSize,
                     dataBuffer, dataIndex, dataSize>>,
         currentStatus' = Touched
  PROVE  /\ UNCHANGED <<Pending, Arguments, Unread>>
         /\ ("BUSY" \in currentStatus)' = ("BUSY" \in currentStatus)
BY DEF Pending, Arguments, Unread, InCollect, InReply, Touched, Header, Memory

LEMMA WriteCommandSteps ==
  ASSUME IInv, NEW c, WriteCommand(c) PROVE Step
<1>1. /\ currentStatus \in {{"READY"}, {"READY", "BUSY", "GOT_COMMAND"},
                            {"READY", "BUSY"}, {"READY", "BUSY", "AWAITING_DATA"}}
      /\ UNCHANGED store
  BY DEF IInv, PhaseConsistent, WriteCommand
<1>2. CASE currentStatus = {"READY"} /\ c \in Commands
  <2>1. /\ currentStatus' = {"READY", "BUSY", "GOT_COMMAND"}
        /\ currentCommand' = c /\ currentResult' = "Success"
        /\ currentSize' = 0 /\ dataSize' = 0
    BY <1>2 DEF WriteCommand, ResetDevice, ResetBuffer
  <2>2. Header' = <<>> /\ SubSeq(dataBuffer', 1, dataSize') = <<>>
    BY <2>1, SubSeqEmpty DEF Header
  <2>3. <<>> \o <<>> = <<>>
    BY EmptySeq, ConcatEmptySeq
  <2>4. Pending' = c /\ Arguments' = <<>> /\ Unread' = <<>>
    BY <2>1, <2>2, <2>3 DEF Pending, Arguments, Unread, InCollect, InReply
  <2>5. Pending = "none" /\ Arguments = <<>> /\ Unread = <<>>
    BY <1>2, IdleMap
  <2>6. Transaction!Start(c)
    BY <1>1, <1>2, <2>1, <2>4, <2>5 DEF Transaction!Start
  <2>7. c \in Transaction!Commands
    BY <1>2 DEF Commands, Transaction!Commands
  <2> QED
    BY <2>6, <2>7 DEF Step, Transaction!Next
<1>3. CASE ~(currentStatus = {"READY"} /\ c \in Commands)
  <2>1. /\ currentStatus' = {"READY"}
        /\ currentResult' = IF "BUSY" \in currentStatus THEN "CommCollision"
                                                        ELSE "BadCommand"
    BY <1>1, <1>3 DEF WriteCommand, ResetDevice
  <2>2. Pending' = "none" /\ Arguments' = <<>> /\ Unread' = <<>>
    BY <2>1, IdleMapNext
  <2>3. Transaction!Abandon
    BY <1>1, <2>1, <2>2 DEF Transaction!Abandon
  <2> QED
    BY <2>3 DEF Step, Transaction!Next
<1> QED
  BY <1>2, <1>3

LEMMA WriteUnexpectedSteps ==
  ASSUME IInv, WriteUnexpected PROVE Step
<1>1. /\ UNCHANGED <<Pending, Arguments, Unread, store>>
      /\ ("BUSY" \in currentStatus)' = ("BUSY" \in currentStatus)
  BY SameMap DEF WriteUnexpected
<1>2. \/ currentResult' = "SpuriousData"
      \/ currentResult' = "CommCollision" /\ Pending = "none"
  <2>1. ~Collecting => ~InCollect
    BY DEF IInv, PhaseConsistent, Collecting, Touched, InCollect, InReply
  <2> QED
    BY <2>1 DEF WriteUnexpected, Pending
<1>3. Transaction!Ignore
  BY <1>1, <1>2 DEF Transaction!Ignore
<1> QED
  BY <1>3 DEF Step, Transaction!Next

LEMMA ReadSpuriousSteps ==
  ASSUME IInv, ReadSpurious PROVE Step
<1>1. /\ UNCHANGED <<Pending, Arguments, Unread, store>>
      /\ ("BUSY" \in currentStatus)' = ("BUSY" \in currentStatus)
  BY SameMap DEF ReadSpurious
<1>2. Transaction!Ignore
  BY <1>1 DEF Transaction!Ignore, ReadSpurious
<1> QED
  BY <1>2 DEF Step, Transaction!Next

(* What the driver may fetch.                                              *)
Cells == Bytes \cup {Beyond}

LEMMA MemoryIs ==
  ASSUME TypeOK
  PROVE  Memory \in Seq(Cells) /\ Len(Memory) = MaxDataSize + dataSize
<1>1. MaxDataSize + dataSize \in Nat
  BY KeyAccessAssumption DEF TypeOK
<1>2. \A i \in 1..MaxDataSize : dataBuffer[i] \in Bytes
  BY DEF TypeOK, Strings
<1> QED
  BY <1>1, <1>2, KeyAccessAssumption DEF Memory, Cells

LEMMA ReadByteSteps ==
  ASSUME IInv, ReadByte PROVE Step
<1>1. ~InCollect /\ dataIndex < dataSize /\ dataIndex' = dataIndex + 1
      /\ UNCHANGED <<currentCommand, dataBuffer, dataSize, store>>
  BY DEF ReadByte, IInv, PhaseConsistent, TypeOK
<1>2. CASE ~Replying
  <2>1. currentStatus = {"READY"}
    BY <1>1, <1>2 DEF IInv, PhaseConsistent, Replying, Touched, InCollect, InReply
  <2>2. currentStatus' = {"READY"} /\ currentResult' = "CommCollision"
    BY <1>2, <2>1 DEF ReadByte, Touched
  <2>3. Transaction!Ignore
    BY <1>1, <2>1, <2>2, IdleMap, IdleMapNext DEF Transaction!Ignore
  <2> QED
    BY <2>3 DEF Step, Transaction!Next
<1>3. CASE Replying
  <2>1. InReply /\ currentCommand \in Queries
    BY <1>3 DEF IInv, PhaseConsistent, Replying, Touched, InReply
  <2>2. /\ currentStatus' = IF LastByte THEN {"READY"}
                            ELSE {"READY", "BUSY", "AWAITING_DATA"}
        /\ currentResult' = currentResult
    BY <1>3, <2>1 DEF ReadByte, Replying
  <2>3. Memory \in Seq(Cells) /\ Len(Memory) = MaxDataSize + dataSize
    BY MemoryIs DEF IInv
  <2>4. dataIndex + 1 \in 1..Len(Memory) /\ dataSize \in dataIndex + 1..Len(Memory)
        /\ dataIndex \in Nat /\ dataSize \in Nat
    BY <1>1, <2>3, KeyAccessAssumption DEF IInv, TypeOK
  <2>5. Unread = SubSeq(Memory, dataIndex + 1, dataSize)
    BY <2>1 DEF Unread
  <2>6. \A i \in dataIndex + 1..dataSize : Memory[i] \in Cells
    BY <2>3, <2>4, ElementOfSeq
  <2>7. Unread \in Seq(Cells) /\ Len(Unread) = dataSize - dataIndex
    BY <2>4, <2>5, <2>6, SubSeqProperties
  <2>8. Tail(Unread) = SubSeq(Memory, dataIndex + 2, dataSize)
    BY <2>3, <2>4, <2>5, HeadTailOfSubSeq
  <2>9. Unread # <<>> /\ (LastByte <=> Len(Unread) <= 1)
    BY <1>1, <2>4, <2>7, EmptySeq DEF LastByte
  <2>10. Unread' = Tail(Unread)
    <3>1. CASE LastByte
      <4>1. Tail(Unread) = <<>>
        BY <2>4, <2>8, <3>1, SubSeqEmpty DEF LastByte
      <4> QED
        BY <2>2, <3>1, <4>1, IdleMapNext
    <3>2. CASE ~LastByte
      BY <1>1, <2>2, <2>4, <2>8, <3>2 DEF Unread, InReply, Memory
    <3> QED
      BY <3>1, <3>2
  <2>11. /\ Pending = "none" /\ Arguments = <<>>
         /\ Pending' = "none" /\ Arguments' = <<>>
         /\ ("BUSY" \in currentStatus)' = ~LastByte
    BY <1>1, <2>2 DEF Pending, Arguments, InCollect, InReply
  <2>12. Transaction!Fetch
    BY <1>1, <2>2, <2>7, <2>9, <2>10, <2>11 DEF Transaction!Fetch
  <2> QED
    BY <2>12 DEF Step, Transaction!Next
<1> QED
  BY <1>2, <1>3

LEMMA ValueChangesSteps ==
  ASSUME NEW k \in Keys, ValueChanges(k) PROVE Step
<1>1. Transaction!ValueChanges(k)
  BY DEF ValueChanges, Transaction!ValueChanges, Pending, Arguments, Unread, Memory,
         InCollect, InReply, Header, Refreshed, Transaction!Refreshed
<1> QED
  BY <1>1 DEF Step, Transaction!Next

(* The arguments A before and after the header of a write is taken out of  *)
(* the buffer.                                                             *)
FirstArguments(A, buffer) ==
  /\ Len(A) = dataSize + 1 /\ A = SubSeq(buffer, 1, dataSize + 1)
  /\ \A i \in 1..dataSize + 1 : A[i] = buffer[i]

LaterArguments(A, buffer) ==
  /\ Len(A) = HeaderLen + dataSize + 1
  /\ Transaction!KeyOf(A) = currentKey
  /\ A[HeaderLen] = currentSize
  /\ \A i \in 1..dataSize + 1 : A[HeaderLen + i] = buffer[i]

(* What the concrete state says of the arguments once v has arrived.       *)
LEMMA ArgumentsAt ==
  ASSUME IInv, Collecting, ~BufferFull, NEW v \in Bytes,
         NEW buffer, buffer = [dataBuffer EXCEPT ![dataIndex + 1] = v],
         NEW A, A = Append(Arguments, v)
  PROVE  /\ buffer \in Strings(MaxDataSize) /\ A \in Seq(Bytes)
         /\ dataSize + 1 \in 1..MaxDataSize
         /\ ZeroBeyond(buffer, dataSize + 1) /\ buffer[dataSize + 1] = v
         /\ dataSize \in Nat
         /\ currentSize = 0 => FirstArguments(A, buffer)
         /\ currentSize # 0 => LaterArguments(A, buffer)
<1>1. /\ buffer \in Strings(MaxDataSize) /\ dataSize + 1 \in 1..MaxDataSize
      /\ ZeroBeyond(buffer, dataSize + 1) /\ buffer[dataSize + 1] = v
  BY CollectingState, StoredByte
<1>2. /\ A \in Seq(Bytes)
      /\ Len(A) = Len(Header) + dataSize + 1
      /\ \A i \in 1..Len(A) : A[i] = IF i <= Len(Header) THEN Header[i]
                                    ELSE buffer[i - Len(Header)]
      /\ A = Header \o SubSeq(buffer, 1, dataSize + 1)
  <2>1. Grown(A, buffer)
    BY ArgumentsGrow
  <2> QED
    BY <2>1 DEF Grown
<1>3. dataSize \in Nat
  BY KeyAccessAssumption DEF IInv, TypeOK
<1>4. ASSUME currentSize = 0 PROVE FirstArguments(A, buffer)
  <2>1. Len(Header) = 0 /\ Header = <<>>
    BY <1>4, HeaderIs DEF IInv, Header
  <2>2. SubSeq(buffer, 1, dataSize + 1) \in Seq(Bytes)
    <3>1. dataSize + 1 \in 0..MaxDataSize
      BY <1>1, KeyAccessAssumption
    <3> QED
      BY <1>1, <3>1, UsedBytes
  <2>3. A = SubSeq(buffer, 1, dataSize + 1)
    BY <1>2, <2>1, <2>2, ConcatEmptySeq
  <2>4. \A i \in 1..dataSize + 1 : A[i] = buffer[i]
    BY <1>1, <2>3, UsedBytes
  <2>5. Len(A) = dataSize + 1
    BY <1>2, <1>3, <2>1
  <2> QED
    BY <2>3, <2>4, <2>5 DEF FirstArguments
<1>5. ASSUME currentSize # 0 PROVE LaterArguments(A, buffer)
  <2>1. /\ Len(Header) = HeaderLen /\ Header[HeaderLen] = currentSize
        /\ \A i \in 1..KeyLen : Header[i] = currentKey[i]
    BY <1>5, HeaderIs DEF IInv
  <2>2. HeaderLen = KeyLen + 1 /\ HeaderLen \in Nat /\ KeyLen \in Nat
    BY KeyAccessAssumption DEF HeaderLen
  <2>3. Len(A) = HeaderLen + dataSize + 1
    BY <1>2, <2>1
  <2>4. \A i \in 1..HeaderLen : A[i] = Header[i]
    BY <1>2, <1>3, <2>1, <2>2, <2>3
  <2>5. \A i \in 1..dataSize + 1 : A[HeaderLen + i] = buffer[i]
    BY <1>2, <1>3, <2>1, <2>2, <2>3
  <2>6. currentKey = [i \in 1..KeyLen |-> currentKey[i]]
    BY DEF IInv, TypeOK, Strings
  <2>7. Transaction!KeyOf(A) = currentKey
    <3>1. \A i \in 1..KeyLen : A[i] = currentKey[i]
      <4> SUFFICES ASSUME NEW i \in 1..KeyLen PROVE A[i] = currentKey[i]
        OBVIOUS
      <4>1. i \in 1..HeaderLen
        BY <2>2
      <4>2. A[i] = Header[i]
        BY <2>4, <4>1
      <4> QED
        BY <2>1, <4>2
    <3> QED
      BY <2>6, <3>1 DEF Transaction!KeyOf
  <2>8. A[HeaderLen] = currentSize
    <3>1. HeaderLen \in 1..HeaderLen
      BY <2>2
    <3> QED
      BY <2>1, <2>4, <3>1
  <2> QED
    BY <2>3, <2>5, <2>7, <2>8 DEF LaterArguments
<1> QED
  BY <1>1, <1>2, <1>3, <1>4, <1>5

(* The mapped variables while arguments are collected.                     *)
LEMMA CollectMap ==
  ASSUME IInv, Collecting, ~BufferFull
  PROVE  /\ Pending = currentCommand /\ Unread = <<>>
         /\ "BUSY" \in currentStatus
         /\ Touched = {"READY", "BUSY"} /\ currentCommand \in Commands
BY CollectingState DEF Pending, Unread, InCollect

LEMMA KeepSteps ==
  ASSUME IInv, Collecting, ~BufferFull, NEW v \in Bytes,
         Keep([dataBuffer EXCEPT ![dataIndex + 1] = v], dataSize + 1),
         dataSize + 1 # Needed, currentCommand \in Queries \cup {"WriteValue"},
         UNCHANGED currentCommand
  PROVE  Step
<1>1. PICK buffer : buffer = [dataBuffer EXCEPT ![dataIndex + 1] = v]
  OBVIOUS
<1>2. PICK A : A = Append(Arguments, v)
  OBVIOUS
<1>3. /\ dataBuffer' = buffer /\ dataSize' = dataSize + 1
      /\ currentStatus' = {"READY", "BUSY"}
      /\ UNCHANGED <<currentResult, currentKey, currentSize, store>>
  BY <1>1, CollectMap DEF Keep
<1>4. /\ Pending' = Pending /\ Unread' = <<>> /\ Unread = <<>>
      /\ "BUSY" \in currentStatus /\ "BUSY" \in currentStatus'
      /\ Pending = currentCommand
  BY <1>3, CollectMap DEF Pending, Unread, InCollect, InReply
<1>5. A = Header \o SubSeq(buffer, 1, dataSize + 1)
  BY <1>1, <1>2, ArgumentsGrow DEF Grown
<1>6. Arguments' = A
  BY <1>3, <1>5 DEF Arguments, InCollect, InReply, Header
<1>7. dataSize < Needed /\ dataSize \in Nat /\ currentSize \in Nat
      /\ (currentSize # 0 => currentCommand = "WriteValue")
  BY CollectingState, KeyAccessAssumption DEF IInv, TypeOK
<1>8. KeyLen \in Nat /\ IndexLen \in Nat /\ HeaderLen = KeyLen + 1
      /\ Transaction!HeaderLen = HeaderLen
  BY KeyAccessAssumption DEF HeaderLen, Transaction!HeaderLen
<1>9. Needed \in Nat /\ dataSize + 1 < Needed
  BY <1>7, <1>8 DEF Needed
<1>10. /\ Append(Arguments, v) = A /\ Arguments' = A
       /\ UNCHANGED <<Pending, Unread, "BUSY" \in currentStatus,
                      currentResult, store>>
  BY <1>2, <1>3, <1>4, <1>6
<1>11. Transaction!Collect(v)
  <2>1. CASE currentSize = 0
    <3>1. Len(A) = dataSize + 1
      <4>1. FirstArguments(A, buffer)
        BY <1>1, <1>2, <2>1, ArgumentsAt
      <4> QED
        BY <4>1 DEF FirstArguments
    <3>2. \/ Pending = "ReadValue" /\ Len(A) < HeaderLen
          \/ Pending = "WriteValue" /\ Len(A) < HeaderLen
          \/ Pending = "GetKeyFromIndex" /\ Len(A) < IndexLen
          \/ Pending = "GetKeyInfo" /\ Len(A) < KeyLen
      BY <1>4, <1>9, <2>1, <3>1 DEF Needed, Queries
    <3>3. CASE \/ Pending = "ReadValue" /\ Len(A) < HeaderLen
               \/ Pending = "WriteValue" /\ Len(A) < HeaderLen
      BY <1>8, <1>10, <3>3 DEF Transaction!Collect
    <3>4. CASE \/ Pending = "GetKeyFromIndex" /\ Len(A) < IndexLen
               \/ Pending = "GetKeyInfo" /\ Len(A) < KeyLen
      BY <1>8, <1>10, <3>4 DEF Transaction!Collect
    <3> QED
      BY <3>2, <3>3, <3>4
  <2>2. CASE currentSize # 0
    <3>1. Len(A) = HeaderLen + dataSize + 1 /\ A[HeaderLen] = currentSize
      <4>1. LaterArguments(A, buffer)
        BY <1>1, <1>2, <2>2, ArgumentsAt
      <4> QED
        BY <4>1 DEF LaterArguments
    <3>2. Pending = "WriteValue" /\ dataSize + 1 < currentSize
      BY <1>4, <1>7, <1>9, <2>2 DEF Needed
    <3>3. Len(A) >= HeaderLen /\ Len(A) # HeaderLen + A[HeaderLen]
      BY <1>7, <1>8, <3>1, <3>2
    <3> QED
      BY <1>8, <1>10, <3>2, <3>3 DEF Transaction!Collect
  <2> QED
    BY <2>1, <2>2
<1> QED
  BY <1>11 DEF Step, Transaction!Next

(* A loaded reply is the answer, and nothing else is left to the driver.   *)
LEMMA ReplySteps ==
  ASSUME IInv, Collecting, ~BufferFull, NEW v \in Bytes, NEW a, Answer(a),
         Reply([dataBuffer EXCEPT ![dataIndex + 1] = v], dataSize + 1, a),
         Len(a.bytes) > MaxDataSize => Oversized'
  PROVE  Transaction!Answer(a)
<1> DEFINE buffer == [dataBuffer EXCEPT ![dataIndex + 1] = v]
<1>1. /\ buffer \in Strings(MaxDataSize) /\ ZeroBeyond(buffer, dataSize + 1)
      /\ dataSize + 1 \in 0..MaxDataSize
  BY CollectingState, StoredByte
<1>2. LoadBuffer(buffer, dataSize + 1, a)
  BY DEF Reply
<1>3. /\ currentStatus' = {"READY", "BUSY", "AWAITING_DATA"}
      /\ store' = store
  BY CollectMap DEF Reply
<1> HIDE DEF buffer
<1> DEFINE filled == [i \in 1..MaxDataSize |->
                       IF i <= Len(a.bytes) THEN a.bytes[i] ELSE 0]
<1>4. /\ dataBuffer' = filled
      /\ dataIndex' = 0 /\ dataSize' = Len(a.bytes)
      /\ currentResult' = a.result
  BY <1>1, <1>2, LoadBufferFills
<1> DEFINE n == Len(a.bytes)
           memory == [i \in 1..MaxDataSize + n |->
                        IF i <= MaxDataSize THEN filled[i] ELSE Beyond]
<1>5. /\ n \in Nat /\ a.bytes = [i \in 1..n |-> a.bytes[i]]
      /\ \A i \in 1..n : IF i <= MaxDataSize THEN a.bytes[i] \in Bytes
                                            ELSE a.bytes[i] = Beyond
  BY DEF Answer
<1>6. a.bytes \in Seq(Cells)
  BY <1>5 DEF Cells
<1>7. memory \in Seq(Cells) /\ Len(memory) = MaxDataSize + n
  <2>1. \A i \in 1..MaxDataSize + n : memory[i] \in Cells
    BY <1>5, KeyAccessAssumption DEF Cells
  <2>2. MaxDataSize + n \in Nat
    BY <1>5, KeyAccessAssumption
  <2> HIDE DEF filled, n
  <2> QED
    BY <2>1, <2>2
<1>8. \A i \in 1..n : memory[i] = a.bytes[i]
  BY <1>5, KeyAccessAssumption
<1>9. Memory' = memory
  BY <1>4 DEF Memory
<1> HIDE DEF filled, memory
<1>10. SubSeq(memory, 1, n) = a.bytes
  <2> DEFINE s == SubSeq(memory, 1, n)
  <2>1. \A i \in 1..n : memory[i] \in Cells
    BY <1>5, <1>7, KeyAccessAssumption, ElementOfSeq
  <2>2. s \in Seq(Cells) /\ Len(s) = n /\ \A i \in 1..n : s[i] = memory[i]
    BY <1>5, <2>1, SubSeqProperties
  <2> HIDE DEF s
  <2>3. s = a.bytes
    BY <1>6, <1>8, <2>2, SeqEqual
  <2> QED
    BY <2>3 DEF s
<1>12. Unread' = a.bytes
  BY <1>3, <1>4, <1>9, <1>10 DEF Unread, InReply
<1>11. Pending' = "none" /\ Arguments' = <<>>
  BY <1>3 DEF Pending, Arguments, InCollect, InReply
<1> QED
  BY <1>3, <1>4, <1>11, <1>12, CollectMap DEF Transaction!Answer

(* The two specifications share the key store.                             *)
LEMMA SameKeyAccess ==
  /\ Transaction!HeaderLen = HeaderLen
  /\ \A k, n : Transaction!ReadAnswer(k, n) = ValueAnswer(k, n)
  /\ \A i : Transaction!NameByIndex(i) = NameByIndex(i)
  /\ \A k : Transaction!InfoByName(k) = InfoByName(k)
  /\ \A k : Transaction!WriteResults(k) = WriteResults(k)
  /\ \A k, d, r : Transaction!WriteKey(store, k, d, r) = WriteKey(store, k, d, r)
<1>1. ASSUME NEW k, NEW n
      PROVE  Transaction!ReadAnswer(k, n) = ValueAnswer(k, n)
  <2>1. /\ Transaction!ReadKey(store, k) = ReadKey(store, k)
        /\ Transaction!Refusal(n) = Refusal(n)
    BY DEF Transaction!ReadKey, ReadKey, Transaction!Refusal, Refusal,
           Transaction!Beyond, Beyond
  <2>2. CASE ReadKey(store, k).result # "Success"
    BY <2>1, <2>2 DEF Transaction!ReadAnswer, ValueAnswer
  <2>3. CASE ReadKey(store, k).result = "Success"
    BY <2>1, <2>3 DEF Transaction!ReadAnswer, ValueAnswer
  <2> QED
    BY <2>2, <2>3
<1>2. /\ \A i : Transaction!NameByIndex(i) = NameByIndex(i)
      /\ \A k : Transaction!InfoByName(k) = InfoByName(k)
  BY DEF Transaction!NameByIndex, NameByIndex, Transaction!InfoByName,
         InfoByName, Transaction!Zeros, Zeros
<1> QED
  BY <1>1, <1>2 DEF Transaction!HeaderLen, HeaderLen, Transaction!WriteResults,
     WriteResults, Transaction!WriteKey, WriteKey

(* The bytes of a full header or index, as the arguments they are.         *)
LEMMA PrefixIs ==
  ASSUME NEW buffer \in Strings(MaxDataSize), NEW n \in 0..MaxDataSize
  PROVE  SubSeq(buffer, 1, n) = [i \in 1..n |-> buffer[i]]
<1> DEFINE s == SubSeq(buffer, 1, n)
           t == [i \in 1..n |-> buffer[i]]
<1>1. s \in Seq(Bytes) /\ Len(s) = n /\ \A i \in 1..n : s[i] = buffer[i]
  BY UsedBytes
<1>2. t \in Strings(n) /\ n \in Nat
  BY KeyAccessAssumption DEF Strings
<1>3. t \in Seq(Bytes) /\ Len(t) = n /\ \A i \in 1..n : t[i] = buffer[i]
  BY <1>2, StringIsSequence
<1> HIDE DEF s, t
<1>4. s = t
  BY <1>1, <1>3, SeqEqual
<1> QED
  BY <1>4 DEF s, t

LEMMA ReadValueSteps ==
  ASSUME IInv, Collecting, ~BufferFull, NEW v \in Bytes,
         currentCommand = "ReadValue",
         ReadValue([dataBuffer EXCEPT ![dataIndex + 1] = v], dataSize + 1),
         UNCHANGED currentCommand
  PROVE  Step
<1>1. PICK buffer : buffer = [dataBuffer EXCEPT ![dataIndex + 1] = v]
  OBVIOUS
<1>2. PICK A : A = Append(Arguments, v)
  OBVIOUS
<1>3. currentSize = 0 /\ Needed = HeaderLen
  BY CollectingState DEF Needed
<1>4. CASE dataSize + 1 = HeaderLen
  <2>1. /\ buffer \in Strings(MaxDataSize) /\ buffer[HeaderLen] = v
        /\ Len(A) = HeaderLen /\ \A i \in 1..HeaderLen : A[i] = buffer[i]
    <3>1. /\ FirstArguments(A, buffer) /\ buffer \in Strings(MaxDataSize)
          /\ buffer[dataSize + 1] = v
      BY <1>1, <1>2, <1>3, ArgumentsAt
    <3> QED
      BY <1>4, <3>1 DEF FirstArguments
  <2>2. Transaction!KeyOf(A) = KeyIn(buffer)
    BY <2>1, KeyAccessAssumption DEF Transaction!KeyOf, KeyIn, HeaderLen
  <2>3. v \in Nat
    BY KeyAccessAssumption
  <2>4. Reply(buffer, dataSize + 1, ValueAnswer(KeyIn(buffer), v))
    BY <1>1, <1>4, <2>1 DEF ReadValue
  <2>5. /\ Answer(ValueAnswer(KeyIn(buffer), v))
        /\ Len(ValueAnswer(KeyIn(buffer), v).bytes) = v
    BY <2>3, ValueIsAnswer DEF IInv
  <2>6. Transaction!Answer(ValueAnswer(KeyIn(buffer), v))
    <3>1. Len(ValueAnswer(KeyIn(buffer), v).bytes) > MaxDataSize => Oversized'
      BY <1>1, <1>4, <2>1, <2>4, <2>5 DEF ReadValue, Reply, LoadBuffer, Oversized
    <3> QED
      BY <1>1, <2>4, <2>5, <3>1, ReplySteps
  <2>7. Transaction!Query(v)
    BY <1>2, <2>1, <2>2, <2>6, SameKeyAccess, CollectMap DEF Transaction!Query
  <2> QED
    BY <2>7 DEF Step, Transaction!Next
<1>5. CASE dataSize + 1 # HeaderLen
  BY <1>3, <1>5, KeepSteps DEF ReadValue, Queries
<1> QED
  BY <1>4, <1>5

LEMMA GetKeyFromIndexSteps ==
  ASSUME IInv, Collecting, ~BufferFull, NEW v \in Bytes,
         currentCommand = "GetKeyFromIndex",
         GetKeyFromIndex([dataBuffer EXCEPT ![dataIndex + 1] = v], dataSize + 1),
         UNCHANGED currentCommand
  PROVE  Step
<1>1. PICK buffer : buffer = [dataBuffer EXCEPT ![dataIndex + 1] = v]
  OBVIOUS
<1>2. PICK A : A = Append(Arguments, v)
  OBVIOUS
<1>3. currentSize = 0 /\ Needed = IndexLen
  BY CollectingState DEF Needed
<1>4. CASE dataSize + 1 = IndexLen
  <2>1. /\ buffer \in Strings(MaxDataSize) /\ Len(A) = IndexLen
        /\ A = SubSeq(buffer, 1, IndexLen)
    <3>1. /\ FirstArguments(A, buffer) /\ buffer \in Strings(MaxDataSize)
          /\ buffer[dataSize + 1] = v
      BY <1>1, <1>2, <1>3, ArgumentsAt
    <3> QED
      BY <1>4, <3>1 DEF FirstArguments
  <2>2. A = IndexIn(buffer)
    BY <2>1, PrefixIs, KeyAccessAssumption DEF IndexIn
  <2>3. Reply(buffer, dataSize + 1, NameByIndex(A))
    BY <1>1, <1>4, <2>2 DEF GetKeyFromIndex
  <2>4. Transaction!Answer(NameByIndex(A))
    BY <1>1, <2>3, NameIsAnswer, ReplySteps
  <2>5. Transaction!Query(v)
    BY <1>2, <2>1, <2>4, SameKeyAccess, CollectMap DEF Transaction!Query
  <2> QED
    BY <2>5 DEF Step, Transaction!Next
<1>5. CASE dataSize + 1 # IndexLen
  BY <1>3, <1>5, KeepSteps DEF GetKeyFromIndex, Queries
<1> QED
  BY <1>4, <1>5

LEMMA GetKeyInfoSteps ==
  ASSUME IInv, Collecting, ~BufferFull, NEW v \in Bytes,
         currentCommand = "GetKeyInfo",
         GetKeyInfo([dataBuffer EXCEPT ![dataIndex + 1] = v], dataSize + 1),
         UNCHANGED currentCommand
  PROVE  Step
<1>1. PICK buffer : buffer = [dataBuffer EXCEPT ![dataIndex + 1] = v]
  OBVIOUS
<1>2. PICK A : A = Append(Arguments, v)
  OBVIOUS
<1>3. currentSize = 0 /\ Needed = KeyLen
  BY CollectingState DEF Needed
<1>4. CASE dataSize + 1 = KeyLen
  <2>1. /\ buffer \in Strings(MaxDataSize) /\ Len(A) = KeyLen
        /\ A = SubSeq(buffer, 1, KeyLen)
    <3>1. /\ FirstArguments(A, buffer) /\ buffer \in Strings(MaxDataSize)
          /\ buffer[dataSize + 1] = v
      BY <1>1, <1>2, <1>3, ArgumentsAt
    <3> QED
      BY <1>4, <3>1 DEF FirstArguments
  <2>2. A = KeyIn(buffer)
    BY <2>1, PrefixIs, KeyAccessAssumption DEF KeyIn
  <2>3. Reply(buffer, dataSize + 1, InfoByName(A))
    BY <1>1, <1>4, <2>2 DEF GetKeyInfo
  <2>4. Transaction!Answer(InfoByName(A))
    BY <1>1, <2>3, InfoIsAnswer, ReplySteps
  <2>5. Transaction!Query(v)
    BY <1>2, <2>1, <2>4, SameKeyAccess, CollectMap DEF Transaction!Query
  <2> QED
    BY <2>5 DEF Step, Transaction!Next
<1>5. CASE dataSize + 1 # KeyLen
  BY <1>3, <1>5, KeepSteps DEF GetKeyInfo, Queries
<1> QED
  BY <1>4, <1>5

LEMMA WriteValueSteps ==
  ASSUME IInv, Collecting, ~BufferFull, NEW v \in Bytes,
         currentCommand = "WriteValue",
         WriteValue([dataBuffer EXCEPT ![dataIndex + 1] = v], dataSize + 1),
         UNCHANGED currentCommand
  PROVE  Step
<1>1. PICK buffer : buffer = [dataBuffer EXCEPT ![dataIndex + 1] = v]
  OBVIOUS
<1>2. PICK A : A = Append(Arguments, v)
  OBVIOUS
<1>3. /\ buffer \in Strings(MaxDataSize) /\ dataSize + 1 \in 1..MaxDataSize
      /\ ZeroBeyond(buffer, dataSize + 1) /\ buffer[dataSize + 1] = v
      /\ A \in Seq(Bytes) /\ dataSize \in Nat
  BY <1>1, <1>2, ArgumentsAt
<1>4. /\ HeaderLen = KeyLen + 1 /\ KeyLen \in Nat \ {0} /\ MaxDataSize \in Nat
      /\ HeaderLen \in 0..MaxDataSize
  BY KeyAccessAssumption DEF HeaderLen
<1>5. Pending = "WriteValue" /\ Unread = <<>> /\ "BUSY" \in currentStatus
  BY CollectMap
(* The last byte of the value.                                             *)
<1>6. CASE currentSize = dataSize + 1
  <2>1. /\ Len(A) = HeaderLen + dataSize + 1
        /\ Transaction!KeyOf(A) = currentKey
        /\ A[HeaderLen] = currentSize
        /\ \A i \in 1..dataSize + 1 : A[HeaderLen + i] = buffer[i]
    <3>1. currentSize # 0
      BY <1>3, <1>6
    <3>2. LaterArguments(A, buffer)
      BY <1>1, <1>2, <3>1, ArgumentsAt
    <3> QED
      BY <3>2 DEF LaterArguments
  <2>2. Transaction!Payload(A) = buffer
    <3>1. buffer = [i \in 1..MaxDataSize |-> buffer[i]]
      BY <1>3 DEF Strings
    <3>2. ASSUME NEW i \in 1..MaxDataSize
          PROVE  buffer[i] = IF HeaderLen + i <= Len(A) THEN A[HeaderLen + i] ELSE 0
      <4>1. CASE i <= dataSize + 1
        BY <1>3, <1>4, <2>1, <4>1
      <4>2. CASE i > dataSize + 1
        BY <1>3, <1>4, <2>1, <4>2 DEF ZeroBeyond
      <4> QED
        BY <1>3, <1>4, <4>1, <4>2
    <3> QED
      BY <3>1, <3>2, SameKeyAccess DEF Transaction!Payload
  <2>3. PICK r \in WriteResults(currentKey) :
          currentResult' = r /\ store' = WriteKey(store, currentKey, buffer, r)
    BY <1>1, <1>6 DEF WriteValue
  <2>4. currentStatus' = {"READY"}
    BY <1>6 DEF WriteValue
  <2>5. Pending' = "none" /\ Arguments' = <<>> /\ Unread' = <<>>
    BY <2>4, IdleMapNext
  <2>6. Len(A) > HeaderLen /\ Len(A) = HeaderLen + A[HeaderLen]
    BY <1>3, <1>4, <1>6, <2>1
  <2>7. Transaction!Write(v)
    <3>1. \E q \in Transaction!WriteResults(Transaction!KeyOf(A)) :
            /\ currentResult' = q
            /\ store' = Transaction!WriteKey(store, Transaction!KeyOf(A),
                                             Transaction!Payload(A), q)
      BY <2>1, <2>2, <2>3, SameKeyAccess
    <3>2. Len(A) > Transaction!HeaderLen
          /\ Len(A) = Transaction!HeaderLen + A[Transaction!HeaderLen]
      BY <2>6, SameKeyAccess
    <3>3. /\ Pending = "WriteValue" /\ Pending' = "none" /\ Arguments' = <<>>
          /\ Unread' = Unread
      BY <1>5, <2>5
    <3>4. ("BUSY" \in currentStatus)' = FALSE
      BY <2>4
    <3> QED
      BY <1>2, <3>1, <3>2, <3>3, <3>4, Zenon DEF Transaction!Write
  <2> QED
    BY <2>7 DEF Step, Transaction!Next
(* The last byte of the header.                                            *)
<1>7. CASE currentSize # dataSize + 1 /\ currentSize = 0 /\ dataSize + 1 = HeaderLen
  <2>1. /\ currentKey' = KeyIn(buffer) /\ currentSize' = v
        /\ dataSize' = 0 /\ currentStatus' = {"READY", "BUSY"}
        /\ UNCHANGED <<currentResult, store>>
    BY <1>1, <1>3, <1>7, CollectMap DEF WriteValue, ResetBuffer
  <2>2. /\ Len(A) = HeaderLen /\ A = SubSeq(buffer, 1, HeaderLen)
        /\ \A i \in 1..HeaderLen : A[i] = buffer[i]
    <3>1. FirstArguments(A, buffer)
      BY <1>1, <1>2, <1>7, ArgumentsAt
    <3> QED
      BY <1>7, <3>1 DEF FirstArguments
  <2>3. /\ Pending' = "WriteValue" /\ Unread' = <<>> /\ "BUSY" \in currentStatus'
        /\ Arguments' = Header' \o SubSeq(dataBuffer', 1, 0)
    BY <1>5, <2>1 DEF Pending, Unread, Arguments, InCollect, InReply
  <2>4. SubSeq(dataBuffer', 1, 0) = <<>>
    BY SubSeqEmpty
  <2>5. CASE v = 0
    <3>1. Header' = <<>>
      BY <2>1, <2>5 DEF Header
    <3>2. <<>> \o <<>> = <<>>
      BY EmptySeq, ConcatEmptySeq
    <3>3. Arguments' = <<>>
      BY <2>3, <2>4, <3>1, <3>2
    <3>4. Len(Arguments) = KeyLen
      <4>1. Arguments = SubSeq(dataBuffer, 1, dataSize)
        <5>1. Header = <<>> /\ InCollect
          BY <1>7, CollectingState DEF Header
        <5>2. SubSeq(dataBuffer, 1, dataSize) \in Seq(Bytes)
          BY UsedBytes, CollectingState, KeyAccessAssumption DEF BufferOK
        <5> QED
          BY <5>1, <5>2, ConcatEmptySeq DEF Arguments
      <4>2. Len(SubSeq(dataBuffer, 1, dataSize)) = dataSize
        BY UsedBytes, CollectingState DEF BufferOK
      <4> QED
        BY <1>3, <1>4, <1>7, <4>1, <4>2
    <3>5. Transaction!CollectEmpty
      BY <1>5, <2>1, <2>3, <3>3, <3>4 DEF Transaction!CollectEmpty
    <3> QED
      BY <3>5 DEF Step, Transaction!Next
  <2>6. CASE v # 0
    <3>1. Header' = Append(KeyIn(buffer), v)
      BY <2>1, <2>6 DEF Header
    <3>2. KeyIn(buffer) \in Seq(Bytes) /\ Len(KeyIn(buffer)) = KeyLen
      BY <1>3, <1>4, HeaderTypes, StringIsSequence
    <3>3. Append(KeyIn(buffer), v) = A
      <4> DEFINE h == Append(KeyIn(buffer), v)
      <4>1. /\ h \in Seq(Bytes) /\ Len(h) = HeaderLen
            /\ \A i \in 1..KeyLen : h[i] = KeyIn(buffer)[i]
            /\ h[HeaderLen] = v
        BY <1>4, <3>2, AppendIs
      <4>2. \A i \in 1..KeyLen : KeyIn(buffer)[i] = buffer[i]
        BY DEF KeyIn
      <4> HIDE DEF h
      <4>3. \A i \in 1..HeaderLen : h[i] = A[i]
        <5> SUFFICES ASSUME NEW i \in 1..HeaderLen PROVE h[i] = A[i]
          OBVIOUS
        <5>1. CASE i \in 1..KeyLen
          BY <2>2, <4>1, <4>2, <5>1
        <5>2. CASE i = HeaderLen
          BY <1>3, <1>7, <2>2, <4>1, <5>2
        <5> QED
          BY <1>4, <5>1, <5>2
      <4>4. h = A
        BY <1>3, <2>2, <4>1, <4>3, SeqEqual
      <4> QED
        BY <4>4 DEF h
    <3>4. Arguments' = A
      BY <1>3, <2>3, <2>4, <3>1, <3>3, ConcatEmptySeq
    <3>5. A[HeaderLen] = v
      BY <1>3, <1>4, <1>7, <2>2
    <3>6. Len(A) >= HeaderLen /\ Len(A) # HeaderLen + A[HeaderLen]
      <4>1. v \in Nat
        BY KeyAccessAssumption
      <4> QED
        BY <1>4, <2>2, <2>6, <3>5, <4>1
    <3>7. Transaction!Collect(v)
      BY <1>2, <1>5, <2>1, <2>3, <3>4, <3>6, SameKeyAccess DEF Transaction!Collect
    <3> QED
      BY <3>7 DEF Step, Transaction!Next
  <2> QED
    BY <2>5, <2>6
<1>8. CASE currentSize # dataSize + 1 /\ ~(currentSize = 0 /\ dataSize + 1 = HeaderLen)
  <2>1. dataSize + 1 # Needed
    BY <1>8 DEF Needed
  <2> QED
    BY <1>8, <2>1, KeepSteps DEF WriteValue
<1> QED
  BY <1>6, <1>7, <1>8

LEMMA ResetSteps ==
  ASSUME IInv, Collecting, ~BufferFull, NEW v \in Bytes,
         currentCommand = "Reset",
         Reset([dataBuffer EXCEPT ![dataIndex + 1] = v], dataSize + 1)
  PROVE  Step
<1>1. dataSize = 0 /\ currentSize = 0 /\ InCollect
  BY CollectingState DEF Needed, BufferOK
<1>2. currentStatus' = {"READY"} /\ currentResult' = "Success" /\ store' = store
  BY <1>1 DEF Reset
<1>3. SubSeq(dataBuffer, 1, dataSize) = <<>> /\ <<>> \o <<>> = <<>>
  BY <1>1, SubSeqEmpty, EmptySeq, ConcatEmptySeq
<1>4. Arguments = <<>>
  BY <1>1, <1>3 DEF Arguments, Header
<1>5. Pending' = "none" /\ Arguments' = <<>> /\ Unread' = <<>>
  BY <1>2, IdleMapNext
<1>6. Transaction!Reset
  BY <1>2, <1>4, <1>5, CollectMap DEF Transaction!Reset
<1> QED
  BY <1>6 DEF Step, Transaction!Next

LEMMA WriteExpectedSteps ==
  ASSUME IInv, NEW v \in Bytes, WriteExpected(v) PROVE Step
<1>1. Collecting /\ ~BufferFull /\ UNCHANGED currentCommand
  BY DEF WriteExpected
<1>2. currentCommand \in Commands
  BY <1>1, CollectingState
<1>3. CASE currentCommand = "ReadValue"
  BY <1>1, <1>3, ReadValueSteps DEF WriteExpected
<1>4. CASE currentCommand = "WriteValue"
  BY <1>1, <1>4, WriteValueSteps DEF WriteExpected
<1>5. CASE currentCommand = "GetKeyFromIndex"
  BY <1>1, <1>5, GetKeyFromIndexSteps DEF WriteExpected
<1>6. CASE currentCommand = "GetKeyInfo"
  BY <1>1, <1>6, GetKeyInfoSteps DEF WriteExpected
<1>7. CASE currentCommand = "Reset"
  BY <1>1, <1>7, ResetSteps DEF WriteExpected
<1> QED
  BY <1>2, <1>3, <1>4, <1>5, <1>6, <1>7 DEF Commands

(* The port protocol implements transactions, for every key store, buffer  *)
(* size and sequence of port accesses.                                     *)
THEOREM ImplementsTransaction == Spec => TransactionSpec
<1>1. Init => Transaction!Init
  BY IdleMap DEF Init, Transaction!Init
<1>2. IInv /\ [Next]_vars => Step
  <2>1. ASSUME UNCHANGED vars PROVE Step
    BY <2>1 DEF vars, Step, Transaction!vars, Pending, Arguments, Unread, Memory,
       InCollect, InReply, Header
  <2> QED
    BY <2>1, WriteCommandSteps, WriteUnexpectedSteps, WriteExpectedSteps,
       ReadSpuriousSteps, ReadByteSteps, ValueChangesSteps
    DEF Next, WriteData, ReadData
<1> QED
  BY <1>1, <1>2, Invariant, PTL DEF Spec, Step, TransactionSpec, Transaction!Spec
=============================================================================
