----------------------------- MODULE SmcKeyAccess -----------------------------
(***************************************************************************)
(* The key store as the two protocols use it: readValueByName,             *)
(* writeValueByName, readNameByIndex and getInfoByName of                  *)
(* VirtualSMCKeystore, as operators on the values the keys hold.  How the  *)
(* storages and the plugins are searched is left out: a key is in Keys     *)
(* when the search finds it, in the visible or in the hidden storage.      *)
(***************************************************************************)
EXTENDS Naturals, Sequences

CONSTANTS
  KeyLen,      \* sizeof(SMC_KEY)
  IndexLen,    \* sizeof(SMC_KEY_INDEX)
  InfoLen,     \* sizeof(KeyInfo): size, type and attributes
  MaxDataSize, \* SMC_MAX_DATA_SIZE, the bytes a value holds at most
  Bytes,       \* the bytes that occur
  Keys,        \* the keys the store holds, each a sequence of KeyLen bytes
  SizeOf,      \* the size of each key's value
  Readable,    \* keys with the READ attribute and not PRIVATE_READ
  Writable,    \* keys with the WRITE attribute
  Private,     \* keys with the PRIVATE_WRITE attribute
  Special,     \* keys whose writeAccess or update is not the default one
  NameAt,      \* the key at each (encoded) index that has one
  InfoOf,      \* the KeyInfo bytes of each key
  Readings,    \* the values a key's own code may give it
  Initial      \* the values of the keys at start

Strings(n) == [1..n -> Bytes]

ASSUME KeyAccessAssumption ==
  /\ KeyLen \in Nat \ {0} /\ IndexLen \in Nat \ {0} /\ InfoLen \in Nat \ {0}
  /\ MaxDataSize \in Nat
  /\ KeyLen + 1 <= MaxDataSize /\ IndexLen <= MaxDataSize
  /\ InfoLen <= MaxDataSize
  /\ Bytes \subseteq 0..255 /\ 0 \in Bytes
  /\ Keys \subseteq Strings(KeyLen)
  /\ SizeOf \in [Keys -> 0..MaxDataSize]
  /\ Readable \subseteq Keys
  /\ Private \subseteq Writable /\ Writable \subseteq Keys
  /\ DOMAIN NameAt \subseteq Strings(IndexLen)
  /\ \A i \in DOMAIN NameAt : NameAt[i] \in Keys
  /\ InfoOf \in [Keys -> Strings(InfoLen)]
  /\ \A k \in Keys : Readings[k] \subseteq Strings(SizeOf[k])
  /\ DOMAIN Initial = Keys
  /\ \A k \in Keys : Initial[k] \in Strings(SizeOf[k])

Zeros(n) == [i \in 1..n |-> 0]

(* Whatever byte lies in memory behind the buffer; it stands for none in   *)
(* particular.                                                             *)
Beyond == 256

(* What a refused read of n bytes hands out: zeros as far as the buffer    *)
(* goes, and after it what lies behind it.                                 *)
Refusal(n) == [i \in 1..n |-> IF i <= MaxDataSize THEN 0 ELSE Beyond]

(* readValueByName.                                                        *)
ReadKey(values, k) ==
  IF k \notin Keys THEN [result |-> "NotFound", bytes |-> <<>>]
  ELSE IF k \notin Readable THEN [result |-> "NotReadable", bytes |-> <<>>]
  ELSE [result |-> "Success", bytes |-> values[k]]

(* readNameByIndex.                                                        *)
NameByIndex(i) ==
  IF i \in DOMAIN NameAt THEN [result |-> "Success", bytes |-> NameAt[i]]
  ELSE [result |-> "NotFound", bytes |-> Zeros(KeyLen)]

(* getInfoByName.                                                          *)
InfoByName(k) ==
  IF k \in Keys THEN [result |-> "Success", bytes |-> InfoOf[k]]
  ELSE [result |-> "NotFound", bytes |-> Zeros(InfoLen)]

(* What writeValueByName answers: getByName has just locked KPST, so a     *)
(* private key is always refused.  A special key may refuse the bytes.     *)
WriteResults(k) ==
  IF k \notin Keys THEN {"NotFound"}
  ELSE IF k \notin Writable THEN {"NotWritable"}
  ELSE IF k \in Private THEN {"NotReadable"}
  ELSE IF k \in Special THEN {"Success", "BadParameter", "NotWritable"}
  ELSE {"Success"}

(* VirtualSMCValue::update copies as many bytes as the value has, however  *)
(* many the driver sent.  A special key keeps what its own code makes of   *)
(* the bytes, which shows as a later ValueChanges.                         *)
WriteKey(values, k, data, result) ==
  IF result = "Success" /\ k \in Writable \ Special
    THEN [values EXCEPT ![k] = [i \in 1..SizeOf[k] |-> data[i]]]
    ELSE values

(* A value as its readAccess, a timer or its owner refreshes it.           *)
Refreshed(values, k, v) == [values EXCEPT ![k] = v]
=============================================================================
