---------------------------- MODULE SmcTransaction ----------------------------
(***************************************************************************)
(* What the port protocol of the SMC promises its driver, whatever buffers *)
(* and indices implement it: a command collects the argument bytes it      *)
(* needs, takes effect on the key store in one step when the last of them  *)
(* arrives, and hands out a reply fixed in that step.  A byte nobody       *)
(* expects changes the result register and nothing else, and a command     *)
(* given in the middle of another one abandons both.                       *)
(***************************************************************************)
EXTENDS SmcKeyAccess

VARIABLES
  command,   \* the command whose arguments are collected, or "none"
  args,      \* the arguments so far
  reply,     \* the bytes the driver has still to fetch
  busy,      \* a command is in progress
  result,    \* the result register
  store      \* the values of the keys

vars == <<command, args, reply, busy, result, store>>

Init ==
  /\ command = "none" /\ args = <<>> /\ reply = <<>> /\ ~busy
  /\ result = "Success"
  /\ store = Initial

(* A known command starts.                                                 *)
Start(c) ==
  /\ ~busy
  /\ command' = c /\ busy' = TRUE /\ result' = "Success"
  /\ UNCHANGED <<args, reply, store>>

(* An unknown command starts nothing, and any command abandons the one in  *)
(* progress without taking its place.                                      *)
Abandon ==
  /\ command' = "none" /\ args' = <<>> /\ reply' = <<>> /\ busy' = FALSE
  /\ result' = IF busy THEN "CommCollision" ELSE "BadCommand"
  /\ UNCHANGED store

-----------------------------------------------------------------------------
HeaderLen == KeyLen + 1

KeyOf(a) == [i \in 1..KeyLen |-> a[i]]

(* The bytes a write hands to the key store: padded with zeros for a key   *)
(* that is larger than what was sent.                                      *)
Payload(a) ==
  [i \in 1..MaxDataSize |->
     IF HeaderLen + i <= Len(a) THEN a[HeaderLen + i] ELSE 0]

(* What a completed query answers.  A refusal is as long as the driver     *)
(* announced, even where no value is that long.                            *)
ReadAnswer(k, n) ==
  LET r == ReadKey(store, k)
  IN IF r.result = "Success" /\ Len(r.bytes) = n THEN r
     ELSE [result |-> IF r.result = "Success" THEN "KeySizeMismatch"
                                              ELSE r.result,
           bytes  |-> Refusal(n)]

(* One more argument byte, after which more are needed.                    *)
Collect(v) ==
  LET a == Append(args, v)
  IN /\ \/ command = "ReadValue" /\ Len(a) < HeaderLen
        \/ command = "WriteValue" /\ Len(a) < HeaderLen
        \/ command = "WriteValue" /\ Len(a) >= HeaderLen
             /\ Len(a) # HeaderLen + a[HeaderLen]
        \/ command = "GetKeyFromIndex" /\ Len(a) < IndexLen
        \/ command = "GetKeyInfo" /\ Len(a) < KeyLen
     /\ args' = a
     /\ UNCHANGED <<command, reply, busy, result, store>>

(* A write of no bytes is forgotten, and another header is collected.      *)
CollectEmpty ==
  /\ command = "WriteValue" /\ Len(args) = KeyLen
  /\ args' = <<>>
  /\ UNCHANGED <<command, reply, busy, result, store>>

Answer(a) ==
  /\ command' = "none" /\ args' = <<>>
  /\ reply' = a.bytes /\ result' = a.result
  /\ UNCHANGED <<busy, store>>

(* The last argument byte of a query: the whole reply is fixed here.       *)
Query(v) ==
  LET a == Append(args, v)
  IN \/ /\ command = "ReadValue" /\ Len(a) = HeaderLen
        /\ Answer(ReadAnswer(KeyOf(a), v))
     \/ /\ command = "GetKeyFromIndex" /\ Len(a) = IndexLen
        /\ Answer(NameByIndex(a))
     \/ /\ command = "GetKeyInfo" /\ Len(a) = KeyLen
        /\ Answer(InfoByName(a))

(* The last byte of a write: the key takes effect in one step.             *)
Write(v) ==
  LET a == Append(args, v)
  IN /\ command = "WriteValue"
     /\ Len(a) > HeaderLen /\ Len(a) = HeaderLen + a[HeaderLen]
     /\ \E r \in WriteResults(KeyOf(a)) :
          /\ result' = r
          /\ store' = WriteKey(store, KeyOf(a), Payload(a), r)
     /\ command' = "none" /\ args' = <<>> /\ busy' = FALSE
     /\ UNCHANGED reply

(* The mode byte of a reset.                                               *)
Reset ==
  /\ command = "Reset"
  /\ command' = "none" /\ busy' = FALSE /\ result' = "Success"
  /\ UNCHANGED <<args, reply, store>>

(* The driver fetches the reply byte by byte.                              *)
Fetch ==
  /\ reply # <<>>
  /\ reply' = Tail(reply)
  /\ busy' = (Len(reply) > 1)
  /\ UNCHANGED <<command, args, result, store>>

(* A byte that nobody expects, in either direction; only a byte that no    *)
(* command is waiting for may be called a collision.                       *)
Ignore ==
  /\ \/ result' = "SpuriousData"
     \/ result' = "CommCollision" /\ command = "none"
  /\ UNCHANGED <<command, args, reply, busy, store>>

ValueChanges(k) ==
  /\ \E v \in Readings[k] : store' = Refreshed(store, k, v)
  /\ UNCHANGED <<command, args, reply, busy, result>>

Commands == {"ReadValue", "WriteValue", "GetKeyFromIndex", "GetKeyInfo", "Reset"}

Next ==
  \/ \E c \in Commands : Start(c)
  \/ Abandon \/ CollectEmpty \/ Reset \/ Fetch \/ Ignore
  \/ \E v \in Bytes : Collect(v) \/ Query(v) \/ Write(v)
  \/ \E k \in Keys : ValueChanges(k)

Spec == Init /\ [][Next]_vars
=============================================================================
