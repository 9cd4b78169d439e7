---------------------------- MODULE EventMailbox ----------------------------
(***************************************************************************)
(* What event delivery promises the poster of an SMC event and the driver  *)
(* that reads it: a mailbox with one slot per event code.  Posting to an   *)
(* empty slot queues the code behind the codes already waiting; posting to *)
(* a full slot replaces its content and keeps the place in the queue; the  *)
(* driver takes the longest waiting code with the content posted last.     *)
(* SmcEvents implements this with a vector it searches for the code.       *)
(***************************************************************************)
EXTENDS Naturals, Sequences

CONSTANTS
  Codes,     \* event codes the driver understands
  Data,      \* event contents
  NoEvent,   \* code of "nothing delivered yet"
  Empty,     \* content of a slot that holds nothing
  Capacity   \* how many codes may wait at once

VARIABLES
  order,     \* the codes that wait, longest waiting first
  box,       \* the content of each code's slot
  last       \* the event the driver took last

vars == <<order, box, last>>

Init ==
  /\ order = <<>>
  /\ box = [c \in Codes |-> Empty]
  /\ last = [code |-> NoEvent, data |-> Empty]

(* An event is posted to a free slot: its code waits behind the others.    *)
Put(c, d) ==
  /\ box[c] = Empty
  /\ Len(order) < Capacity
  /\ order' = Append(order, c)
  /\ box' = [box EXCEPT ![c] = d]
  /\ UNCHANGED last

(* An event is posted to a slot in use: the newer content wins.            *)
Replace(c, d) ==
  /\ box[c] # Empty
  /\ box' = [box EXCEPT ![c] = d]
  /\ UNCHANGED <<order, last>>

(* The driver takes the longest waiting event.                             *)
Take ==
  /\ order # <<>>
  /\ last' = [code |-> Head(order), data |-> box[Head(order)]]
  /\ box' = [box EXCEPT ![Head(order)] = Empty]
  /\ order' = Tail(order)

Next ==
  \/ \E c \in Codes, d \in Data : Put(c, d) \/ Replace(c, d)
  \/ Take

Spec == Init /\ [][Next]_vars
=============================================================================
