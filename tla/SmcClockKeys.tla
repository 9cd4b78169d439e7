---------------------------- MODULE SmcClockKeys ----------------------------
(***************************************************************************)
(* The keys that tell time (kern_keys.cpp): CLWK, which counts the time     *)
(* since the last wake in 16 bits, and CLKT, the seconds of the day.        *)
(***************************************************************************)
EXTENDS Integers

CONSTANTS
  MaxTime,      \* bound: the clock stops here
  MaxCounter,   \* 0xFFFF, the largest value of CLWK
  Day           \* 86400, the seconds of a day

(* Assumed of the constants wherever the module is used.                    *)
ClockAssumption ==
  MaxTime \in Nat \ {0} /\ MaxCounter \in Nat /\ Day \in Nat \ {0}

VARIABLES
  now,        \* the time since boot; never 0
  lastWake,   \* lastWakeTime of the key store (0: no wake yet)
  clwk,       \* CLWK: counter, pending, halt, lastWakeStored
  clkt        \* CLKT: the seconds in data, delta

vars == <<now, lastWake, clwk, clkt>>

Init ==
  /\ now = 1
  /\ lastWake = 0
  /\ clwk = [counter |-> 0, pending |-> TRUE, halt |-> FALSE, wake |-> 0]
  /\ clkt = [data |-> 0, delta |-> 0]

Tick ==
  /\ now < MaxTime
  /\ now' = now + 1
  /\ UNCHANGED <<lastWake, clwk, clkt>>

(* handlePowerOn of the key store.                                          *)
Wake ==
  /\ lastWake' = now
  /\ UNCHANGED <<now, clwk, clkt>>

-----------------------------------------------------------------------------
CappedMutant(time) == time % (MaxCounter + 1)

Capped(time) == IF time >= MaxCounter THEN MaxCounter ELSE time

ReadCLWK ==
  /\ clwk' =
       LET woken == lastWake > 0 /\ lastWake # clwk.wake
           c == IF woken THEN [clwk EXCEPT !.wake = lastWake, !.pending = FALSE,
                                           !.halt = FALSE]
                ELSE clwk
       IN IF c.pending \/ c.halt THEN c
          ELSE [c EXCEPT !.counter = Capped(now - lastWake)]
  /\ UNCHANGED <<now, lastWake, clkt>>

(* Writing 1 waits for the next wake, anything else stops the count.        *)
UpdateCLWK(one) ==
  /\ clwk' = IF one THEN [clwk EXCEPT !.counter = 0, !.pending = TRUE, !.halt = FALSE]
             ELSE [clwk EXCEPT !.halt = TRUE]
  /\ UNCHANGED <<now, lastWake, clkt>>

-----------------------------------------------------------------------------
(* The battery backed clock, by the day.                                    *)
ReadTime == now % Day

(* C's remainder has the sign of what is divided.                           *)
Remainder(a, b) == IF a >= 0 THEN a % b ELSE -((-a) % b)

OfDay(time) == Remainder(time + Day, Day)

ReadCLKT ==
  /\ clkt' = [clkt EXCEPT !.data = OfDay(ReadTime + clkt.delta)]
  /\ UNCHANGED <<now, lastWake, clwk>>

(* The offset is taken from the bytes of the last read, not from those the  *)
(* driver writes, which `update` is given and leaves alone.                 *)
UpdateCLKT ==
  /\ clkt' = [clkt EXCEPT !.delta = ReadTime - clkt.data]
  /\ UNCHANGED <<now, lastWake, clwk>>

Next ==
  \/ Tick \/ Wake \/ ReadCLWK \/ ReadCLKT \/ UpdateCLKT
  \/ \E one \in BOOLEAN : UpdateCLWK(one)

Spec == Init /\ [][Next]_vars

-----------------------------------------------------------------------------
(* Every variable has its type; CLKT is a time of the day, whatever offsets *)
(* add up.                                                                  *)
TypeOK ==
  /\ now \in 1 .. MaxTime
  /\ lastWake \in 0 .. MaxTime
  /\ clwk \in [counter : 0 .. MaxCounter, pending : BOOLEAN, halt : BOOLEAN,
               wake : 0 .. MaxTime]
  /\ clkt \in [data : 0 .. Day - 1, delta : -Day .. Day]

(* The time since the last wake only starts again after a wake or when the  *)
(* driver resets it, and stays at its largest value when 16 bits are over.  *)
WakeCounterGrows ==
  [][clwk'.counter < clwk.counter => clwk'.pending \/ clwk'.wake # clwk.wake]_clwk
=============================================================================
