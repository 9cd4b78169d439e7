---------------------------- MODULE KeyDirectory ----------------------------
(* What the key store promises to those who look keys up: a list of names   *)
(* that only grows at its end, so that an index means the same key for      *)
(* ever, and behind every name a value that a later plugin may replace.     *)
EXTENDS Sequences, SequencesExt

CONSTANTS
  FirstNames,   \* the names known before any plugin, in order
  FirstValues   \* the values behind them

VARIABLES
  names,        \* visible names by index
  current       \* name -> the value behind it

vars == <<names, current>>

Init ==
  /\ names = FirstNames
  /\ current = FirstValues

(* A plugin appends names of its own, and no other value changes: `was` and *)
(* `now` are the values before and after.                                   *)
Extend ==
  /\ IsStrictPrefix(names, names')
  /\ \E was \in {current}, now \in {current'} :
       /\ DOMAIN now = ToSet(names')
       /\ \A k \in DOMAIN was : now[k] = was[k]

(* A plugin replaces the value behind one name.                             *)
Override ==
  /\ names' = names
  /\ \E was \in {current}, now \in {current'} :
       /\ DOMAIN now = DOMAIN was
       /\ \E name \in DOMAIN was :
            \A k \in DOMAIN was \ {name} : now[k] = was[k]

Next == Extend \/ Override

Spec == Init /\ [][Next]_vars
=============================================================================
