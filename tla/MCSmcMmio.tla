------------------------------ MODULE MCSmcMmio ------------------------------
(* Values for the two runs of the memory mapped protocol: the race run has *)
(* every thread and an empty key store, the data run has keys and only the *)
(* threads of AppleSMC.  The long key is as large as the data area, the    *)
(* short one is written and also changes by itself, and the information on *)
(* a key is shorter than a long value.                                     *)
EXTENDS SmcMmio, TLC

NoKeys == [k \in {} |-> <<>>]

Long == <<0>>
Short == <<1>>
MCKeys == {Long, Short}
MCSizeOf == (Long :> 2) @@ (Short :> 1)
MCWritable == {Short}
MCNameAt == <<0>> :> Long
MCInfoOf == (Long :> <<1>>) @@ (Short :> <<0>>)
MCReadings == (Long :> {}) @@ (Short :> {<<0>>, <<1>>})
MCInitial == (Long :> <<1, 1>>) @@ (Short :> <<1>>)
=============================================================================
