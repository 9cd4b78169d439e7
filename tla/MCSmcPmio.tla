------------------------------ MODULE MCSmcPmio ------------------------------
(* Keys of two bytes and a buffer of four.  Key <<1, 1>> is a sensor of    *)
(* two bytes that only its own code changes, <<1, 2>> a plain variable of  *)
(* one byte, <<2, 1>> is write-only and refuses some values, <<2, 2>> is   *)
(* private.  The other keys do not exist; a size of 6 does not fit the     *)
(* buffer and a size of 0 announces nothing.                               *)
EXTENDS SmcPmio, TLC

MCBytes == {0, 1, 2, 6}

MCKeys == {1, 2} \X {1, 2}

MCSizeOf == [k \in MCKeys |-> IF k = <<1, 2>> THEN 1 ELSE 2]

MCReadable == {<<1, 1>>, <<1, 2>>}

MCWritable == MCKeys \ {<<1, 1>>}

MCPrivate == {<<2, 2>>}

MCSpecial == {<<2, 1>>}

MCNameAt == (<<0>> :> <<1, 1>>) @@ (<<1>> :> <<2, 1>>)

MCInfoOf == [k \in MCKeys |-> <<MCSizeOf[k], 6>> \o k]

MCReadings ==
  [k \in MCKeys |-> IF k = <<1, 1>> THEN {<<1, 2>>, <<6, 0>>} ELSE {}]

MCInitial == [k \in MCKeys |-> IF k = <<1, 2>> THEN <<0>> ELSE <<1, 2>>]
=============================================================================
