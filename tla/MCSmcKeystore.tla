---------------------------- MODULE MCSmcKeystore ----------------------------
(* Three plugins for two slots: one that overrides a visible key and a      *)
(* hidden one and adds a visible and a hidden one, one that overrides a     *)
(* visible key and adds one, one that only adds.                            *)
EXTENDS SmcKeystore, TLC

CONSTANTS p1, p2, p3

Sets(v, h) == ("visible" :> v) @@ ("hidden" :> h)
MCBase == Sets({1, 3, 5}, {10, 12})
MCOffers == (p1 :> Sets({2, 3}, {12, 13}))
         @@ (p2 :> Sets({5, 9}, {}))
         @@ (p3 :> Sets({4}, {}))
MCReadable == Values \ {<<Store, 10>>, <<Store, 5>>}
MCWritable == {<<Store, 10>>, <<Store, 12>>, <<p1, 12>>, <<p2, 5>>}
MCPrivate == {<<Store, 12>>, <<p1, 13>>}
=============================================================================
