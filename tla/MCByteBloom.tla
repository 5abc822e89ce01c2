----------------------------- MODULE MCByteBloom -----------------------------
(* New(2, 0.25): estimateParameters gives m = 6 bits and k = 3 hash        *)
(* functions.  Keys "a" and "b"; their bits, computed by the fnv           *)
(* definitions of ByteBloom, are {4, 2} and {1, 4}, as Go computes them.   *)
EXTENDS ByteBloom

CONSTANTS g1, g2

MCThreads == {g1, g2}
MCKeys == {<<97>>, <<98>>}

ASSUME /\ <<HashIndex(0, <<97>>), HashIndex(1, <<97>>), HashIndex(2, <<97>>)>> = <<4, 2, 4>>
       /\ <<HashIndex(0, <<98>>), HashIndex(1, <<98>>), HashIndex(2, <<98>>)>> = <<1, 1, 4>>
=============================================================================
