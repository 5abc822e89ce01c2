------------------------------ MODULE MCCompress ------------------------------
(* Inputs of every length class: empty, below the weak threshold, between *)
(* the thresholds, at or above the strong one; four buffers, one for     *)
(* each Get the calls can make; an Init that lowers both thresholds.     *)
EXTENDS Compress, TLC

CONSTANTS g1, g2, d0, d1, d2, d3, b1, b2, b3, b4

MCThreads == {g1, g2}
MCData == {d0, d1, d2, d3}
MCLength == (d0 :> 0) @@ (d1 :> 100) @@ (d2 :> 20000) @@ (d3 :> 600000)
MCBuffers == {b1, b2, b3, b4}
MCInitArgs == {<<50, 10000>>, <<0, 0>>}
=============================================================================
