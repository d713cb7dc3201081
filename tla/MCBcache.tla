------------------------------ MODULE MCBcache ------------------------------
(* TLC instance of Bcache: two processes share a block, a third competes     *)
(* with them for buffers and descriptors.                                    *)
EXTENDS Bcache, TLC
CONSTANTS t1, t2, t3, n1, n2, n3, n4
WantsMC == (t1 :> {n1, n2}) @@ (t2 :> {n2, n3}) @@ (t3 :> {n4})
=============================================================================
