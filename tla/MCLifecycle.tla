----------------------------- MODULE MCLifecycle -----------------------------
(* Instances of Lifecycle for TLC: two torrents, t1 first in the queue. *)
EXTENDS Lifecycle

CONSTANTS t1, t2

Two   == {t1, t2}
First == {t1}
None  == {}

PositionsOfTwo == (t1 :> 0) @@ (t2 :> 1)
=============================================================================
