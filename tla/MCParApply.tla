----------------------------- MODULE MCParApply -----------------------------
(* r -> a, q;  a -> x, w, y;  x -> w, p;  w -> y;  y -> z                   *)
(* The first task spawns x and w and rebuilds y itself; x needs w, which it *)
(* may find as a promise, find rebuilt or rebuild itself; all need y and z. *)
EXTENDS ParApply, TLC

CONSTANTS r, a, x, w, y, z, p, q

MCNode == {r, a, x, w, y, z, p, q}
MCPruned == {p, q}
MCForeign == {q}
MCChildren == r :> <<a, q>> @@ a :> <<x, w, y>> @@ x :> <<w, p>> @@ w :> <<y>> @@ y :> <<z>>
              @@ z :> <<>> @@ p :> <<>> @@ q :> <<>>
MCDepth == r :> 5 @@ a :> 4 @@ x :> 3 @@ w :> 2 @@ y :> 1 @@ z :> 0 @@ p :> 0 @@ q :> 0
=============================================================================
