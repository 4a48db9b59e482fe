-------------------------- MODULE MCUpdateSupervisor --------------------------
(* Finite instances of UpdateSupervisor for TLC.  Two builds are the running   *)
(* one and a candidate; the third lets a second update follow a promotion.     *)
EXTENDS UpdateRefinement

CONSTANTS b1, b2, b3, r1, r2

TwoBuilds == {b1, b2}
ThreeBuilds == {b1, b2, b3}
OneRow == {r1}
TwoRows == {r1, r2}
=============================================================================
