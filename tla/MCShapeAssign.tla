--------------------------- MODULE MCShapeAssign ---------------------------
(* Three primitives and two rule packages that have one attribute in       *)
(* common, hidden in one of them.                                          *)
EXTENDS ShapeAssign, TLC

CONSTANTS r1, r2, height, width

FallbackAndTwo == {-1, 1, 2}

TwoRuleFiles == r1 :> {height, width} @@ r2 :> {height}
OneHides == r1 :> {} @@ r2 :> {height}
=============================================================================
