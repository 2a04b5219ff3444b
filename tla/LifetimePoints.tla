---------------------------- MODULE LifetimePoints ----------------------------
(***************************************************************************)
(* What a Lifetime promises to the analyses that use it: it is a set of    *)
(* program points.  Adding the segment [a; b] covers every point of it,    *)
(* and a segment can be taken out again only as a whole, that is when it   *)
(* is a maximal run of covered points.  How the points are stored is the   *)
(* business of module Lifetime, which implements this one.                 *)
(***************************************************************************)
EXTENDS Naturals

CONSTANT SizeMax   \* the largest program point, numeric_limits<size_t>::max()

VARIABLE points    \* the covered program points

Point == 0 .. SizeMax

(* a .. b is covered and neither of its neighbours is *)
IsRun(a, b) ==
    /\ a <= b
    /\ a .. b \subseteq points
    /\ \A p \in points : p + 1 # a /\ p # b + 1

Cover(a, b) ==
    /\ a <= b
    /\ points' = points \cup (a .. b)

Uncover(a, b) ==
    /\ IsRun(a, b)
    /\ points' = points \ (a .. b)

Init == points = {}

Next == \E a, b \in Point : Cover(a, b) \/ Uncover(a, b)

Spec == Init /\ [][Next]_points
===============================================================================
