---------------------------- MODULE LifetimeSegments ----------------------------
(***************************************************************************)
(* The segments of bjac::Lifetime (include/bjac/analysis/lifetime.hpp) and *)
(* what the operations do to a set of them.  The set's comparator calls    *)
(* two segments equivalent when they intersect or touch, so that looking a *)
(* segment up finds the ones it has to be merged with.                     *)
(*                                                                         *)
(* A std::size_t is 0 .. SizeMax and end() + 1 wraps.  MaxEnd is the       *)
(* largest end point a caller passes: LivenessAnalysis numbers             *)
(* instructions from 0, far below SizeMax.                                 *)
(***************************************************************************)
EXTENDS Naturals, FiniteSetsExt

CONSTANTS SizeMax, MaxEnd

ASSUME SizesAssumption ==
    /\ SizeMax \in Nat
    /\ MaxEnd \in 0 .. SizeMax

(* The constructor of Segment throws when start > end. *)
Segment(sizes) == {s \in [start : sizes, end : sizes] : s.start <= s.end}

Segments == Segment(0 .. MaxEnd)

Next64(n) == IF n = SizeMax THEN 0 ELSE n + 1

(* Mutant: touching segments are apart *)
LessWithoutTouching(lhs, rhs) == lhs.end < rhs.start

(* Compare: lhs lies before rhs and does not touch it *)
Less(lhs, rhs) == Next64(lhs.end) < rhs.start

Equivalent(s, t) == ~Less(s, t) /\ ~Less(t, s)

EqualRange(set, seg) == {t \in set : Equivalent(t, seg)}

(* std::set::insert keeps the set as it is when an equivalent key is there. *)
Inserted(set, seg) ==
    IF EqualRange(set, seg) = {} THEN set \cup {seg} ELSE set

Hull(set) == [start |-> Min({s.start : s \in set}),
              end   |-> Max({s.end : s \in set})]

(* add(seg): the segments equivalent to seg are taken out one by one, seg  *)
(* growing to their hull, and the hull goes in.                            *)
Added(set, seg) ==
    LET merged == EqualRange(set, seg)
    IN  Inserted(set \ merged, Hull(merged \cup {seg}))

(* the points that a set of segments covers; nothing of the code *)
Points(set) == UNION {s.start .. s.end : s \in set}
=================================================================================
