------------------------------- MODULE Lifetime -------------------------------
(***************************************************************************)
(* bjac::Lifetime (include/bjac/analysis/lifetime.hpp): a set of program   *)
(* points kept as a std::set of segments, its operations and its queries.  *)
(***************************************************************************)
EXTENDS LifetimeSegments

VARIABLE lt_segments

-------------------------------------------------------------------------------

(* the queries *)
intersects(seg) == EqualRange(lt_segments, seg) # {}

(* Mutant: the found segment is not compared *)
containsEquivalent(seg) == EqualRange(lt_segments, seg) # {}

contains(seg) == seg \in EqualRange(lt_segments, seg)

front == CHOOSE s \in lt_segments : \A t \in lt_segments \ {s} : Less(s, t)

back == CHOOSE s \in lt_segments : \A t \in lt_segments \ {s} : Less(t, s)

start_point == front.start

end_point == back.end

-------------------------------------------------------------------------------

Init == lt_segments = {}

Add(seg) == lt_segments' = Added(lt_segments, seg)

(* remove(it) *)
Erase(seg) ==
    /\ seg \in lt_segments
    /\ lt_segments' = lt_segments \ {seg}

(* Mutant: whatever find(seg) returns is removed *)
RemoveFound(seg) == lt_segments' = lt_segments \ EqualRange(lt_segments, seg)

(* remove(seg): only a segment that is there exactly as given goes *)
Remove(seg) ==
    lt_segments' = IF contains(seg) THEN lt_segments \ {seg} ELSE lt_segments

Next == \E seg \in Segments : Add(seg) \/ Erase(seg) \/ Remove(seg)

Spec == Init /\ [][Next]_lt_segments

-------------------------------------------------------------------------------

TypeOK == lt_segments \subseteq Segments

(* Lifetime, lines 41-42 and 101-108: whatever was added and removed, the  *)
(* stored segments neither intersect nor touch, so that every one of them  *)
(* has been merged with all it had to be merged with.                      *)
Separated ==
    \A s, t \in lt_segments : s # t => \/ s.end + 1 < t.start
                                       \/ t.end + 1 < s.start

(* Lines 87-99: what the queries say of the covered points.  contains([a;  *)
(* b]) says that [a; b] belongs to the lifetime and that no larger segment *)
(* around it does, so the stored segments are the maximal runs of points   *)
(* and operator== (line 118), which compares segments, compares points.    *)
(* intersects([a; b]), asked through the same comparator, says that a      *)
(* point of [a; b] or one next to it is covered: it holds for a segment    *)
(* that the lifetime only touches and has no point of.                     *)
QueriesMeanPoints ==
    \A s \in Segments :
        /\ contains(s) <=> /\ s.start .. s.end \subseteq Points(lt_segments)
                           /\ \A t \in Segments :
                                 /\ s.start .. s.end \subseteq t.start .. t.end
                                 /\ t.start .. t.end \subseteq Points(lt_segments)
                                 => t = s
        /\ intersects(s) <=> \E p \in Points(lt_segments) : s.start <= p + 1 /\ p <= s.end + 1

(* The lifetime implements the set of its points: add covers exactly the   *)
(* segment it is given, and remove takes out whole runs or nothing.        *)
Abstract == INSTANCE LifetimePoints WITH points <- Points(lt_segments)

ImplementsPoints == Abstract!Spec
===============================================================================
