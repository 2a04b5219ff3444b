---------------------------- MODULE LifetimeProofs ----------------------------
(***************************************************************************)
(* Proofs about module Lifetime, for every SizeMax and every MaxEnd below  *)
(* it.  With MaxEnd = SizeMax the comparator wraps and the invariant is    *)
(* lost, so the bound is a hypothesis of the theorems and not an           *)
(* assumption of the module.                                               *)
(***************************************************************************)
EXTENDS Lifetime, TLAPS

(* No end point reaches the largest std::size_t. *)
NoWrap == MaxEnd < SizeMax

(* What the comparator and the constructor mean on segments that callers   *)
(* build: equivalent segments are those that intersect or touch.           *)
LEMMA SegmentFacts ==
    ASSUME NoWrap, NEW s \in Segments, NEW t \in Segments
    PROVE  /\ s.start \in Nat /\ s.end \in Nat /\ s.start <= s.end
           /\ s.end <= MaxEnd
           /\ s = [start |-> s.start, end |-> s.end]
           /\ Less(s, t) <=> s.end + 1 < t.start
           /\ Equivalent(s, t) <=> s.start <= t.end + 1 /\ t.start <= s.end + 1
<1>1. /\ s.start \in 0 .. MaxEnd /\ s.end \in 0 .. MaxEnd /\ s.start <= s.end
      /\ t.start \in 0 .. MaxEnd /\ t.end \in 0 .. MaxEnd /\ t.start <= t.end
      /\ s = [start |-> s.start, end |-> s.end]
    BY DEF Segments, Segment
<1>2. MaxEnd \in Nat /\ SizeMax \in Nat
    BY SizesAssumption
<1>3. QED
    BY <1>1, <1>2 DEF NoWrap, Less, Equivalent, Next64

(* In a separated set only one of the segments merged by add(seg) can      *)
(* start before seg, and only one can end after it: the hull exists, and   *)
(* its two ends come from seg or from a merged segment.                    *)
LEMMA HullFacts ==
    ASSUME NoWrap, TypeOK, Separated, NEW seg \in Segments
    PROVE  LET merged == EqualRange(lt_segments, seg)
               h      == Hull(merged \cup {seg})
           IN  /\ h \in Segments
               /\ \E s \in merged \cup {seg} : h.start = s.start
               /\ \E s \in merged \cup {seg} : h.end = s.end
               /\ \A s \in merged \cup {seg} : h.start <= s.start /\ s.end <= h.end
<1> DEFINE merged == EqualRange(lt_segments, seg)
           all == merged \cup {seg}
           starts == {s.start : s \in all}
           ends == {s.end : s \in all}
<1>1. all \subseteq Segments /\ seg \in all
    BY DEF TypeOK, EqualRange
<1>2. \A s \in all : s.start \in Nat /\ s.end \in Nat /\ s.start <= s.end
                     /\ s.end <= MaxEnd
    BY <1>1, SegmentFacts
<1>3. \A s \in merged : s.start <= seg.end + 1 /\ seg.start <= s.end + 1
    <2>1. \A s \in merged : s \in Segments /\ Equivalent(s, seg)
        BY <1>1 DEF EqualRange
    <2>2. QED
        BY <2>1, SegmentFacts
<1>4. \A s, t \in merged : s # t => s.end + 1 < t.start \/ t.end + 1 < s.start
    BY DEF Separated, EqualRange
<1>5. \E x \in starts : \A y \in starts : x <= y
    <2>1. CASE \E s \in merged : s.start < seg.start
        <3>1. PICK s \in merged : s.start < seg.start
            BY <2>1
        <3>2. \A t \in all : s.start <= t.start
            BY <1>2, <1>3, <1>4, <3>1
        <3>3. QED
            BY <3>2
    <2>2. CASE ~ \E s \in merged : s.start < seg.start
        <3>1. \A t \in all : seg.start <= t.start
            BY <1>2, <2>2
        <3>2. QED
            BY <1>1, <3>1
    <2>3. QED
        BY <2>1, <2>2
<1>6. \E x \in ends : \A y \in ends : x >= y
    <2>1. CASE \E s \in merged : s.end > seg.end
        <3>1. PICK s \in merged : s.end > seg.end
            BY <2>1
        <3>2. \A t \in all : s.end >= t.end
            BY <1>2, <1>3, <1>4, <3>1
        <3>3. QED
            BY <3>2
    <2>2. CASE ~ \E s \in merged : s.end > seg.end
        <3>1. \A t \in all : seg.end >= t.end
            BY <1>2, <2>2
        <3>2. QED
            BY <1>1, <3>1
    <2>3. QED
        BY <2>1, <2>2
<1>7. Min(starts) \in starts /\ \A y \in starts : Min(starts) <= y
    BY <1>5 DEF Min
<1>8. Max(ends) \in ends /\ \A y \in ends : Max(ends) >= y
    BY <1>6 DEF Max
<1> DEFINE h == Hull(all)
<1>9. h = [start |-> Min(starts), end |-> Max(ends)]
    BY DEF Hull
<1>10. /\ \E s \in all : h.start = s.start
       /\ \E s \in all : h.end = s.end
       /\ \A s \in all : h.start <= s.start /\ s.end <= h.end
    <2>1. h.start = Min(starts) /\ h.end = Max(ends)
        <3> HIDE DEF h, starts, ends
        <3>1. QED
            BY <1>9
    <2>2. PICK s \in all : Min(starts) = s.start
        BY <1>7
    <2>3. PICK t \in all : Max(ends) = t.end
        BY <1>8
    <2>4. \A u \in all : Min(starts) <= u.start /\ Max(ends) >= u.end
        BY <1>7, <1>8
    <2>5. t.end \in Nat /\ \A u \in all : u.end \in Nat
        BY <1>2
    <2> HIDE DEF h, all
    <2>6. QED
        BY <2>1, <2>2, <2>3, <2>4, <2>5
<1>11. h \in Segments
    <2>1. h.start \in 0 .. MaxEnd /\ h.end \in 0 .. MaxEnd
        BY <1>1, <1>10 DEF Segments, Segment
    <2>2. h.start <= h.end
        BY <1>1, <1>2, <1>10, <2>1
    <2>3. QED
        BY <1>9, <2>1, <2>2 DEF Segments, Segment
<1>12. QED
    BY <1>10, <1>11

(* The hull is inserted: nothing left in the set touches it. *)
LEMMA AddInserts ==
    ASSUME NoWrap, TypeOK, Separated, NEW seg \in Segments, Add(seg)
    PROVE  LET merged == EqualRange(lt_segments, seg)
               h      == Hull(merged \cup {seg})
           IN  /\ \A s \in lt_segments \ merged : \/ s.end + 1 < h.start
                                                 \/ h.end + 1 < s.start
               /\ lt_segments' = (lt_segments \ merged) \cup {h}
<1> DEFINE merged == EqualRange(lt_segments, seg)
           h == Hull(merged \cup {seg})
           rest == lt_segments \ merged
<1>1. /\ h \in Segments
      /\ \E s \in merged \cup {seg} : h.start = s.start
      /\ \E s \in merged \cup {seg} : h.end = s.end
      /\ \A s \in merged \cup {seg} : h.start <= s.start /\ s.end <= h.end
    BY HullFacts
<1>2. lt_segments' = Inserted(rest, h)
    BY DEF Add, Added
<1> HIDE DEF h
<1>3. \A s \in rest : s.end + 1 < h.start \/ h.end + 1 < s.start
    <2> SUFFICES ASSUME NEW s \in rest
                 PROVE  s.end + 1 < h.start \/ h.end + 1 < s.start
        OBVIOUS
    <2>1. s \in Segments /\ s \in lt_segments /\ ~Equivalent(s, seg)
        BY DEF TypeOK, EqualRange
    <2>2. s.end + 1 < seg.start \/ seg.end + 1 < s.start
        BY <2>1, SegmentFacts
    <2>3. \A t \in merged : s.end + 1 < t.start \/ t.end + 1 < s.start
        BY <2>1 DEF Separated, EqualRange
    <2>4. \A t \in merged : t.start <= seg.end + 1 /\ seg.start <= t.end + 1
        <3>1. \A t \in merged : t \in Segments /\ Equivalent(t, seg)
            BY DEF TypeOK, EqualRange
        <3>2. QED
            BY <3>1, SegmentFacts
    <2>5. \A t \in merged \cup {seg, s, h} : /\ t.start \in Nat /\ t.end \in Nat
                                             /\ t.start <= t.end
        <3>1. \A t \in merged \cup {seg, s, h} : t \in Segments
            BY <1>1, <2>1 DEF TypeOK, EqualRange
        <3>2. QED
            BY <3>1, SegmentFacts
    <2>6. PICK a \in merged \cup {seg} : h.start = a.start
        BY <1>1
    <2>7. PICK b \in merged \cup {seg} : h.end = b.end
        BY <1>1
    <2> HIDE DEF merged, rest
    <2>8. CASE s.end + 1 < seg.start
        <3>1. s.end + 1 < h.start
            BY <2>2, <2>3, <2>4, <2>5, <2>6, <2>8
        <3>2. QED
            BY <3>1
    <2>9. CASE seg.end + 1 < s.start
        <3>1. h.end + 1 < s.start
            BY <2>2, <2>3, <2>4, <2>5, <2>7, <2>9
        <3>2. QED
            BY <3>1
    <2>10. QED
        BY <2>2, <2>8, <2>9
<1>4. EqualRange(rest, h) = {}
    <2>1. \A s \in rest : s \in Segments /\ s.end \in Nat /\ h.end \in Nat
                          /\ s.start \in Nat /\ h.start \in Nat
        BY <1>1, SegmentFacts DEF TypeOK
    <2>2. \A s \in rest : ~Equivalent(s, h)
        BY <1>1, <1>3, <2>1, SegmentFacts
    <2>3. QED
        BY <2>2 DEF EqualRange
<1>5. lt_segments' = rest \cup {h}
    BY <1>2, <1>4 DEF Inserted
<1>6. QED
    BY <1>3, <1>5 DEF h

-------------------------------------------------------------------------------

(* TypeOK and Separated are inductive together: the hull of add(seg) is a  *)
(* segment only because few of the merged segments can stick out of seg.   *)
LEMMA StepKeepsSeparated ==
    ASSUME NoWrap, TypeOK, Separated, [Next]_lt_segments
    PROVE  TypeOK' /\ Separated'
<1>1. ASSUME NEW seg \in Segments, Add(seg)
      PROVE  TypeOK' /\ Separated'
    <2> DEFINE merged == EqualRange(lt_segments, seg)
               h == Hull(merged \cup {seg})
    <2>1. h \in Segments
        BY HullFacts
    <2>2. /\ \A s \in lt_segments \ merged : \/ s.end + 1 < h.start
                                            \/ h.end + 1 < s.start
          /\ lt_segments' = (lt_segments \ merged) \cup {h}
        BY <1>1, AddInserts
    <2> HIDE DEF merged, h
    <2>3. TypeOK'
        BY <2>1, <2>2 DEF TypeOK
    <2>4. Separated'
        BY <2>2 DEF Separated
    <2>5. QED
        BY <2>3, <2>4
<1>2. ASSUME NEW seg \in Segments, Erase(seg)
      PROVE  TypeOK' /\ Separated'
    BY <1>2 DEF Erase, TypeOK, Separated
<1>3. ASSUME NEW seg \in Segments, Remove(seg)
      PROVE  TypeOK' /\ Separated'
    BY <1>3 DEF Remove, TypeOK, Separated
<1>4. CASE UNCHANGED lt_segments
    BY <1>4 DEF TypeOK, Separated
<1>5. QED
    BY <1>1, <1>2, <1>3, <1>4 DEF Next

(* lifetime.hpp, lines 101-116: whatever is added and removed, the stored  *)
(* segments are valid, and no two of them intersect or touch.              *)
THEOREM LifetimeSeparated == NoWrap => (Spec => [](TypeOK /\ Separated))
<1> SUFFICES ASSUME NoWrap PROVE Spec => [](TypeOK /\ Separated)
    OBVIOUS
<1>1. Init => TypeOK /\ Separated
    BY DEF Init, TypeOK, Separated
<1>2. (TypeOK /\ Separated) /\ [Next]_lt_segments => (TypeOK /\ Separated)'
    BY StepKeepsSeparated
<1>3. QED
    BY <1>1, <1>2, PTL DEF Spec

-------------------------------------------------------------------------------

LEMMA PointsOfSegments ==
    ASSUME NEW set, NEW p
    PROVE  p \in Points(set) <=> \E s \in set : p \in s.start .. s.end
BY DEF Points

(* add(seg) covers the points of seg and no others. *)
LEMMA AddCovers ==
    ASSUME NoWrap, TypeOK, Separated, NEW seg \in Segments, Add(seg)
    PROVE  Points(lt_segments)' = Points(lt_segments) \cup (seg.start .. seg.end)
<1> DEFINE merged == EqualRange(lt_segments, seg)
           h == Hull(merged \cup {seg})
<1>1. /\ h \in Segments
      /\ \E s \in merged \cup {seg} : h.start = s.start
      /\ \E s \in merged \cup {seg} : h.end = s.end
      /\ \A s \in merged \cup {seg} : h.start <= s.start /\ s.end <= h.end
    BY HullFacts
<1>2. lt_segments' = (lt_segments \ merged) \cup {h}
    BY AddInserts
<1> HIDE DEF h
<1>3. \A s \in merged \cup {seg, h} : /\ s.start \in Nat /\ s.end \in Nat
                                     /\ s.start <= s.end
    <2>1. \A s \in merged \cup {seg, h} : s \in Segments
        BY <1>1 DEF TypeOK, EqualRange
    <2>2. QED
        BY <2>1, SegmentFacts
<1>4. \A s \in merged : s.start <= seg.end + 1 /\ seg.start <= s.end + 1
    <2>1. \A s \in merged : s \in Segments /\ Equivalent(s, seg)
        BY DEF TypeOK, EqualRange
    <2>2. QED
        BY <2>1, SegmentFacts
<1>5. \A p : p \in h.start .. h.end
             <=> p \in seg.start .. seg.end \/ \E s \in merged : p \in s.start .. s.end
    <2> HIDE DEF merged
    <2>1. ASSUME NEW p, p \in h.start .. h.end
          PROVE  p \in seg.start .. seg.end \/ \E s \in merged : p \in s.start .. s.end
        <3>1. PICK a \in merged \cup {seg} : h.start = a.start
            BY <1>1
        <3>2. PICK b \in merged \cup {seg} : h.end = b.end
            BY <1>1
        <3>3. p \in Nat /\ h.start <= p /\ p <= h.end
            BY <1>3, <2>1
        <3>4. CASE p < seg.start
            <4>1. a \in merged /\ p \in a.start .. a.end
                BY <1>3, <1>4, <3>1, <3>3, <3>4
            <4>2. QED
                BY <4>1
        <3>5. CASE seg.end < p
            <4>1. b \in merged /\ p \in b.start .. b.end
                BY <1>3, <1>4, <3>2, <3>3, <3>5
            <4>2. QED
                BY <4>1
        <3>6. QED
            BY <1>3, <3>3, <3>4, <3>5
    <2>2. ASSUME NEW p, NEW s \in merged \cup {seg}, p \in s.start .. s.end
          PROVE  p \in h.start .. h.end
        BY <1>1, <1>3, <2>2
    <2>3. QED
        BY <2>1, <2>2
<1>6. \A p : p \in Points(lt_segments)'
             <=> p \in Points(lt_segments) \/ p \in seg.start .. seg.end
    <2> TAKE p
    <2> HIDE DEF merged
    <2>1. p \in Points(lt_segments)' <=> \E s \in lt_segments' : p \in s.start .. s.end
        BY PointsOfSegments DEF Points
    <2>2. p \in Points(lt_segments) <=> \E s \in lt_segments : p \in s.start .. s.end
        BY PointsOfSegments
    <2>3. merged \subseteq lt_segments
        BY DEF merged, EqualRange
    <2>4. QED
        BY <1>2, <1>5, <2>1, <2>2, <2>3
<1>7. QED
    BY <1>6

(* A stored segment is a maximal run, and taking it out uncovers its points. *)
LEMMA EraseUncovers ==
    ASSUME NoWrap, TypeOK, Separated, NEW seg \in lt_segments,
           lt_segments' = lt_segments \ {seg}
    PROVE  Abstract!Uncover(seg.start, seg.end)
<1>1. \A s \in lt_segments : s.start \in Nat /\ s.end \in Nat /\ s.start <= s.end
    BY SegmentFacts DEF TypeOK
<1>2. \A p : p \in Points(lt_segments) <=> \E s \in lt_segments : p \in s.start .. s.end
    BY PointsOfSegments
<1>3. \A p : p \in Points(lt_segments)' <=> \E s \in lt_segments' : p \in s.start .. s.end
    BY PointsOfSegments DEF Points
<1>4. \A s \in lt_segments : s = seg \/ s.end + 1 < seg.start \/ seg.end + 1 < s.start
    BY DEF Separated
<1>5. \A p \in Points(lt_segments) : p + 1 # seg.start /\ p # seg.end + 1
    <2> SUFFICES ASSUME NEW s \in lt_segments, NEW p \in s.start .. s.end
                 PROVE  p + 1 # seg.start /\ p # seg.end + 1
        BY <1>2
    <2>1. QED
        BY <1>1, <1>4
<1>6. \A p : p \in Points(lt_segments)'
             <=> p \in Points(lt_segments) /\ p \notin seg.start .. seg.end
    <2> TAKE p
    <2>1. \A s \in lt_segments : p \in s.start .. s.end /\ s # seg
                                => p \notin seg.start .. seg.end
        BY <1>1, <1>4
    <2>2. QED
        BY <1>2, <1>3, <2>1
<1>7. seg.start .. seg.end \subseteq Points(lt_segments)
    BY <1>2
<1>8. Points(lt_segments)' = Points(lt_segments) \ (seg.start .. seg.end)
    BY <1>6
<1>9. QED
    BY <1>1, <1>5, <1>7, <1>8 DEF Abstract!Uncover, Abstract!IsRun

(* lifetime.hpp, lines 56-116: through its queries a lifetime is the set   *)
(* of the points that add covered and remove has not taken out; how they   *)
(* were merged into segments cannot be seen.                               *)
THEOREM LifetimeImplementsPoints == NoWrap => (Spec => ImplementsPoints)
<1> SUFFICES ASSUME NoWrap PROVE Spec => ImplementsPoints
    OBVIOUS
<1>1. Init => Abstract!Init
    BY DEF Init, Abstract!Init, Points
<1>2. TypeOK /\ Separated /\ [Next]_lt_segments => [Abstract!Next]_(Points(lt_segments))
    <2> SUFFICES ASSUME TypeOK, Separated, [Next]_lt_segments
                 PROVE  [Abstract!Next]_(Points(lt_segments))
        OBVIOUS
    <2>1. \A s \in Segments : s.start \in Abstract!Point /\ s.end \in Abstract!Point
                             /\ s.start <= s.end
        BY SizesAssumption DEF Segments, Segment, Abstract!Point
    <2>2. ASSUME NEW seg \in Segments, Add(seg)
          PROVE  Abstract!Next
        <3>1. Abstract!Cover(seg.start, seg.end)
            BY <2>1, <2>2, AddCovers DEF Abstract!Cover
        <3>2. QED
            BY <2>1, <3>1 DEF Abstract!Next
    <2>3. ASSUME NEW seg \in Segments, Erase(seg)
          PROVE  Abstract!Next
        <3>1. Abstract!Uncover(seg.start, seg.end)
            BY <2>3, EraseUncovers DEF Erase
        <3>2. QED
            BY <2>1, <3>1 DEF Abstract!Next
    <2>4. ASSUME NEW seg \in Segments, Remove(seg)
          PROVE  Abstract!Next \/ UNCHANGED Points(lt_segments)
        <3>1. CASE contains(seg)
            <4>1. seg \in lt_segments /\ lt_segments' = lt_segments \ {seg}
                BY <2>4, <3>1 DEF Remove, contains, EqualRange
            <4>2. Abstract!Uncover(seg.start, seg.end)
                BY <4>1, EraseUncovers
            <4>3. QED
                BY <2>1, <4>2 DEF Abstract!Next
        <3>2. CASE ~contains(seg)
            BY <2>4, <3>2 DEF Remove, Points
        <3>3. QED
            BY <3>1, <3>2
    <2>5. CASE UNCHANGED lt_segments
        BY <2>5 DEF Points
    <2>6. QED
        BY <2>2, <2>3, <2>4, <2>5 DEF Next
<1>3. Spec => [](TypeOK /\ Separated)
    BY LifetimeSeparated
<1>4. QED
    BY <1>1, <1>2, <1>3, PTL DEF Spec, ImplementsPoints, Abstract!Spec

-------------------------------------------------------------------------------
(* Two points next to each other that are both covered are covered by one  *)
(* segment: separated segments leave a point between them.                 *)
LEMMA NeighboursTogether ==
    ASSUME NoWrap, TypeOK, Separated, NEW s \in lt_segments,
           NEW p \in Points(lt_segments),
           s.start <= p + 1, p <= s.end + 1
    PROVE  p \in s.start .. s.end
<1>1. PICK t \in lt_segments : p \in t.start .. t.end
    BY PointsOfSegments
<1>2. /\ s.start \in Nat /\ s.end \in Nat /\ t.start \in Nat /\ t.end \in Nat
    BY SegmentFacts DEF TypeOK
<1>3. ~(s.end + 1 < t.start) /\ ~(t.end + 1 < s.start)
    BY <1>1, <1>2
<1>4. s = t
    BY <1>3 DEF Separated
<1>5. QED
    BY <1>1, <1>4

(* A segment is contained if and only if it is a run of covered points     *)
(* that no larger one is around.                                           *)
LEMMA ContainsMaximal ==
    ASSUME NoWrap, TypeOK, Separated, NEW s \in Segments
    PROVE  contains(s) <=> /\ s.start .. s.end \subseteq Points(lt_segments)
                           /\ \A t \in Segments :
                                 /\ s.start .. s.end \subseteq t.start .. t.end
                                 /\ t.start .. t.end \subseteq Points(lt_segments)
                                 => t = s
<1>1. /\ s.start \in Nat /\ s.end \in Nat /\ s.start <= s.end
      /\ s = [start |-> s.start, end |-> s.end]
    BY SegmentFacts
<1>2. contains(s) <=> s \in lt_segments
    BY <1>1, SegmentFacts DEF contains, EqualRange
<1>3. \A t \in lt_segments : t \in Segments /\ t.start .. t.end \subseteq Points(lt_segments)
    BY PointsOfSegments DEF TypeOK
<1>4. ASSUME s \in lt_segments, NEW t \in Segments,
             s.start .. s.end \subseteq t.start .. t.end,
             t.start .. t.end \subseteq Points(lt_segments)
      PROVE  t = s
    <2>1. /\ t.start \in Nat /\ t.end \in Nat /\ t.start <= t.end
          /\ t = [start |-> t.start, end |-> t.end]
        BY SegmentFacts
    <2>2. s.start \in t.start .. t.end /\ s.end \in t.start .. t.end
        BY <1>1, <1>4
    <2>3. t.end <= s.end
        <3> SUFFICES ASSUME s.end < t.end PROVE FALSE
            BY <1>1, <2>1
        <3>1. s.end + 1 \in Points(lt_segments)
            BY <1>1, <1>4, <2>1, <2>2
        <3>2. s.end + 1 \in s.start .. s.end
            BY <1>1, <1>4, <3>1, NeighboursTogether
        <3>3. QED
            BY <1>1, <3>2
    <2>4. s.start <= t.start
        <3> SUFFICES ASSUME t.start < s.start PROVE FALSE
            BY <1>1, <2>1
        <3>1. s.start - 1 \in Points(lt_segments)
            BY <1>1, <1>4, <2>1, <2>2
        <3>2. s.start - 1 \in s.start .. s.end
            BY <1>1, <1>4, <3>1, NeighboursTogether
        <3>3. QED
            BY <1>1, <3>2
    <2>5. QED
        BY <1>1, <2>1, <2>2, <2>3, <2>4
<1>5. ASSUME s.start .. s.end \subseteq Points(lt_segments),
             \A t \in Segments :
                /\ s.start .. s.end \subseteq t.start .. t.end
                /\ t.start .. t.end \subseteq Points(lt_segments)
                => t = s
      PROVE  s \in lt_segments
    <2>1. PICK u \in lt_segments : s.start \in u.start .. u.end
        BY <1>1, <1>5, PointsOfSegments
    <2>2. u.start \in Nat /\ u.end \in Nat
        BY <1>3, SegmentFacts
    <2>3. s.end <= u.end
        <3> SUFFICES ASSUME u.end < s.end PROVE FALSE
            BY <1>1, <2>2
        <3>1. u.end + 1 \in Points(lt_segments)
            BY <1>1, <1>5, <2>1, <2>2
        <3>2. u.end + 1 \in u.start .. u.end
            BY <2>1, <2>2, <3>1, NeighboursTogether
        <3>3. QED
            BY <2>2, <3>2
    <2>4. s.start .. s.end \subseteq u.start .. u.end
        BY <1>1, <2>1, <2>2, <2>3
    <2>5. QED
        BY <1>3, <1>5, <2>4
<1>6. QED
    BY <1>2, <1>3, <1>4, <1>5

(* A segment is equivalent to a stored one if and only if that has a point *)
(* in it or next to it.                                                    *)
LEMMA IntersectsTouching ==
    ASSUME NoWrap, TypeOK, Separated, NEW s \in Segments
    PROVE  intersects(s) <=> \E p \in Points(lt_segments) : s.start <= p + 1 /\ p <= s.end + 1
<1>1. s.start \in Nat /\ s.end \in Nat /\ s.start <= s.end
    BY SegmentFacts
<1>2. \A t \in lt_segments : /\ t \in Segments
                             /\ t.start \in Nat /\ t.end \in Nat /\ t.start <= t.end
                             /\ t.start .. t.end \subseteq Points(lt_segments)
    BY PointsOfSegments, SegmentFacts DEF TypeOK
<1>3. intersects(s) <=> \E t \in lt_segments : t.start <= s.end + 1 /\ s.start <= t.end + 1
    BY <1>2, SegmentFacts DEF intersects, EqualRange
<1>4. ASSUME NEW t \in lt_segments, t.start <= s.end + 1, s.start <= t.end + 1
      PROVE  \E p \in Points(lt_segments) : s.start <= p + 1 /\ p <= s.end + 1
    <2>1. CASE s.start <= t.start + 1
        <3>1. t.start \in Points(lt_segments)
            BY <1>2
        <3>2. QED
            BY <1>4, <2>1, <3>1
    <2>2. CASE ~(s.start <= t.start + 1)
        <3>1. s.start - 1 \in t.start .. t.end
            BY <1>1, <1>2, <1>4, <2>2
        <3>2. s.start - 1 \in Points(lt_segments)
            BY <1>2, <3>1
        <3>3. s.start <= (s.start - 1) + 1 /\ s.start - 1 <= s.end + 1
            BY <1>1
        <3>4. QED
            BY <3>2, <3>3
    <2>3. QED
        BY <2>1, <2>2
<1>5. ASSUME NEW p \in Points(lt_segments), s.start <= p + 1, p <= s.end + 1
      PROVE  \E t \in lt_segments : t.start <= s.end + 1 /\ s.start <= t.end + 1
    <2>1. PICK t \in lt_segments : p \in t.start .. t.end
        BY PointsOfSegments
    <2>2. QED
        BY <1>1, <1>2, <1>5, <2>1
<1>6. QED
    BY <1>3, <1>4, <1>5

(* lifetime.hpp, lines 87-99: contains() asks for a maximal run of covered *)
(* points, and intersects() for a covered point in the segment or next to  *)
(* it.                                                                     *)
THEOREM LifetimeQueries == NoWrap => (Spec => []QueriesMeanPoints)
<1> SUFFICES ASSUME NoWrap PROVE Spec => []QueriesMeanPoints
    OBVIOUS
<1>1. TypeOK /\ Separated => QueriesMeanPoints
    BY ContainsMaximal, IntersectsTouching DEF QueriesMeanPoints
<1>2. QED
    BY <1>1, LifetimeSeparated, PTL
===============================================================================
