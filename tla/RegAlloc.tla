------------------------------- MODULE RegAlloc -------------------------------
(***************************************************************************)
(* Linear-scan register allocation, the constructor of bjac::RegAlloc      *)
(* (lib/analysis/reg_alloc.cpp).  A step of the specification is one turn  *)
(* of the loop over sorted_lifetimes (lines 82-98).                        *)
(*                                                                         *)
(* lifetime[i] is what LivenessAnalysis computed for i, reduced to its     *)
(* start_point() and end_point(), all the allocator looks at.  The loop    *)
(* reads it through pointers into an analysis object that the lambda of    *)
(* lines 66-80 destroys before the loop starts; heap[i] is what such a     *)
(* read finds.  With HeapReused = FALSE the freed memory keeps its         *)
(* contents, what the allocator's tests rely on; with HeapReused = TRUE    *)
(* the nodes the loop allocates may overwrite it.                          *)
(*                                                                         *)
(* The assertion of line 90 is a property here, not a guard: without it    *)
(* std::ranges::find returns free_regs.end(), whose index is NumRegs.      *)
(***************************************************************************)
EXTENDS FiniteSets, FiniteSetsExt, Naturals

CONSTANTS Instr, NumRegs, MaxPoint, HeapReused

ASSUME RegAllocAssumption ==
    /\ IsFiniteSet(Instr)
    /\ NumRegs \in Nat \ {0}
    /\ MaxPoint \in Nat
    /\ HeapReused \in BOOLEAN

VARIABLES
    lifetime,       \* what LivenessAnalysis computed
    heap,           \* what the dangling LTInfo::lifetime pointers read
    todo,           \* the part of sorted_lifetimes the loop has not reached
    active,         \* std::map<LTInfo, size_t, EndPointCompare>
    free_regs,      \* the indices i with free_regs[i] = kFree
    instr_to_reg_,  \* the result: a Storage for every instruction seen
    stack_loc       \* the next stack slot

vars == <<lifetime, heap, todo, active, free_regs, instr_to_reg_, stack_loc>>

-------------------------------------------------------------------------------

Interval == {s \in [start : 0 .. MaxPoint, end : 0 .. MaxPoint] : s.start <= s.end}

Reg == 0 .. NumRegs - 1

Storage == [kind : {"register", "stack"}, index : Nat]

Entry == [instr : Instr, reg : Nat]

Register(r) == [kind |-> "register", index |-> r]

StackSlot(n) == [kind |-> "stack", index |-> n]

(* instr_to_reg_[instr] = storage and instr_to_reg_.try_emplace *)
Assigned(map, i, storage) ==
    [j \in DOMAIN map \cup {i} |-> IF j = i THEN storage ELSE map[j]]

TryEmplaced(map, i, storage) ==
    IF i \in DOMAIN map THEN map ELSE Assigned(map, i, storage)

(* EndPointCompare (lines 30-34) makes the end point the whole key of      *)
(* active: an entry is not emplaced beside one that ends at the same point.*)
Emplaced(map, entry) ==
    IF \E a \in map : heap[a.instr].end = heap[entry.instr].end
    THEN map
    ELSE map \cup {entry}

(* Mutant: intervals that end at the current point stay active *)
ExpiredLate(point) == {a \in active : heap[a.instr].end < point}

(* Mutant: intervals are expired one instruction too early *)
ExpiredEarly(point) == {a \in active : heap[a.instr].end <= point + 1}

(* expire_old_intervals(point) (lines 38-46) *)
Expired(point) == {a \in active : heap[a.instr].end <= point}

StillActive(i) == active \ Expired(heap[i].start)

(* Mutant: the registers of expired intervals are not freed *)
FreeWithoutExpiry(i) == free_regs

FreeAfterExpiry(i) ==
    free_regs \cup ({a.reg : a \in Expired(heap[i].start)} \cap Reg)

(* Mutant: begin() instead of prev(end()) *)
IsFirst(a, map) == \A b \in map : heap[b.instr].end >= heap[a.instr].end

IsLast(a, map) == \A b \in map : heap[b.instr].end <= heap[a.instr].end

(* What an allocation of the loop may do to freed memory. *)
HeapStep == heap' \in IF HeapReused THEN [Instr -> Interval] ELSE {heap}

(* std::ranges::sort (line 73) is not stable and sorts the elements of an  *)
(* unordered_map: equal start points come in any order.                    *)
IsNext(i) == /\ i \in todo
             /\ \A j \in todo : lifetime[i].start <= lifetime[j].start

-------------------------------------------------------------------------------

Init ==
    /\ lifetime \in [Instr -> Interval]
    /\ heap = lifetime
    /\ todo = Instr
    /\ active = {}
    /\ free_regs = Reg
    /\ instr_to_reg_ = << >>
    /\ stack_loc = 0

(* Lines 88-97.  The first free register, or the end iterator's index. *)
FirstFree(regs) == IF regs = {} THEN NumRegs ELSE Min(regs)

AssignRegister(i) ==
    LET live == StillActive(i)
        free == FreeAfterExpiry(i)
        reg  == FirstFree(free)
    IN  /\ Cardinality(live) # NumRegs
        /\ free_regs' = free \ {reg}
        /\ instr_to_reg_' = TryEmplaced(instr_to_reg_, i, Register(reg))
        /\ active' = Emplaced(live, [instr |-> i, reg |-> reg])
        /\ UNCHANGED stack_loc

(* Mutant: the stack slot is not used up *)
SpillCurrentSameSlot(i) ==
    LET live == StillActive(i)
    IN  /\ Cardinality(live) = NumRegs
        /\ \A a \in live : heap[a.instr].end <= heap[i].end
        /\ active' = live
        /\ free_regs' = FreeAfterExpiry(i)
        /\ instr_to_reg_' = Assigned(instr_to_reg_, i, StackSlot(stack_loc))
        /\ UNCHANGED stack_loc

(* Lines 53-55, 87: the current instruction ends last and is spilled *)
SpillCurrent(i) ==
    LET live == StillActive(i)
    IN  /\ Cardinality(live) = NumRegs
        /\ \A a \in live : heap[a.instr].end <= heap[i].end
        /\ active' = live
        /\ free_regs' = FreeAfterExpiry(i)
        /\ instr_to_reg_' = Assigned(instr_to_reg_, i, StackSlot(stack_loc))
        /\ stack_loc' = stack_loc + 1

(* Mutant: the current instruction is not entered in the result *)
SpillActiveForgets(i) ==
    LET live == StillActive(i)
    IN  \E last \in live :
            /\ Cardinality(live) = NumRegs
            /\ IsLast(last, live)
            /\ heap[last.instr].end > heap[i].end
            /\ active' = Emplaced(live \ {last}, [instr |-> i, reg |-> last.reg])
            /\ free_regs' = FreeAfterExpiry(i)
            /\ instr_to_reg_' = Assigned(instr_to_reg_, last.instr, StackSlot(stack_loc))
            /\ stack_loc' = stack_loc + 1

(* Lines 57-63, 87: the active instruction that ends last is spilled, and  *)
(* the current one takes its register and its node in the map.             *)
SpillActive(i) ==
    LET live == StillActive(i)
    IN  \E last \in live :
            /\ Cardinality(live) = NumRegs
            /\ IsLast(last, live)
            /\ heap[last.instr].end > heap[i].end
            /\ active' = Emplaced(live \ {last}, [instr |-> i, reg |-> last.reg])
            /\ free_regs' = FreeAfterExpiry(i)
            /\ instr_to_reg_' =
                   Assigned(TryEmplaced(instr_to_reg_, i, Register(last.reg)),
                            last.instr, StackSlot(stack_loc))
            /\ stack_loc' = stack_loc + 1

Turn(i) ==
    /\ IsNext(i)
    /\ AssignRegister(i) \/ SpillCurrent(i) \/ SpillActive(i)
    /\ todo' = todo \ {i}
    /\ HeapStep
    /\ UNCHANGED lifetime

Done == todo = {} /\ UNCHANGED vars

Next == (\E i \in Instr : Turn(i)) \/ Done

Spec == Init /\ [][Next]_vars /\ WF_vars(Next)

-------------------------------------------------------------------------------

Seen == DOMAIN instr_to_reg_

(* i and j need their values at the same time.  A value whose last use is  *)
(* the instruction that defines another may give it its register, and a    *)
(* value that is never used (start = end) may be overwritten at once.      *)
Overlap(i, j) == /\ lifetime[i].start < lifetime[j].end
                 /\ lifetime[j].start < lifetime[i].end

(* the values that have to be somewhere at point p *)
LiveAt(p) == {i \in Seen : /\ lifetime[i].start <= p
                           /\ p < lifetime[i].end \/ p = lifetime[i].start}

DistinctEnds == \A i, j \in Instr : lifetime[i].end = lifetime[j].end => i = j

TypeOK ==
    /\ lifetime \in [Instr -> Interval]
    /\ heap \in [Instr -> Interval]
    /\ todo \subseteq Instr
    /\ active \subseteq Entry
    /\ free_regs \subseteq Reg
    /\ Seen = Instr \ todo
    /\ \A i \in Seen : instr_to_reg_[i] \in Storage
    /\ stack_loc \in Nat

(* Lines 38-46 and 82-97: two values that are needed at the same time are  *)
(* never left in the same register, whatever was expired, spilled or       *)
(* forgotten by active before.  Two of them may have the index NumRegs,    *)
(* that of free_regs.end(), which is no register: the assertion of line 90 *)
(* fails for both, and without it line 91 writes past free_regs.           *)
NoSharedRegister ==
    \A i, j \in Seen :
        (/\ i # j
         /\ instr_to_reg_[i] = instr_to_reg_[j]
         /\ instr_to_reg_[i].kind = "register"
         /\ instr_to_reg_[i].index \in Reg) => ~Overlap(i, j)

(* Line 90, assert(free_reg_it != free_regs.end()): when active is not     *)
(* full a register is free.                                                *)
FreeRegisterFound ==
    \A i \in todo :
        IsNext(i) /\ Cardinality(StillActive(i)) # NumRegs => FreeAfterExpiry(i) # {}

(* The assertion does hold of a function no two values of which have their *)
(* last use at the same instruction.                                       *)
FreeRegisterFoundIfEndsDiffer == DistinctEnds => FreeRegisterFound

(* Line 85: a value is spilled only if, at some point of its lifetime,     *)
(* more values are live than there are registers.                          *)
SpillOnlyUnderPressure ==
    \A i \in Seen :
        instr_to_reg_[i].kind = "stack" =>
            \E p \in lifetime[i].start .. lifetime[i].end :
                i \in LiveAt(p) /\ Cardinality(LiveAt(p)) > NumRegs

(* Lines 51-63: a value that goes to the stack ends last among those that  *)
(* compete for the registers, so that the spill frees as much as it can.   *)
SpillsTheLast ==
    [][\A i \in DOMAIN instr_to_reg_' :
          /\ instr_to_reg_'[i].kind = "stack"
          /\ i \in Seen => instr_to_reg_[i].kind # "stack"
          => \A a \in active' : lifetime[a.instr].end <= lifetime[i].end]_vars

(* The loop reaches every instruction and gives it a place. *)
AllPlaced == <>(todo = {} /\ Seen = Instr)

(* reg_alloc.cpp, lines 82-98: with distinct end points the scan           *)
(* implements the abstract assignment: no register is shared, no stack     *)
(* slot is shared, and a value that has a place leaves it only for the     *)
(* stack, once.                                                            *)
Assignment == INSTANCE StorageAssignment
    WITH place <- IF DistinctEnds THEN instr_to_reg_ ELSE << >>

ImplementsAssignment == Assignment!Spec
===============================================================================
